------------------------- MODULE ConnectionManager -------------------------
(***************************************************************************)
(* The wallet's links to full nodes (core/connection.ts over               *)
(* core/peerLink.ts): probes, requests that try one peer after the other,  *)
(* reconnect timers, and peers that are added and removed meanwhile.       *)
(*                                                                         *)
(* An entry is one PeerState object: an address that is removed and added  *)
(* again gets a new one, and the old one may still be in use.  A call is a *)
(* probe or a request under way.  The continuation of an answered or       *)
(* failed call runs before the next event, as microtasks do (Due).         *)
(***************************************************************************)
EXTENDS PeerLink

CONSTANTS
    Entries,        \* PeerState objects, numbered in the order of their creation
    Address,        \* Address[e]
    Configured,     \* addresses of the configuration
    HttpAddresses,  \* addresses with an HTTP origin
    OtherNetwork,   \* addresses of nodes whose hello names another network
    LinkCount,      \* LinkCount[e]: the WebSocket URLs of an entry
    Calls,          \* probes and requests that may be under way at once
    MaxFaults,      \* bound: nodes that go down, lost answers, dropped sockets
    MaxUserSteps    \* bound: addNode, removeNode, stop and restart

ASSUME ManagerAssumption ==
    /\ Entries \subseteq Nat
    /\ LinkCount \in [Entries -> Nat \ {0}]
    /\ MaxFaults \in Nat /\ MaxUserSteps \in Nat

Addresses == {Address[e] : e \in Entries}

VARIABLES
    known,      \* the entries in the map "states"
    persisted,  \* runtime addresses in peers.json
    connected,  \* view.connected
    pending,    \* reconnectPending
    timer,      \* reconnectTimer is set
    links,      \* links[e][k]
    calls,      \* calls[c]
    up,         \* the addresses whose node runs
    stopped,
    faults, userSteps

managerVars == <<known, persisted, connected, pending, timer, stopped>>
vars == <<managerVars, links, calls, up, faults, userSteps>>

(* at: "http", "opening" and "sent" wait for an event; "answered" and "failed" are due.
   via: the socket that an opening or a sent call waits for.  rest: the entries a request
   tries after this one.  first: those that were connected when it began. *)
NoCall == [kind |-> "none", entry |-> 0, link |-> 0, at |-> "none", via |-> NoSocket,
           rest |-> {}, first |-> {}]
HasHttp(e) == Address[e] \in HttpAddresses
LinkOf(c) == links[calls[c].entry][calls[c].link]
Due(c) == calls[c].at \in {"answered", "failed"}
Quiet == \A c \in Calls : ~Due(c)
Fault == faults < MaxFaults /\ faults' = faults + 1

Fresh(a) == {e \in Entries : Address[e] = a /\ \A f \in known : Address[f] # a}
InitialEntries(addresses) ==
    {e \in Entries : Address[e] \in addresses /\ \A f \in Entries : Address[f] = Address[e] => e <= f}
NoLinks == [e \in Entries |-> [k \in 1..LinkCount[e] |-> NewLink]]

Init ==
    /\ known = InitialEntries(Configured) /\ persisted = {}
    /\ connected = [e \in Entries |-> FALSE]
    /\ pending = [e \in Entries |-> FALSE] /\ timer = [e \in Entries |-> FALSE]
    /\ links = NoLinks
    /\ calls = [c \in Calls |-> NoCall]
    /\ up = Addresses /\ stopped = FALSE
    /\ faults = 0 /\ userSteps = 0

-----------------------------------------------------------------------------
(* Bookkeeping of a peer *)

markPeerConnected(e) ==
    /\ connected' = [connected EXCEPT ![e] = TRUE]
    /\ pending' = [pending EXCEPT ![e] = FALSE]
    /\ timer' = [timer EXCEPT ![e] = FALSE]

(* scheduleReconnect: the backoff only decides when the timer fires. *)
scheduleReconnect(e) ==
    IF stopped \/ pending[e] THEN UNCHANGED <<pending, timer>>
    ELSE /\ pending' = [pending EXCEPT ![e] = TRUE]
         /\ timer' = [timer EXCEPT ![e] = TRUE]

markPeerFailed(e) ==
    /\ connected' = [connected EXCEPT ![e] = FALSE]
    /\ scheduleReconnect(e)

(* A call comes to link k of an entry: it waits for the socket that is opening, or sends
   at once when the link is open. *)
AtLink(call, e, k, link) ==
    [call EXCEPT !.entry = e, !.link = k,
                 !.at = IF IsOpen(link) THEN "sent" ELSE "opening",
                 !.via = IF IsOpen(link) THEN link.socket ELSE link.connecting]

TryLink(c, call, e, k, before) ==
    /\ CanOpen(before[e][k])
    /\ links' = [before EXCEPT ![e][k] = opened(before[e][k])]
    /\ calls' = [calls EXCEPT ![c] = AtLink(call, e, k, opened(before[e][k]))]

(* Mutant: the request starts again with the first peer each time. *)
TryEntry_FromTheFirst(c, call, e) ==
    IF HasHttp(e)
    THEN /\ calls' = [calls EXCEPT ![c] = [call EXCEPT !.entry = e, !.link = 0, !.at = "http",
                                            !.rest = known]]
         /\ UNCHANGED links
    ELSE TryLink(c, [call EXCEPT !.rest = known], e, 1, links)
TryEntry(c, call, e) ==
    IF HasHttp(e)
    THEN /\ calls' = [calls EXCEPT ![c] = [call EXCEPT !.entry = e, !.link = 0, !.at = "http"]]
         /\ UNCHANGED links
    ELSE TryLink(c, call, e, 1, links)

(* requestTransport: the peers connected at its start first, each group in the order of
   creation. *)
Before(first, e, f) == \/ e \in first /\ f \notin first
                       \/ (e \in first <=> f \in first) /\ e < f
TryNext(c, call, entries) ==
    \E e \in entries : /\ \A f \in entries \ {e} : Before(call.first, e, f)
                       /\ TryEntry(c, [call EXCEPT !.rest = entries \ {e}], e)

Ends(c) == calls' = [calls EXCEPT ![c] = NoCall]

-----------------------------------------------------------------------------
(* Probes and requests begin *)

Probe(c, e) ==
    /\ calls[c] = NoCall
    /\ TryEntry(c, [NoCall EXCEPT !.kind = "probe"], e)

(* The sweep of start() and its interval: one probe of each known peer. *)
Sweep(c, e) ==
    /\ Quiet /\ ~stopped /\ e \in known /\ ~pending[e]
    /\ \A d \in Calls : calls[d].kind = "probe" => calls[d].entry # e
    /\ Probe(c, e)
    /\ UNCHANGED <<managerVars, up, faults, userSteps>>

(* The timer of a peer, also of one that has been removed since. *)
ReconnectTimer(c, e) ==
    /\ Quiet /\ timer[e]
    /\ timer' = [timer EXCEPT ![e] = FALSE] /\ pending' = [pending EXCEPT ![e] = FALSE]
    /\ Probe(c, e)
    /\ UNCHANGED <<known, persisted, connected, stopped, up, faults, userSteps>>

Request(c) ==
    /\ Quiet /\ ~stopped /\ known # {} /\ calls[c] = NoCall
    /\ \A d \in Calls : calls[d].kind # "request"
    /\ TryNext(c, [NoCall EXCEPT !.kind = "request", !.first = {e \in known : connected[e]}], known)
    /\ UNCHANGED <<managerVars, up, faults, userSteps>>

-----------------------------------------------------------------------------
(* Events of calls *)

HttpAnswers(c) ==
    /\ Quiet /\ calls[c].at = "http" /\ Address[calls[c].entry] \in up
    /\ calls' = [calls EXCEPT ![c].at = "answered"]
    /\ UNCHANGED <<managerVars, links, up, faults, userSteps>>

HttpFails(c) ==
    /\ Quiet /\ calls[c].at = "http"
    /\ IF Address[calls[c].entry] \in up THEN Fault ELSE UNCHANGED faults
    /\ calls' = [calls EXCEPT ![c].at = "failed"]
    /\ UNCHANGED <<managerVars, links, up, userSteps>>

Waiting(e, k, at) ==
    {c \in Calls : calls[c].entry = e /\ calls[c].link = k /\ calls[c].at = at}

(* The hello of the node settles the attempt: whoever waited for it sends now. *)
Hello(e, k) ==
    /\ Quiet /\ links[e][k].connecting # NoSocket /\ Address[e] \in up
    /\ links[e][k].sockets[links[e][k].connecting] = "opening"
    /\ IF Address[e] \in OtherNetwork
       THEN links' = [links EXCEPT ![e][k] = refused(@)] /\ UNCHANGED calls
       ELSE /\ links' = [links EXCEPT ![e][k] = greeted(@)]
            /\ calls' = [c \in Calls |-> IF c \in Waiting(e, k, "opening")
                                         THEN [calls[c] EXCEPT !.at = "sent"] ELSE calls[c]]
    /\ UNCHANGED <<managerVars, up, faults, userSteps>>

(* A timeout or a refused connection; a node that runs fails to greet only by a fault. *)
ConnectFails(e, k) ==
    /\ Quiet /\ links[e][k].connecting # NoSocket
    /\ IF Address[e] \in up \ OtherNetwork THEN Fault ELSE UNCHANGED faults
    /\ links' = [links EXCEPT ![e][k] = connectFailed(@)]
    /\ calls' = [c \in Calls |-> IF c \in Waiting(e, k, "opening")
                                 THEN [calls[c] EXCEPT !.at = "failed"] ELSE calls[c]]
    /\ UNCHANGED <<managerVars, up, userSteps>>

(* An rpc_result arrives over a socket that is not closed, also one the link no longer
   uses, and a 2xx status resolves the call. *)
Answer(c) ==
    /\ Quiet /\ calls[c].at = "sent" /\ Address[calls[c].entry] \in up
    /\ LinkOf(c).sockets[calls[c].via] = "open"
    /\ calls' = [calls EXCEPT ![c].at = "answered"]
    /\ UNCHANGED <<managerVars, links, up, faults, userSteps>>

(* The answer is an error, or late, or lost: the call is rejected. *)
RequestFails(c) ==
    /\ Quiet /\ calls[c].at = "sent"
    /\ IF Address[calls[c].entry] \in up /\ LinkOf(c).sockets[calls[c].via] = "open"
       THEN Fault ELSE UNCHANGED faults
    /\ calls' = [calls EXCEPT ![c].at = "failed"]
    /\ UNCHANGED <<managerVars, links, up, userSteps>>

(* Mutant: the flag goes up with the drop, the timer is left to a later failure. *)
handleLinkDrop_NoTimer(e) ==
    IF stopped \/ \A f \in known : Address[f] # Address[e]
    THEN UNCHANGED <<connected, pending, timer>>
    ELSE /\ connected' = [connected EXCEPT ![e] = FALSE]
         /\ pending' = [pending EXCEPT ![e] = TRUE]
         /\ UNCHANGED timer
handleLinkDrop(e) ==
    IF stopped \/ \A f \in known : Address[f] # Address[e]
    THEN UNCHANGED <<connected, pending, timer>>
    ELSE /\ connected' = [connected EXCEPT ![e] = FALSE]
         /\ scheduleReconnect(e)

(* The close event of any socket of the link rejects every request the link waits for,
   those sent over its successor too; only that of the socket in use is a drop. *)
SocketCloses(e, k, s) ==
    LET link == links[e][k]
    IN  /\ Quiet \/ Free(link) = {}    \* (bound) a continuation may wait for a socket name
        /\ link.sockets[s] \in {"open", "closing"}
        /\ IF link.sockets[s] = "open" /\ Address[e] \in up THEN Fault ELSE UNCHANGED faults
        /\ links' = [links EXCEPT ![e][k] = socketClosed(@, s)]
        /\ calls' = [c \in Calls |-> IF c \in Waiting(e, k, "sent")
                                     THEN [calls[c] EXCEPT !.at = "failed"] ELSE calls[c]]
        /\ IF link.socket = s THEN handleLinkDrop(e) ELSE UNCHANGED <<connected, pending, timer>>
        /\ UNCHANGED <<known, persisted, stopped, up, userSteps>>

-----------------------------------------------------------------------------
(* Continuations *)

CallSucceeds(c) ==
    /\ calls[c].at = "answered"
    /\ markPeerConnected(calls[c].entry)
    /\ Ends(c)
    /\ UNCHANGED <<known, persisted, stopped, links, up, faults, userSteps>>

(* A probe closes the link that failed it and goes on to the next; a request leaves the
   link as it is. *)
LinkFails(c) ==
    LET call == calls[c]
        e == call.entry
        after == IF call.kind = "probe" /\ call.link > 0
                 THEN [links EXCEPT ![e][call.link] = closed(@)] ELSE links
        down == [connected EXCEPT ![e] = FALSE]
        more == call.link < LinkCount[e]
    IN  /\ call.at = "failed"
        /\ IF more
           THEN /\ TryLink(c, call, e, call.link + 1, after)
                /\ connected' = IF call.kind = "probe" /\ call.link = 0 THEN connected ELSE down
                /\ UNCHANGED <<pending, timer>>
           ELSE IF call.kind = "probe"
           THEN links' = after /\ Ends(c) /\ markPeerFailed(e)
           ELSE /\ connected' = down
                /\ UNCHANGED <<pending, timer>>
                /\ IF call.rest = {} THEN Ends(c) /\ UNCHANGED links
                   ELSE TryNext(c, call, call.rest)
        /\ UNCHANGED <<known, persisted, stopped, up, faults, userSteps>>

-----------------------------------------------------------------------------
(* The user, and the nodes *)

UserStep == userSteps < MaxUserSteps /\ userSteps' = userSteps + 1
Runtime(entries) == {Address[e] : e \in entries \ InitialEntries(Configured)}    \* persistRuntimePeers

(* A number stands for a new PeerState when nothing of its last one is left. *)
Unused(e) == links[e] = NoLinks[e] /\ ~timer[e] /\ \A c \in Calls : calls[c].entry # e

addNode(c, a) ==
    /\ Quiet /\ UserStep /\ ~stopped
    /\ \E e \in {f \in known : Address[f] = a} \cup {f \in Fresh(a) : Unused(f)} :
          /\ known' = known \cup {e}
          /\ connected' = [connected EXCEPT ![e] = @ /\ e \in known]
          /\ pending' = [pending EXCEPT ![e] = @ /\ e \in known]
          /\ IF pending'[e] THEN UNCHANGED <<calls, links>> ELSE Probe(c, e)
    /\ persisted' = Runtime(known')
    /\ UNCHANGED <<timer, stopped, up, faults>>

(* Closes the links and forgets the entry; a probe under way is not told. *)
removeNode(e) ==
    /\ Quiet /\ UserStep /\ ~stopped /\ e \in known
    /\ known' = known \ {e}
    /\ timer' = [timer EXCEPT ![e] = FALSE]
    /\ links' = [links EXCEPT ![e] = [k \in DOMAIN @ |-> closed(@[k])]]
    /\ persisted' = Runtime(known')
    /\ UNCHANGED <<connected, pending, stopped, calls, up, faults>>

stop ==
    /\ Quiet /\ UserStep /\ ~stopped
    /\ stopped' = TRUE
    /\ timer' = [e \in Entries |-> IF e \in known THEN FALSE ELSE timer[e]]
    /\ pending' = [e \in Entries |-> IF e \in known THEN FALSE ELSE pending[e]]
    /\ links' = [e \in Entries |-> IF e \in known
                                   THEN [k \in DOMAIN links[e] |-> closed(links[e][k])] ELSE links[e]]
    /\ UNCHANGED <<known, persisted, connected, calls, up, faults>>

(* A new process: the constructor adds the configured nodes and the persisted ones. *)
Restart ==
    /\ UserStep
    /\ known' = InitialEntries(Configured \cup persisted)
    /\ connected' = [e \in Entries |-> FALSE]
    /\ pending' = [e \in Entries |-> FALSE] /\ timer' = [e \in Entries |-> FALSE]
    /\ links' = NoLinks /\ calls' = [c \in Calls |-> NoCall]
    /\ stopped' = FALSE
    /\ UNCHANGED <<persisted, up, faults>>

NodeFails(a) ==
    /\ Quiet /\ a \in up /\ Fault
    /\ up' = up \ {a}
    /\ UNCHANGED <<managerVars, links, calls, userSteps>>

NodeReturns(a) ==
    /\ Quiet /\ a \notin up
    /\ up' = up \cup {a}
    /\ UNCHANGED <<managerVars, links, calls, faults, userSteps>>

LinkEvent(e, k) ==
    \/ Hello(e, k) \/ ConnectFails(e, k)
    \/ \E s \in Sockets : SocketCloses(e, k, s)
CallEvent(c) == HttpAnswers(c) \/ HttpFails(c) \/ Answer(c) \/ RequestFails(c)
Continue(c) == CallSucceeds(c) \/ LinkFails(c)

Next ==
    \/ \E c \in Calls, e \in Entries : Sweep(c, e) \/ ReconnectTimer(c, e)
    \/ \E c \in Calls : Request(c) \/ CallEvent(c) \/ Continue(c)
    \/ \E e \in Entries : \E k \in 1..LinkCount[e] : LinkEvent(e, k)
    \/ \E c \in Calls, a \in Addresses : addNode(c, a)
    \/ \E e \in Entries : removeNode(e)
    \/ stop \/ Restart
    \/ \E a \in Addresses : NodeFails(a) \/ NodeReturns(a)

(* The event loop and its timers, stated on the state they change: a call under way keeps
   moving (one of its events or timeouts is always to come), the interval probes every
   known peer that is not waiting for its timer, and every timer fires.  The backoff grows
   to 30 s, longer than a close takes: not every timer finds a socket still closing. *)
Probed(e) == \E c \in Calls : calls[c].kind = "probe" /\ calls[c].entry = e
Closing(e) == \E k \in 1..LinkCount[e], s \in Sockets : links[e][k].sockets[s] = "closing"
Fairness ==
    /\ \A c \in Calls : []<>(calls[c].at = "none") \/ []<><<TRUE>>_(calls[c])
    /\ \A e \in Entries : /\ []<>(Probed(e) \/ pending[e] \/ stopped \/ e \notin known)
                          /\ []<>(~timer[e])
                          /\ []<>(timer[e]) => []<>(timer[e] /\ ~Closing(e))

Spec == Init /\ [][Next]_vars /\ Fairness

-----------------------------------------------------------------------------
(* Properties *)

TypeOK ==
    /\ known \subseteq Entries /\ persisted \subseteq Addresses
    /\ connected \in [Entries -> BOOLEAN]
    /\ pending \in [Entries -> BOOLEAN] /\ timer \in [Entries -> BOOLEAN]
    /\ \A e \in Entries : \A k \in 1..LinkCount[e] : LinkHolds(links[e][k])
    /\ \A c \in Calls : calls[c].at \in {"none", "http", "opening", "sent", "answered", "failed"}
    /\ up \subseteq Addresses /\ stopped \in BOOLEAN

(* The reconnect flag keeps the sweep away from a peer, so it must never stay up without
   the timer that takes it down: on every known peer they go together, whatever probes,
   requests, drops and user steps overlap. *)
FlagHasItsTimer == \A e \in known : pending[e] = timer[e]

(* Nothing waits for a socket that is gone: a call waits on the attempt the link is
   making, and a sent one holds a socket whose events are still to come or have failed it. *)
CallsHoldTheirSocket ==
    \A c \in Calls :
        /\ calls[c].at = "opening" => calls[c].via = LinkOf(c).connecting
        /\ calls[c].at = "sent" => LinkOf(c).sockets[calls[c].via] \in {"open", "closing"}

(* A known peer whose node runs is connected again and again (or forever), through the
   sweep, its own backoff timer or a request. *)
PeersComeBack ==
    \A e \in Entries :
        []<>(\/ connected[e] \/ e \notin known \/ stopped
             \/ Address[e] \notin up \/ Address[e] \in OtherNetwork \ HttpAddresses)

(* A request ends, with the answer of some peer or after the last one failed. *)
RequestsEnd == \A c \in Calls : calls[c].kind = "request" ~> calls[c].kind # "request"

(* connection.ts, removeNode: "closes its links and forgets it". *)
RemovedIsForgotten == \A e \in Entries : e \notin known => ~connected[e] /\ ~timer[e]
=============================================================================
