---------------------- MODULE ConnectionManagerProofs ----------------------
(***************************************************************************)
(* Proofs about the wallet's links to full nodes (ConnectionManager): for  *)
(* any peers, links and calls, a call never waits for a socket that is     *)
(* gone, and the reconnect flag of a known peer is up exactly while its    *)
(* timer runs.                                                             *)
(*                                                                         *)
(* Each operation on a link is first shown to keep the link sound          *)
(* (LinkHolds); the invariant adds that the calls waiting at a link fit    *)
(* it (Fits).                                                              *)
(***************************************************************************)
EXTENDS ConnectionManager, TLAPS

-----------------------------------------------------------------------------
(* One link *)

LEMMA NewLinkHolds == LinkHolds(NewLink) /\ NewLink.connecting = NoSocket
BY SocketsAssumption DEF NewLink, LinkHolds, Links, SocketStates, NoSocket

LEMMA OpenedHolds ==
    ASSUME NEW link, LinkHolds(link), CanOpen(link)
    PROVE  /\ LinkHolds(opened(link))
           /\ ~IsOpen(opened(link)) => opened(link).connecting # NoSocket
           /\ link.connecting # NoSocket => opened(link).connecting = link.connecting
           /\ \A s \in Sockets : link.sockets[s] \in {"open", "closing"} =>
                                 opened(link).sockets[s] = link.sockets[s]
           /\ IsOpen(link) => opened(link) = link
           /\ IsOpen(opened(link)) => IsOpen(link)
<1>1. CASE IsOpen(link) \/ link.connecting # NoSocket
  BY <1>1 DEF opened
<1>2. CASE ~IsOpen(link) /\ link.connecting = NoSocket
  <2>1. Free(link) # {}
    BY <1>2 DEF CanOpen
  <2>2. PICK s \in Free(link) : opened(link) = [link EXCEPT !.connecting = s, !.sockets[s] = "opening"]
    BY <1>2, <2>1 DEF opened
  <2>3. s \in Sockets /\ link.sockets[s] = "none" /\ s # NoSocket
    BY SocketsAssumption DEF Free
  <2>4. /\ opened(link) \in Links /\ opened(link).connecting = s
        /\ opened(link).socket = link.socket /\ opened(link).connected = link.connected
        /\ opened(link).sockets[s] = "opening"
        /\ \A t \in Sockets : t # s => opened(link).sockets[t] = link.sockets[t]
    <3> DEFINE made(l, t) == [l EXCEPT !.connecting = t, !.sockets[t] = "opening"]
    <3>1. ASSUME NEW l \in Links, NEW t \in Sockets
          PROVE  /\ made(l, t) \in Links /\ made(l, t).connecting = t
                 /\ made(l, t).socket = l.socket /\ made(l, t).connected = l.connected
                 /\ made(l, t).sockets[t] = "opening"
                 /\ \A u \in Sockets : u # t => made(l, t).sockets[u] = l.sockets[u]
      BY DEF Links, SocketStates
    <3>2. opened(link) = made(link, s)
      BY <2>2
    <3> HIDE DEF made
    <3> QED
      BY <2>3, <3>1, <3>2 DEF LinkHolds
  <2>5. link.socket # NoSocket => link.socket \in Sockets /\ link.socket # s
    BY <2>3 DEF LinkHolds, Links
  <2> QED
    BY <1>2, <2>3, <2>4, <2>5 DEF LinkHolds, IsOpen
<1> QED BY <1>1, <1>2

LEMMA GreetedHolds ==
    ASSUME NEW link, LinkHolds(link), link.connecting # NoSocket
    PROVE  /\ LinkHolds(greeted(link))
           /\ greeted(link).sockets[link.connecting] = "open"
           /\ \A s \in Sockets : link.sockets[s] \in {"open", "closing"} =>
                                 greeted(link).sockets[s] \in {"open", "closing"}
<1>1. link.connecting \in Sockets
  BY DEF LinkHolds, Links
<1>2. /\ greeted(link) \in Links /\ greeted(link).connecting = NoSocket
      /\ greeted(link).socket = link.connecting
      /\ greeted(link).sockets[link.connecting] = "open"
      /\ \A t \in Sockets : t # link.connecting => greeted(link).sockets[t] = link.sockets[t]
  BY <1>1 DEF greeted, LinkHolds, Links, SocketStates
<1> QED
  BY <1>1, <1>2 DEF LinkHolds

LEMMA RefusedHolds ==
    ASSUME NEW link, LinkHolds(link), link.connecting # NoSocket,
           link.sockets[link.connecting] = "opening"
    PROVE  /\ LinkHolds(refused(link)) /\ refused(link).connecting = link.connecting
           /\ \A s \in Sockets : link.sockets[s] \in {"open", "closing"} =>
                                 refused(link).sockets[s] \in {"open", "closing"}
<1>1. link.connecting \in Sockets
  BY DEF LinkHolds, Links
<1>2. /\ refused(link) \in Links /\ refused(link).connecting = link.connecting
      /\ refused(link).socket = link.socket /\ refused(link).connected = link.connected
      /\ refused(link).sockets[link.connecting] = "closing"
      /\ \A t \in Sockets : t # link.connecting => refused(link).sockets[t] = link.sockets[t]
  BY <1>1 DEF refused, LinkHolds, Links, SocketStates
<1> QED
  BY <1>1, <1>2 DEF LinkHolds, Links

LEMMA ConnectFailedHolds ==
    ASSUME NEW link, LinkHolds(link), link.connecting # NoSocket
    PROVE  /\ LinkHolds(connectFailed(link))
           /\ \A s \in Sockets : link.sockets[s] \in {"open", "closing"} =>
                                 connectFailed(link).sockets[s] \in {"open", "closing"}
<1>1. link.connecting \in Sockets
  BY DEF LinkHolds, Links
<1>2. /\ connectFailed(link) \in Links /\ connectFailed(link).connecting = NoSocket
      /\ connectFailed(link).socket = link.socket /\ connectFailed(link).connected = link.connected
      /\ connectFailed(link).sockets[link.connecting] =
             IF link.sockets[link.connecting] = "opening" THEN "closing"
             ELSE link.sockets[link.connecting]
      /\ \A t \in Sockets : t # link.connecting => connectFailed(link).sockets[t] = link.sockets[t]
  BY <1>1 DEF connectFailed, LinkHolds, Links, SocketStates
<1> QED
  BY <1>1, <1>2 DEF LinkHolds, Links

LEMMA SocketClosedHolds ==
    ASSUME NEW link, LinkHolds(link), NEW s \in Sockets, link.sockets[s] \in {"open", "closing"}
    PROVE  /\ LinkHolds(socketClosed(link, s))
           /\ socketClosed(link, s).connecting = link.connecting
<1>1. /\ socketClosed(link, s) \in Links
      /\ socketClosed(link, s).connecting = link.connecting
      /\ socketClosed(link, s).connected = FALSE
      /\ socketClosed(link, s).socket = IF link.socket = s THEN NoSocket ELSE link.socket
      /\ socketClosed(link, s).sockets[s] = "none"
      /\ \A t \in Sockets : t # s => socketClosed(link, s).sockets[t] = link.sockets[t]
  BY DEF socketClosed, LinkHolds, Links, SocketStates
<1> QED
  BY <1>1 DEF LinkHolds, Links

LEMMA ClosedHolds ==
    ASSUME NEW link, LinkHolds(link)
    PROVE  /\ LinkHolds(closed(link)) /\ closed(link).connecting = link.connecting
           /\ \A s \in Sockets : link.sockets[s] \in {"open", "closing"} =>
                                 closed(link).sockets[s] \in {"open", "closing"}
<1>1. CASE link.socket = NoSocket
  <2>1. closed(link) = [link EXCEPT !.connected = FALSE]
    BY <1>1 DEF closed
  <2> QED
    BY <1>1, <2>1 DEF LinkHolds, Links
<1>2. CASE link.socket # NoSocket
  <2>1. link.socket \in Sockets
    BY <1>2 DEF LinkHolds, Links
  <2>2. /\ closed(link) \in Links /\ closed(link).connecting = link.connecting
        /\ closed(link).connected = FALSE /\ closed(link).socket = NoSocket
        /\ closed(link).sockets[link.socket] = "closing"
        /\ \A t \in Sockets : t # link.socket => closed(link).sockets[t] = link.sockets[t]
    BY <1>2, <2>1 DEF closed, LinkHolds, Links, SocketStates
  <2> QED
    BY <2>1, <2>2 DEF LinkHolds, Links
<1> QED BY <1>1, <1>2

-----------------------------------------------------------------------------
(* All links and calls *)

CallRecords == [kind  : {"none", "probe", "request"},
                entry : Entries \cup {0},
                link  : Nat,
                at    : {"none", "http", "opening", "sent", "answered", "failed"},
                via   : Sockets \cup {NoSocket},
                rest  : SUBSET Entries,
                first : SUBSET Entries]

LinksOK(ls) ==
    /\ ls = [e \in Entries |-> [k \in 1..LinkCount[e] |-> ls[e][k]]]
    /\ \A e \in Entries : \A k \in 1..LinkCount[e] : LinkHolds(ls[e][k])

(* A call under way is at a link of its entry, or at its HTTP origin; it waits for the
   attempt the link makes, or for a socket that has not closed. *)
Fits(call, ls) ==
    LET link == ls[call.entry][call.link]
    IN  /\ call.at # "none" => call.entry \in Entries /\ call.link \in 0..LinkCount[call.entry]
        /\ call.at \in {"opening", "sent"} => call.link # 0 /\ call.via \in Sockets
        /\ call.at = "opening" => call.via = link.connecting
        /\ call.at = "sent" => link.sockets[call.via] \in {"open", "closing"}

CallsOK(cs, ls) == cs \in [Calls -> CallRecords] /\ \A c \in Calls : Fits(cs[c], ls)

StateInv ==
    /\ known \subseteq Entries /\ persisted \subseteq Addresses
    /\ connected \in [Entries -> BOOLEAN]
    /\ pending \in [Entries -> BOOLEAN] /\ timer \in [Entries -> BOOLEAN]
    /\ up \subseteq Addresses /\ stopped \in BOOLEAN
    /\ FlagHasItsTimer

ManagerInv == StateInv /\ LinksOK(links) /\ CallsOK(calls, links)

LEMMA NoCallFits == NoCall \in CallRecords /\ \A ls : Fits(NoCall, ls)
BY DEF NoCall, CallRecords, Fits

(* One link changes. *)
Becomes(old, new, e, k, link) ==
    /\ LinksOK(new) /\ new[e][k] = link
    /\ \A f \in Entries : \A j \in 1..LinkCount[f] : f # e \/ j # k => new[f][j] = old[f][j]

LEMMA LinkSet ==
    ASSUME NEW ls, LinksOK(ls), NEW e \in Entries, NEW k \in 1..LinkCount[e],
           NEW link, LinkHolds(link)
    PROVE  Becomes(ls, [ls EXCEPT ![e][k] = link], e, k, link)
<1> DEFINE row == [ls[e] EXCEPT ![k] = link]
           new == [ls EXCEPT ![e] = row]
<1>1. new = [ls EXCEPT ![e][k] = link]
  OBVIOUS
<1>2. /\ DOMAIN ls = Entries
      /\ \A f \in Entries : ls[f] = [j \in 1..LinkCount[f] |-> ls[f][j]]
  <2> DEFINE same == [f \in Entries |-> [j \in 1..LinkCount[f] |-> ls[f][j]]]
  <2>1. ls = same
    BY DEF LinksOK
  <2>2. DOMAIN same = Entries /\ \A f \in Entries : same[f] = [j \in 1..LinkCount[f] |-> ls[f][j]]
    OBVIOUS
  <2> HIDE DEF same
  <2> QED
    BY <2>1, <2>2
<1>3. /\ DOMAIN row = 1..LinkCount[e] /\ row = [j \in 1..LinkCount[e] |-> row[j]]
      /\ row[k] = link /\ \A j \in 1..LinkCount[e] : j # k => row[j] = ls[e][j]
  BY <1>2
<1> HIDE DEF row
<1>4. /\ new = [f \in Entries |-> new[f]] /\ new[e] = row
      /\ \A f \in Entries : f # e => new[f] = ls[f]
  BY <1>2
<1> HIDE DEF new
<1>5. \A f \in Entries : new[f] = [j \in 1..LinkCount[f] |-> new[f][j]]
  BY <1>2, <1>3, <1>4
<1>6. new = [f \in Entries |-> [j \in 1..LinkCount[f] |-> new[f][j]]]
  BY <1>4, <1>5
<1>7. ASSUME NEW f \in Entries, NEW j \in 1..LinkCount[f]
      PROVE  /\ f # e \/ j # k => new[f][j] = ls[f][j]
             /\ f = e /\ j = k => new[f][j] = link
  BY <1>3, <1>4
<1>8. ASSUME NEW f \in Entries, NEW j \in 1..LinkCount[f]
      PROVE  LinkHolds(new[f][j])
  BY <1>7 DEF LinksOK
<1>9. Becomes(ls, new, e, k, link)
  BY <1>6, <1>7, <1>8 DEF Becomes, LinksOK
<1> QED
  BY <1>1, <1>9 DEF new

(* A call that does not wait for what the link gave up still fits. *)
LEMMA FitsStays ==
    ASSUME NEW ls, NEW new, NEW e \in Entries, NEW k \in 1..LinkCount[e], NEW link,
           Becomes(ls, new, e, k, link), NEW call, Fits(call, ls),
           call.at = "opening" /\ call.entry = e /\ call.link = k =>
               link.connecting = ls[e][k].connecting,
           call.at = "sent" /\ call.entry = e /\ call.link = k =>
               (\A s \in Sockets : ls[e][k].sockets[s] \in {"open", "closing"} =>
                                   link.sockets[s] \in {"open", "closing"})
    PROVE  Fits(call, new)
<1>1. CASE call.at \in {"opening", "sent"}
  <2>1. call.entry \in Entries /\ call.link \in 1..LinkCount[call.entry] /\ call.via \in Sockets
    BY <1>1, ManagerAssumption DEF Fits
  <2>2. CASE call.entry = e /\ call.link = k
    BY <1>1, <2>1, <2>2 DEF Fits, Becomes
  <2>3. CASE call.entry # e \/ call.link # k
    BY <1>1, <2>1, <2>3 DEF Fits, Becomes
  <2> QED BY <2>2, <2>3
<1>2. CASE call.at \notin {"opening", "sent"}
  BY <1>2 DEF Fits
<1> QED BY <1>1, <1>2

(* The calls stay, or one of them begins, moves on or ends. *)
LEMMA CallSet ==
    ASSUME NEW cs, NEW ls, cs \in [Calls -> CallRecords], NEW c \in Calls, NEW call \in CallRecords,
           \A d \in Calls : d # c => Fits(cs[d], ls), Fits(call, ls)
    PROVE  CallsOK([cs EXCEPT ![c] = call], ls)
BY DEF CallsOK

LEMMA TryLinkKeeps ==
    ASSUME NEW before, LinksOK(before), CallsOK(calls, before), NEW c \in Calls,
           NEW call \in CallRecords, NEW e \in Entries, NEW k \in 1..LinkCount[e],
           TryLink(c, call, e, k, before)
    PROVE  LinksOK(links') /\ CallsOK(calls', links')
<1> DEFINE link == before[e][k]
           new == opened(link)
           moved == AtLink(call, e, k, new)
<1>1. CanOpen(link) /\ links' = [before EXCEPT ![e][k] = new] /\ calls' = [calls EXCEPT ![c] = moved]
  BY DEF TryLink
<1>2. LinkHolds(link)
  BY DEF LinksOK
<1>3. /\ LinkHolds(new) /\ (~IsOpen(new) => new.connecting # NoSocket)
      /\ link.connecting # NoSocket => new.connecting = link.connecting
      /\ \A s \in Sockets : link.sockets[s] \in {"open", "closing"} => new.sockets[s] = link.sockets[s]
  BY <1>1, <1>2, OpenedHolds
<1> HIDE DEF new, link
<1>4. Becomes(before, links', e, k, new)
  BY <1>1, <1>3, LinkSet
<1>5. ASSUME NEW d \in Calls PROVE Fits(calls[d], links')
  <2>1. Fits(calls[d], before)
    BY DEF CallsOK
  <2>2. calls[d].at = "opening" /\ calls[d].entry = e /\ calls[d].link = k => link.connecting # NoSocket
    BY <2>1, SocketsAssumption DEF Fits, link
  <2> QED
    BY <1>3, <1>4, <2>1, <2>2, FitsStays DEF link
<1>6. /\ new.socket \in Sockets \cup {NoSocket} /\ new.connecting \in Sockets \cup {NoSocket}
      /\ IsOpen(new) => new.socket \in Sockets /\ new.sockets[new.socket] = "open"
  BY <1>3 DEF LinkHolds, Links, IsOpen
<1>7. LinkCount[e] \in Nat /\ k \in Nat /\ k # 0 /\ k \in 0..LinkCount[e]
  BY ManagerAssumption
<1>8. moved \in CallRecords /\ moved.entry = e /\ moved.link = k
      /\ moved.at = (IF IsOpen(new) THEN "sent" ELSE "opening")
      /\ moved.via = (IF IsOpen(new) THEN new.socket ELSE new.connecting)
  BY <1>6, <1>7 DEF AtLink, CallRecords
<1> HIDE DEF moved
<1>9. links'[e][k] = new
  BY <1>4 DEF Becomes
<1>10. Fits(moved, links')
  BY <1>3, <1>6, <1>7, <1>8, <1>9 DEF Fits
<1>11. CallsOK(calls', links')
  BY <1>1, <1>5, <1>8, <1>10, CallSet DEF CallsOK
<1> QED
  BY <1>4, <1>11 DEF Becomes

LEMMA TryEntryKeeps ==
    ASSUME LinksOK(links), CallsOK(calls, links), NEW c \in Calls, NEW call \in CallRecords,
           NEW e \in Entries, TryEntry(c, call, e)
    PROVE  LinksOK(links') /\ CallsOK(calls', links')
<1>1. CASE HasHttp(e)
  <2> DEFINE moved == [call EXCEPT !.entry = e, !.link = 0, !.at = "http"]
  <2>1. calls' = [calls EXCEPT ![c] = moved] /\ UNCHANGED links
    BY <1>1 DEF TryEntry
  <2>2. moved \in CallRecords /\ moved.at = "http" /\ moved.entry = e /\ moved.link = 0
    BY DEF CallRecords
  <2> HIDE DEF moved
  <2>3. Fits(moved, links)
    BY <2>2, ManagerAssumption DEF Fits
  <2>4. CallsOK(calls', links)
    BY <2>1, <2>2, <2>3, CallSet DEF CallsOK
  <2> QED
    BY <2>1, <2>4
<1>2. CASE ~HasHttp(e)
  <2>1. TryLink(c, call, e, 1, links)
    BY <1>2 DEF TryEntry
  <2>2. 1 \in 1..LinkCount[e]
    BY ManagerAssumption
  <2> QED
    BY <2>1, <2>2, TryLinkKeeps
<1> QED BY <1>1, <1>2

LEMMA TryNextKeeps ==
    ASSUME LinksOK(links), CallsOK(calls, links), NEW c \in Calls, NEW call \in CallRecords,
           NEW entries \in SUBSET Entries, TryNext(c, call, entries)
    PROVE  LinksOK(links') /\ CallsOK(calls', links')
<1>1. PICK e \in entries : TryEntry(c, [call EXCEPT !.rest = entries \ {e}], e)
  BY DEF TryNext
<1>2. [call EXCEPT !.rest = entries \ {e}] \in CallRecords
  BY DEF CallRecords
<1> QED
  BY <1>1, <1>2, TryEntryKeeps

LEMMA ProbeKeeps ==
    ASSUME LinksOK(links), CallsOK(calls, links), NEW c \in Calls, NEW e \in Entries, Probe(c, e)
    PROVE  LinksOK(links') /\ CallsOK(calls', links')
<1>1. [NoCall EXCEPT !.kind = "probe"] \in CallRecords
  BY DEF NoCall, CallRecords
<1> QED
  BY <1>1, TryEntryKeeps DEF Probe

-----------------------------------------------------------------------------
(* Events *)

(* Calls that waited at a link are woken, the others fit what the link became. *)
LEMMA CallsWoken ==
    ASSUME LinksOK(links), CallsOK(calls, links), NEW e \in Entries, NEW k \in 1..LinkCount[e],
           NEW link, LinkHolds(link), links' = [links EXCEPT ![e][k] = link],
           NEW from \in {"opening", "sent"}, NEW to \in {"sent", "failed"},
           calls' = [c \in Calls |-> IF c \in Waiting(e, k, from)
                                     THEN [calls[c] EXCEPT !.at = to] ELSE calls[c]],
           from = "sent" => to = "failed" /\ link.connecting = links[e][k].connecting,
           from = "opening" => \A s \in Sockets : links[e][k].sockets[s] \in {"open", "closing"} =>
                                                  link.sockets[s] \in {"open", "closing"},
           to = "sent" => link.sockets[links[e][k].connecting] = "open"
    PROVE  LinksOK(links') /\ CallsOK(calls', links')
<1>1. Becomes(links, links', e, k, link)
  BY LinkSet
<1>2. ASSUME NEW c \in Calls PROVE calls'[c] \in CallRecords /\ Fits(calls'[c], links')
  <2>1. Fits(calls[c], links) /\ calls[c] \in CallRecords
    BY DEF CallsOK
  <2>2. CASE c \in Waiting(e, k, from)
    <3> DEFINE woken == [calls[c] EXCEPT !.at = to]
    <3>1. calls'[c] = woken
      BY <2>2
    <3>2. calls[c].entry = e /\ calls[c].link = k /\ calls[c].at = from
      BY <2>2 DEF Waiting
    <3>3. /\ woken \in CallRecords /\ woken.at = to /\ woken.entry = e /\ woken.link = k
          /\ woken.via = calls[c].via
      BY <2>1, <3>2 DEF CallRecords
    <3>4. calls[c].link # 0 /\ calls[c].via \in Sockets /\ k \in 0..LinkCount[e]
      BY <2>1, <3>2 DEF Fits
    <3>5. to = "sent" => calls[c].via = links[e][k].connecting
      BY <2>1, <3>2 DEF Fits
    <3> HIDE DEF woken
    <3>6. links'[e][k] = link
      BY <1>1 DEF Becomes
    <3>7. Fits(woken, links')
      BY <3>2, <3>3, <3>4, <3>5, <3>6 DEF Fits
    <3> QED
      BY <3>1, <3>3, <3>7
  <2>3. CASE c \notin Waiting(e, k, from)
    <3>1. calls'[c] = calls[c]
      BY <2>3
    <3>2. ~(calls[c].entry = e /\ calls[c].link = k /\ calls[c].at = from)
      BY <2>3 DEF Waiting
    <3>3. Fits(calls[c], links')
      BY <1>1, <2>1, <3>2, FitsStays
    <3> QED
      BY <2>1, <3>1, <3>3
  <2> QED BY <2>2, <2>3
<1>3. calls' \in [Calls -> CallRecords]
  <2>1. DOMAIN calls' = Calls /\ calls' = [c \in Calls |-> calls'[c]]
    OBVIOUS
  <2> QED
    BY <1>2, <2>1
<1> QED
  BY <1>1, <1>2, <1>3 DEF Becomes, CallsOK

(* A link changes that no call has to notice. *)
LEMMA CallsUntouched ==
    ASSUME LinksOK(links), CallsOK(calls, links), NEW e \in Entries, NEW k \in 1..LinkCount[e],
           NEW link, NEW new, Becomes(links, new, e, k, link),
           link.connecting = links[e][k].connecting,
           \A s \in Sockets : links[e][k].sockets[s] \in {"open", "closing"} =>
                              link.sockets[s] \in {"open", "closing"}
    PROVE  LinksOK(new) /\ CallsOK(calls, new)
<1>1. ASSUME NEW c \in Calls PROVE Fits(calls[c], new)
  BY FitsStays DEF CallsOK
<1> QED
  BY <1>1 DEF Becomes, CallsOK

LEMMA HelloKeeps ==
    ASSUME ManagerInv, NEW e \in Entries, NEW k \in 1..LinkCount[e], Hello(e, k)
    PROVE  LinksOK(links') /\ CallsOK(calls', links')
<1> DEFINE link == links[e][k]
<1>1. link.connecting # NoSocket /\ link.sockets[link.connecting] = "opening"
  BY DEF Hello
<1>2. LinkHolds(link) /\ LinksOK(links) /\ CallsOK(calls, links)
  BY DEF ManagerInv, LinksOK
<1>3. CASE Address[e] \in OtherNetwork
  <2>1. links' = [links EXCEPT ![e][k] = refused(link)] /\ UNCHANGED calls
    BY <1>3 DEF Hello
  <2>2. /\ LinkHolds(refused(link)) /\ refused(link).connecting = link.connecting
        /\ \A s \in Sockets : link.sockets[s] \in {"open", "closing"} =>
                              refused(link).sockets[s] \in {"open", "closing"}
    BY <1>1, <1>2, RefusedHolds
  <2>3. Becomes(links, links', e, k, refused(link))
    BY <1>2, <2>1, <2>2, LinkSet
  <2>4. LinksOK(links') /\ CallsOK(calls, links')
    BY <1>2, <2>2, <2>3, CallsUntouched
  <2>5. calls' = calls
    BY <2>1
  <2> QED
    BY <2>4, <2>5
<1>4. CASE Address[e] \notin OtherNetwork
  <2>1. /\ links' = [links EXCEPT ![e][k] = greeted(link)]
        /\ calls' = [c \in Calls |-> IF c \in Waiting(e, k, "opening")
                                     THEN [calls[c] EXCEPT !.at = "sent"] ELSE calls[c]]
    BY <1>4 DEF Hello
  <2>2. /\ LinkHolds(greeted(link)) /\ greeted(link).sockets[link.connecting] = "open"
        /\ \A s \in Sockets : link.sockets[s] \in {"open", "closing"} =>
                              greeted(link).sockets[s] \in {"open", "closing"}
    BY <1>1, <1>2, GreetedHolds
  <2> QED
    BY <1>2, <2>1, <2>2, CallsWoken
<1> QED BY <1>3, <1>4

LEMMA FailKeeps ==
    ASSUME ManagerInv, NEW e \in Entries, NEW k \in 1..LinkCount[e], ConnectFails(e, k)
    PROVE  LinksOK(links') /\ CallsOK(calls', links')
<1> DEFINE link == links[e][k]
<1>1. /\ link.connecting # NoSocket /\ links' = [links EXCEPT ![e][k] = connectFailed(link)]
      /\ calls' = [c \in Calls |-> IF c \in Waiting(e, k, "opening")
                                   THEN [calls[c] EXCEPT !.at = "failed"] ELSE calls[c]]
  BY DEF ConnectFails
<1>2. LinkHolds(link) /\ LinksOK(links) /\ CallsOK(calls, links)
  BY DEF ManagerInv, LinksOK
<1>3. /\ LinkHolds(connectFailed(link))
      /\ \A s \in Sockets : link.sockets[s] \in {"open", "closing"} =>
                            connectFailed(link).sockets[s] \in {"open", "closing"}
  BY <1>1, <1>2, ConnectFailedHolds
<1> QED
  BY <1>1, <1>2, <1>3, CallsWoken

LEMMA CloseKeeps ==
    ASSUME ManagerInv, NEW e \in Entries, NEW k \in 1..LinkCount[e], NEW s \in Sockets,
           SocketCloses(e, k, s)
    PROVE  LinksOK(links') /\ CallsOK(calls', links')
<1> DEFINE link == links[e][k]
<1>1. /\ link.sockets[s] \in {"open", "closing"}
      /\ links' = [links EXCEPT ![e][k] = socketClosed(link, s)]
      /\ calls' = [c \in Calls |-> IF c \in Waiting(e, k, "sent")
                                   THEN [calls[c] EXCEPT !.at = "failed"] ELSE calls[c]]
  BY DEF SocketCloses
<1>2. LinkHolds(link) /\ LinksOK(links) /\ CallsOK(calls, links)
  BY DEF ManagerInv, LinksOK
<1>3. /\ LinkHolds(socketClosed(link, s))
      /\ socketClosed(link, s).connecting = link.connecting
  BY <1>1, <1>2, SocketClosedHolds
<1> QED
  BY <1>1, <1>2, <1>3, CallsWoken

(* The events of a call by itself. *)
LEMMA CallMoves ==
    ASSUME ManagerInv, NEW c \in Calls, calls[c].at # "none", NEW to \in {"answered", "failed"},
           calls' = [calls EXCEPT ![c].at = to], UNCHANGED links
    PROVE  LinksOK(links') /\ CallsOK(calls', links')
<1> DEFINE moved == [calls[c] EXCEPT !.at = to]
<1>1. calls' = [calls EXCEPT ![c] = moved] /\ calls[c] \in CallRecords /\ Fits(calls[c], links)
  BY DEF ManagerInv, CallsOK
<1>2. /\ moved \in CallRecords /\ moved.at = to /\ moved.entry = calls[c].entry
      /\ moved.link = calls[c].link
  BY <1>1 DEF CallRecords
<1> HIDE DEF moved
<1>3. Fits(moved, links)
  BY <1>1, <1>2 DEF Fits
<1>4. CallsOK(calls', links)
  BY <1>1, <1>2, <1>3, CallSet DEF ManagerInv, CallsOK
<1> QED
  BY <1>4 DEF ManagerInv

LEMMA CallEnds ==
    ASSUME NEW ls, LinksOK(ls), CallsOK(calls, ls), NEW c \in Calls, Ends(c)
    PROVE  CallsOK(calls', ls)
BY NoCallFits, CallSet DEF Ends, CallsOK

LEMMA LinkFailsKeeps ==
    ASSUME ManagerInv, NEW c \in Calls, LinkFails(c)
    PROVE  LinksOK(links') /\ CallsOK(calls', links')
<1> DEFINE call == calls[c]
           e == call.entry
           after == IF call.kind = "probe" /\ call.link > 0
                    THEN [links EXCEPT ![e][call.link] = closed(@)] ELSE links
<1>1. call.at = "failed"
  BY DEF LinkFails
<1>2. call \in CallRecords /\ e \in Entries /\ call.link \in 0..LinkCount[e] /\ LinkCount[e] \in Nat
  BY <1>1, ManagerAssumption DEF ManagerInv, CallsOK, Fits
<1>3. LinksOK(after) /\ CallsOK(calls, after)
  <2>1. CASE call.kind = "probe" /\ call.link > 0
    <3>1. call.link \in 1..LinkCount[e]
      BY <1>2, <2>1
    <3>2. LinkHolds(links[e][call.link])
      BY <1>2, <3>1 DEF ManagerInv, LinksOK
    <3>3. after = [links EXCEPT ![e][call.link] = closed(links[e][call.link])]
      BY <2>1
    <3>4. /\ LinkHolds(closed(links[e][call.link]))
          /\ closed(links[e][call.link]).connecting = links[e][call.link].connecting
          /\ \A s \in Sockets : links[e][call.link].sockets[s] \in {"open", "closing"} =>
                                closed(links[e][call.link]).sockets[s] \in {"open", "closing"}
      BY <3>2, ClosedHolds
    <3> HIDE DEF after, e, call
    <3>5. LinksOK(links) /\ CallsOK(calls, links)
      BY DEF ManagerInv
    <3>6. Becomes(links, [links EXCEPT ![e][call.link] = closed(links[e][call.link])],
                  e, call.link, closed(links[e][call.link]))
      BY <1>2, <3>1, <3>4, <3>5, LinkSet
    <3>7. Becomes(links, after, e, call.link, closed(links[e][call.link]))
      BY <3>3, <3>6
    <3> QED
      BY <1>2, <3>1, <3>4, <3>5, <3>7, CallsUntouched
  <2>2. CASE ~(call.kind = "probe" /\ call.link > 0)
    BY <2>2 DEF ManagerInv
  <2> QED BY <2>1, <2>2
<1>4. CASE call.link < LinkCount[e]
  <2>1. TryLink(c, call, e, call.link + 1, after)
    BY <1>4 DEF LinkFails
  <2>2. call.link + 1 \in 1..LinkCount[e]
    BY <1>2, <1>4
  <2> HIDE DEF after
  <2> QED
    BY <1>2, <1>3, <2>1, <2>2, TryLinkKeeps
<1>5. CASE ~(call.link < LinkCount[e]) /\ call.kind = "probe"
  <2>1. links' = after /\ Ends(c)
    BY <1>5 DEF LinkFails
  <2> HIDE DEF after
  <2> QED
    BY <1>3, <2>1, CallEnds
<1>6. CASE ~(call.link < LinkCount[e]) /\ call.kind # "probe"
  <2>1. IF call.rest = {} THEN Ends(c) /\ UNCHANGED links ELSE TryNext(c, call, call.rest)
    BY <1>6 DEF LinkFails
  <2>2. call.rest \in SUBSET Entries
    BY <1>2 DEF CallRecords
  <2> QED
    BY <1>2, <2>1, <2>2, TryNextKeeps, CallEnds DEF ManagerInv
<1> QED BY <1>4, <1>5, <1>6

-----------------------------------------------------------------------------
(* Links that the user closes *)

LEMMA RowsOfLinks ==
    ASSUME NEW ls, LinksOK(ls)
    PROVE  /\ DOMAIN ls = Entries
           /\ \A e \in Entries : ls[e] = [k \in 1..LinkCount[e] |-> ls[e][k]]
<1> DEFINE same == [e \in Entries |-> [k \in 1..LinkCount[e] |-> ls[e][k]]]
<1>1. ls = same
  BY DEF LinksOK
<1>2. DOMAIN same = Entries /\ \A e \in Entries : same[e] = [k \in 1..LinkCount[e] |-> ls[e][k]]
  OBVIOUS
<1> HIDE DEF same
<1> QED
  BY <1>1, <1>2

LEMMA SomeClosed ==
    ASSUME LinksOK(links), CallsOK(calls, links), NEW S \in SUBSET Entries,
           links' = [e \in Entries |-> IF e \in S THEN [k \in DOMAIN links[e] |-> closed(links[e][k])]
                                       ELSE links[e]]
    PROVE  LinksOK(links') /\ CallsOK(calls, links')
<1>1. \A e \in Entries : links[e] = [k \in 1..LinkCount[e] |-> links[e][k]]
  BY RowsOfLinks
<1>2. ASSUME NEW e \in Entries
      PROVE  /\ links'[e] = [k \in 1..LinkCount[e] |-> links'[e][k]]
             /\ \A k \in 1..LinkCount[e] : links'[e][k] = IF e \in S THEN closed(links[e][k])
                                                         ELSE links[e][k]
  <2>1. CASE e \in S
    <3>1. links'[e] = [k \in DOMAIN links[e] |-> closed(links[e][k])]
      BY <2>1
    <3>2. DOMAIN links[e] = 1..LinkCount[e]
      BY <1>1
    <3> QED
      BY <2>1, <3>1, <3>2
  <2>2. CASE e \notin S
    <3>1. links'[e] = links[e]
      BY <2>2
    <3> QED
      BY <1>1, <2>2, <3>1
  <2> QED BY <2>1, <2>2
<1>3. ASSUME NEW e \in Entries, NEW k \in 1..LinkCount[e]
      PROVE  /\ LinkHolds(links'[e][k]) /\ links'[e][k].connecting = links[e][k].connecting
             /\ \A s \in Sockets : links[e][k].sockets[s] \in {"open", "closing"} =>
                                   links'[e][k].sockets[s] \in {"open", "closing"}
  <2>1. LinkHolds(links[e][k])
    BY DEF LinksOK
  <2>2. links'[e][k] = closed(links[e][k]) \/ links'[e][k] = links[e][k]
    BY <1>2
  <2> QED
    BY <2>1, <2>2, ClosedHolds
<1>4. links' = [e \in Entries |-> [k \in 1..LinkCount[e] |-> links'[e][k]]]
  <2>1. links' = [e \in Entries |-> links'[e]]
    OBVIOUS
  <2> QED
    BY <1>2, <2>1
<1>5. LinksOK(links')
  BY <1>3, <1>4 DEF LinksOK
<1>6. ASSUME NEW c \in Calls PROVE Fits(calls[c], links')
  <2>1. Fits(calls[c], links)
    BY DEF CallsOK
  <2>2. CASE calls[c].at \in {"opening", "sent"}
    <3>1. calls[c].entry \in Entries /\ calls[c].link \in 1..LinkCount[calls[c].entry]
      BY <2>1, <2>2, ManagerAssumption DEF Fits
    <3> QED
      BY <1>3, <2>1, <2>2, <3>1 DEF Fits
  <2>3. CASE calls[c].at \notin {"opening", "sent"}
    BY <2>1, <2>3 DEF Fits
  <2> QED BY <2>2, <2>3
<1> QED
  BY <1>5, <1>6 DEF CallsOK

LEMMA RemoveKeeps ==
    ASSUME ManagerInv, NEW e \in Entries, removeNode(e)
    PROVE  LinksOK(links') /\ CallsOK(calls', links')
<1>1. links' = [links EXCEPT ![e] = [k \in DOMAIN links[e] |-> closed(links[e][k])]] /\ calls' = calls
  BY DEF removeNode
<1>2. DOMAIN links = Entries
  BY RowsOfLinks DEF ManagerInv
<1>3. links' = [f \in Entries |-> IF f \in {e} THEN [k \in DOMAIN links[f] |-> closed(links[f][k])]
                                 ELSE links[f]]
  BY <1>1, <1>2
<1>4. LinksOK(links') /\ CallsOK(calls, links')
  BY <1>3, SomeClosed DEF ManagerInv
<1> QED
  BY <1>1, <1>4

LEMMA StopKeeps ==
    ASSUME ManagerInv, stop
    PROVE  LinksOK(links') /\ CallsOK(calls', links')
<1>1. /\ calls' = calls
      /\ links' = [e \in Entries |-> IF e \in known THEN [k \in DOMAIN links[e] |-> closed(links[e][k])]
                                     ELSE links[e]]
  BY DEF stop
<1>2. LinksOK(links') /\ CallsOK(calls, links')
  BY <1>1, SomeClosed DEF ManagerInv, StateInv
<1> QED
  BY <1>1, <1>2

LEMMA FreshLinks ==
    LinksOK(NoLinks) /\ CallsOK([c \in Calls |-> NoCall], NoLinks)
<1>1. /\ NoLinks = [e \in Entries |-> [k \in 1..LinkCount[e] |-> NoLinks[e][k]]]
      /\ \A e \in Entries : \A k \in 1..LinkCount[e] : NoLinks[e][k] = NewLink
  BY DEF NoLinks
<1>2. LinksOK(NoLinks)
  BY <1>1, NewLinkHolds DEF LinksOK
<1> QED
  BY <1>2, NoCallFits DEF CallsOK

-----------------------------------------------------------------------------
(* The peers and their timers *)

LEMMA InitialAreEntries ==
    \A addresses : InitialEntries(addresses) \subseteq Entries /\ Runtime(Entries) \subseteq Addresses
BY DEF InitialEntries, Runtime, Addresses

LEMMA FailedFlags ==
    ASSUME StateInv, NEW e \in Entries, scheduleReconnect(e)
    PROVE  /\ pending' \in [Entries -> BOOLEAN] /\ timer' \in [Entries -> BOOLEAN]
           /\ \A f \in known : pending'[f] = timer'[f]
BY DEF StateInv, FlagHasItsTimer, scheduleReconnect

LEMMA StateOfEvents ==
    ASSUME StateInv, UNCHANGED <<known, persisted, stopped>>, up' \subseteq Addresses,
           connected' \in [Entries -> BOOLEAN],
           pending' \in [Entries -> BOOLEAN], timer' \in [Entries -> BOOLEAN],
           \A f \in known : pending'[f] = timer'[f]
    PROVE  StateInv'
BY DEF StateInv, FlagHasItsTimer

LEMMA StateKept ==
    ASSUME StateInv, UNCHANGED managerVars, up' \subseteq Addresses
    PROVE  StateInv'
<1>1. UNCHANGED <<known, persisted, connected, pending, timer, stopped>>
  BY DEF managerVars
<1> QED
  BY <1>1, StateOfEvents DEF StateInv, FlagHasItsTimer

LEMMA DropFlags ==
    ASSUME StateInv, NEW e \in Entries, UNCHANGED <<known, persisted, stopped, up>>,
           handleLinkDrop(e) \/ UNCHANGED <<connected, pending, timer>>
    PROVE  StateInv'
<1>1. CASE UNCHANGED <<connected, pending, timer>>
  BY <1>1 DEF StateInv, FlagHasItsTimer
<1>2. CASE connected' = [connected EXCEPT ![e] = FALSE] /\ scheduleReconnect(e)
  BY <1>2, FailedFlags, StateOfEvents DEF StateInv
<1> QED
  BY <1>1, <1>2 DEF handleLinkDrop

LEMMA TimerKeeps ==
    ASSUME ManagerInv, NEW c \in Calls, NEW e \in Entries, ReconnectTimer(c, e)
    PROVE  ManagerInv'
<1>1. LinksOK(links') /\ CallsOK(calls', links')
  BY ProbeKeeps DEF ReconnectTimer, ManagerInv
<1>2. /\ timer' = [timer EXCEPT ![e] = FALSE] /\ pending' = [pending EXCEPT ![e] = FALSE]
      /\ UNCHANGED <<known, persisted, connected, stopped, up>>
  BY DEF ReconnectTimer
<1>3. StateInv'
  BY <1>2 DEF ManagerInv, StateInv, FlagHasItsTimer
<1> QED
  BY <1>1, <1>3 DEF ManagerInv

LEMMA SucceedsKeeps ==
    ASSUME ManagerInv, NEW c \in Calls, CallSucceeds(c)
    PROVE  ManagerInv'
<1> DEFINE e == calls[c].entry
<1>1. /\ calls[c].at = "answered" /\ markPeerConnected(e) /\ Ends(c)
      /\ UNCHANGED <<known, persisted, stopped, links, up>>
  BY DEF CallSucceeds
<1>2. e \in Entries
  BY <1>1 DEF ManagerInv, CallsOK, Fits
<1> HIDE DEF e
<1>3. StateInv'
  BY <1>1, <1>2 DEF ManagerInv, StateInv, FlagHasItsTimer, markPeerConnected
<1>4. LinksOK(links') /\ CallsOK(calls', links')
  BY <1>1, CallEnds DEF ManagerInv
<1> QED
  BY <1>3, <1>4 DEF ManagerInv

LEMMA FailedCallKeeps ==
    ASSUME ManagerInv, NEW c \in Calls, LinkFails(c)
    PROVE  ManagerInv'
<1> DEFINE call == calls[c]
           e == call.entry
<1>1. e \in Entries
  BY DEF LinkFails, ManagerInv, CallsOK, Fits
<1>2. LinksOK(links') /\ CallsOK(calls', links')
  BY LinkFailsKeeps
<1>3. UNCHANGED <<known, persisted, stopped, up>>
  BY DEF LinkFails
<1>4. \/ UNCHANGED <<pending, timer>> /\ connected' \in {connected, [connected EXCEPT ![e] = FALSE]}
      \/ markPeerFailed(e)
  <2>1. CASE call.link < LinkCount[e]
    BY <2>1 DEF LinkFails
  <2>2. CASE ~(call.link < LinkCount[e]) /\ call.kind = "probe"
    BY <2>2 DEF LinkFails
  <2>3. CASE ~(call.link < LinkCount[e]) /\ call.kind # "probe"
    BY <2>3 DEF LinkFails
  <2> QED BY <2>1, <2>2, <2>3
<1>5. StateInv'
  <2>1. CASE UNCHANGED <<pending, timer>> /\ connected' \in {connected, [connected EXCEPT ![e] = FALSE]}
    <3> HIDE DEF e
    <3>1. connected' \in [Entries -> BOOLEAN]
      BY <1>1, <2>1 DEF ManagerInv, StateInv
    <3> QED
      BY <1>3, <2>1, <3>1 DEF ManagerInv, StateInv, FlagHasItsTimer
  <2>2. CASE markPeerFailed(e)
    <3> HIDE DEF e
    <3>1. connected' \in [Entries -> BOOLEAN] /\ scheduleReconnect(e)
      BY <1>1, <2>2 DEF ManagerInv, StateInv, markPeerFailed
    <3> QED
      BY <1>1, <1>3, <3>1, FailedFlags, StateOfEvents DEF ManagerInv, StateInv
  <2> QED BY <1>4, <2>1, <2>2
<1> QED
  BY <1>2, <1>5 DEF ManagerInv

LEMMA AddKeeps ==
    ASSUME ManagerInv, NEW c \in Calls, NEW a \in Addresses, addNode(c, a)
    PROVE  ManagerInv'
<1>1. PICK e \in {f \in known : Address[f] = a} \cup {f \in Fresh(a) : Unused(f)} :
          /\ known' = known \cup {e}
          /\ connected' = [connected EXCEPT ![e] = @ /\ e \in known]
          /\ pending' = [pending EXCEPT ![e] = @ /\ e \in known]
          /\ IF pending'[e] THEN UNCHANGED <<calls, links>> ELSE Probe(c, e)
  BY DEF addNode
<1>2. UNCHANGED <<timer, stopped, up>> /\ persisted' = Runtime(known')
  BY DEF addNode
<1>3. e \in Entries /\ (e \notin known => ~timer[e])
  BY <1>1 DEF Fresh, Unused, ManagerInv, StateInv
<1>4. LinksOK(links') /\ CallsOK(calls', links')
  BY <1>1, <1>3, ProbeKeeps DEF ManagerInv
<1>5. known' \subseteq Entries /\ persisted' \subseteq Addresses
  BY <1>1, <1>2, <1>3 DEF ManagerInv, StateInv, Runtime, Addresses
<1>6. connected' \in [Entries -> BOOLEAN] /\ pending' \in [Entries -> BOOLEAN]
  <2>1. CASE e \in known
    <3>1. connected' = connected /\ pending' = pending
      BY <1>1, <1>3, <2>1 DEF ManagerInv, StateInv
    <3> QED
      BY <3>1 DEF ManagerInv, StateInv
  <2>2. CASE e \notin known
    <3>1. connected' = [connected EXCEPT ![e] = FALSE] /\ pending' = [pending EXCEPT ![e] = FALSE]
      BY <1>1, <2>2
    <3> QED
      BY <3>1 DEF ManagerInv, StateInv
  <2> QED BY <2>1, <2>2
<1>7. \A f \in known' : pending'[f] = timer'[f]
  <2>1. CASE e \in known
    <3>1. pending' = pending /\ known' = known
      BY <1>1, <1>3, <2>1 DEF ManagerInv, StateInv
    <3> QED
      BY <1>2, <3>1 DEF ManagerInv, StateInv, FlagHasItsTimer
  <2>2. CASE e \notin known
    <3>1. pending' = [pending EXCEPT ![e] = FALSE]
      BY <1>1, <2>2
    <3>2. timer[e] = FALSE
      BY <1>3, <2>2 DEF ManagerInv, StateInv
    <3> QED
      BY <1>1, <1>2, <1>3, <3>1, <3>2 DEF ManagerInv, StateInv, FlagHasItsTimer
  <2> QED BY <2>1, <2>2
<1>8. StateInv'
  BY <1>2, <1>5, <1>6, <1>7 DEF ManagerInv, StateInv, FlagHasItsTimer
<1> QED
  BY <1>4, <1>8 DEF ManagerInv

LEMMA UserKeeps ==
    ASSUME ManagerInv, (\E e \in Entries : removeNode(e)) \/ stop \/ Restart
    PROVE  ManagerInv'
<1>1. ASSUME NEW e \in Entries, removeNode(e) PROVE ManagerInv'
  <2>1. /\ known' = known \ {e} /\ timer' = [timer EXCEPT ![e] = FALSE]
        /\ persisted' = Runtime(known') /\ UNCHANGED <<connected, pending, stopped, up>>
    BY <1>1 DEF removeNode
  <2>2. StateInv'
    BY <2>1 DEF ManagerInv, StateInv, FlagHasItsTimer, Runtime, Addresses
  <2> QED
    BY <1>1, <2>2, RemoveKeeps DEF ManagerInv
<1>2. CASE stop
  <2>1. /\ stopped' = TRUE
        /\ timer' = [e \in Entries |-> IF e \in known THEN FALSE ELSE timer[e]]
        /\ pending' = [e \in Entries |-> IF e \in known THEN FALSE ELSE pending[e]]
        /\ UNCHANGED <<known, persisted, connected, up>>
    BY <1>2 DEF stop
  <2>2. StateInv'
    BY <2>1 DEF ManagerInv, StateInv, FlagHasItsTimer
  <2> QED
    BY <1>2, <2>2, StopKeeps DEF ManagerInv
<1>3. CASE Restart
  <2>1. /\ known' = InitialEntries(Configured \cup persisted)
        /\ connected' = [e \in Entries |-> FALSE]
        /\ pending' = [e \in Entries |-> FALSE] /\ timer' = [e \in Entries |-> FALSE]
        /\ links' = NoLinks /\ calls' = [c \in Calls |-> NoCall]
        /\ stopped' = FALSE /\ UNCHANGED <<persisted, up>>
    BY <1>3 DEF Restart
  <2>2. known' \subseteq Entries
    BY <2>1, InitialAreEntries
  <2>3. StateInv'
    BY <2>1, <2>2 DEF ManagerInv, StateInv, FlagHasItsTimer
  <2> QED
    BY <2>1, <2>3, FreshLinks DEF ManagerInv
<1> QED BY <1>1, <1>2, <1>3

-----------------------------------------------------------------------------
(* The invariant of the specification *)

LEMMA InitManager == Init => ManagerInv
<1> SUFFICES ASSUME Init PROVE ManagerInv
  OBVIOUS
<1>1. StateInv
  BY InitialAreEntries DEF Init, StateInv, FlagHasItsTimer
<1> QED
  BY <1>1, FreshLinks DEF Init, ManagerInv

LEMMA StepManager == ManagerInv /\ [Next]_vars => ManagerInv'
<1> SUFFICES ASSUME ManagerInv, [Next]_vars PROVE ManagerInv'
  OBVIOUS
<1>1. ASSUME NEW c \in Calls, NEW e \in Entries, Sweep(c, e) PROVE ManagerInv'
  <2>1. LinksOK(links') /\ CallsOK(calls', links')
    BY <1>1, ProbeKeeps DEF Sweep, ManagerInv
  <2> QED
    BY <1>1, <2>1, StateKept DEF Sweep, ManagerInv, StateInv
<1>2. ASSUME NEW c \in Calls, NEW e \in Entries, ReconnectTimer(c, e) PROVE ManagerInv'
  BY <1>2, TimerKeeps
<1>3. ASSUME NEW c \in Calls, Request(c) PROVE ManagerInv'
  <2> DEFINE call == [NoCall EXCEPT !.kind = "request", !.first = {e \in known : connected[e]}]
  <2>1. TryNext(c, call, known) /\ UNCHANGED <<managerVars, up>>
    BY <1>3 DEF Request
  <2>2. known \in SUBSET Entries
    BY DEF ManagerInv, StateInv
  <2>3. call \in CallRecords
    BY <2>2 DEF NoCall, CallRecords
  <2> HIDE DEF call
  <2>4. LinksOK(links') /\ CallsOK(calls', links')
    BY <2>1, <2>2, <2>3, TryNextKeeps DEF ManagerInv
  <2> QED
    BY <2>1, <2>4, StateKept DEF ManagerInv, StateInv
<1>4. ASSUME NEW c \in Calls, CallEvent(c) PROVE ManagerInv'
  <2>1. /\ calls[c].at # "none" /\ UNCHANGED <<managerVars, links, up>>
        /\ \/ calls' = [calls EXCEPT ![c].at = "answered"]
           \/ calls' = [calls EXCEPT ![c].at = "failed"]
    BY <1>4 DEF CallEvent, HttpAnswers, HttpFails, Answer, RequestFails
  <2>2. LinksOK(links') /\ CallsOK(calls', links')
    BY <2>1, CallMoves
  <2> QED
    BY <2>1, <2>2, StateKept DEF ManagerInv, StateInv
<1>5. ASSUME NEW c \in Calls, Continue(c) PROVE ManagerInv'
  BY <1>5, SucceedsKeeps, FailedCallKeeps DEF Continue
<1>6. ASSUME NEW e \in Entries, NEW k \in 1..LinkCount[e], LinkEvent(e, k) PROVE ManagerInv'
  <2>1. CASE Hello(e, k) \/ ConnectFails(e, k)
    <3>1. UNCHANGED <<managerVars, up>>
      BY <2>1 DEF Hello, ConnectFails
    <3>2. LinksOK(links') /\ CallsOK(calls', links')
      BY <2>1, HelloKeeps, FailKeeps
    <3> QED
      BY <3>1, <3>2, StateKept DEF ManagerInv, StateInv
  <2>2. ASSUME NEW s \in Sockets, SocketCloses(e, k, s) PROVE ManagerInv'
    <3>1. /\ UNCHANGED <<known, persisted, stopped, up>>
          /\ handleLinkDrop(e) \/ UNCHANGED <<connected, pending, timer>>
      BY <2>2 DEF SocketCloses
    <3>2. StateInv'
      BY <3>1, DropFlags DEF ManagerInv
    <3> QED
      BY <2>2, <3>2, CloseKeeps DEF ManagerInv
  <2> QED BY <1>6, <2>1, <2>2 DEF LinkEvent
<1>7. ASSUME NEW c \in Calls, NEW a \in Addresses, addNode(c, a) PROVE ManagerInv'
  BY <1>7, AddKeeps
<1>8. ASSUME (\E e \in Entries : removeNode(e)) \/ stop \/ Restart PROVE ManagerInv'
  BY <1>8, UserKeeps
<1>9. ASSUME NEW a \in Addresses, NodeFails(a) \/ NodeReturns(a) PROVE ManagerInv'
  <2>1. /\ UNCHANGED <<managerVars, links, calls>> /\ up' \subseteq Addresses
    BY <1>9 DEF NodeFails, NodeReturns, ManagerInv, StateInv
  <2> QED
    BY <2>1, StateKept DEF ManagerInv
<1>10. CASE UNCHANGED vars
  <2>1. UNCHANGED <<managerVars, links, calls, up>>
    BY <1>10 DEF vars
  <2> QED
    BY <2>1, StateKept DEF ManagerInv, StateInv
<1> QED
  BY <1>1, <1>2, <1>3, <1>4, <1>5, <1>6, <1>7, <1>8, <1>9, <1>10 DEF Next

LEMMA ManagerInvariant == Spec => []ManagerInv
<1> QED
  BY InitManager, StepManager, PTL DEF Spec

-----------------------------------------------------------------------------
(* Theorems *)

(* However probes, requests, closes and removals overlap, a call of peerLink.ts waits for
   the attempt its link is making or for a socket whose close event is still to come. *)
THEOREM NoCallIsStranded == Spec => []CallsHoldTheirSocket
<1>1. ManagerInv => CallsHoldTheirSocket
  BY DEF ManagerInv, CallsOK, Fits, CallsHoldTheirSocket, LinkOf
<1> QED
  BY <1>1, ManagerInvariant, PTL

(* reconnectPending of a known peer is set exactly while its timer runs: no peer is kept
   from the sweep for ever. *)
THEOREM FlagsHaveTimers == Spec => []FlagHasItsTimer
<1>1. ManagerInv => FlagHasItsTimer
  BY DEF ManagerInv, StateInv
<1> QED
  BY <1>1, ManagerInvariant, PTL

(* Every link stays sound: connected only with a socket, the socket in use open. *)
THEOREM LinksStaySound == Spec => []TypeOK
<1>1. ManagerInv => TypeOK
  BY DEF ManagerInv, StateInv, LinksOK, CallsOK, CallRecords, TypeOK
<1> QED
  BY <1>1, ManagerInvariant, PTL
=============================================================================
