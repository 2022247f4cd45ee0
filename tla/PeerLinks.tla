----------------------------- MODULE PeerLinks -----------------------------
(***************************************************************************)
(* The WebSocket links between full nodes (apps/node/src/p2p.ts): who      *)
(* connects to whom, the hello that opens a link, the peers announced over *)
(* it, and the reconnect timer of every peer that is not connected.        *)
(*                                                                         *)
(* A connection has an end A, whose node dialled the URL, and an end B.    *)
(* Each end learns of a broken connection at a step of its own, and the    *)
(* messages of a direction arrive in order or not at all.                  *)
(***************************************************************************)
EXTENDS Naturals, FiniteSets, Sequences

CONSTANTS
    Nodes,      \* every node is also its URL
    Public,     \* the nodes that advertise their URL (publicUrl)
    Dead,       \* URLs where no node answers
    Network,    \* Network[n]: the network id in the hello of a node
    Seeds,      \* Seeds[n]: the URLs of its configuration, its own left out by connect()
    MAX_PEERS,  \* records of one node (128)
    MAX_ADVERTISED_PEERS,       \* URLs that a node announces (32)
    MAX_PEER_ANNOUNCEMENTS,     \* URLs that it takes from one announcement (64)
    Slots,      \* connections of one node to one URL at a time, those not yet gone included
    Faulty,     \* bound: the nodes that may stop
    FaultyLinks,\* bound: the links <<n, u>> that may break or be refused
    MaxFaults   \* bound: how often they do

Urls == Public \cup Dead

ASSUME PeerLinksAssumption ==
    /\ Public \subseteq Nodes /\ Dead \cap Nodes = {} /\ IsFiniteSet(Urls)
    /\ Seeds \in [Nodes -> SUBSET Urls]
    /\ MAX_PEERS \in Nat /\ MaxFaults \in Nat
    /\ MAX_ADVERTISED_PEERS \in Nat \ {0} /\ MAX_PEER_ANNOUNCEMENTS \in Nat
    /\ MAX_ADVERTISED_PEERS <= MAX_PEER_ANNOUNCEMENTS
    /\ Slots \subseteq Nat \ {0}
    /\ \A n \in Nodes : Cardinality(Seeds[n]) <= MAX_PEERS /\ n \notin Seeds[n]

VARIABLES
    running,
    outbound,   \* outbound[n]: the URLs of its peer records
    timer,      \* timer[n]: those with a reconnect timer
    socket,     \* socket[n][u]: the slot of the record's socket, 0 without one
    conn,       \* conn[n][u][k]: connections that n dialled
    faults

nodeVars == <<running, outbound, timer, socket>>
vars == <<nodeVars, conn, faults>>

NoConn == [a |-> "none", b |-> "none", owned |-> FALSE, told |-> FALSE, broken |-> FALSE,
           toA |-> << >>, toB |-> << >>]
(* "owned": the record that dialled is still the node's.  "told": end B knows the URL of
   the node at end A. *)

Hello(n) == [type |-> "hello", peers |-> {}, network |-> Network[n]]
Peers(urls) == [type |-> "peers", peers |-> urls, network |-> "none"]

Init ==
    /\ running = [n \in Nodes |-> TRUE]
    /\ outbound = Seeds /\ timer = Seeds
    /\ socket = [n \in Nodes |-> [u \in Urls |-> 0]]
    /\ conn = [n \in Nodes |-> [u \in Urls |-> [k \in Slots |-> NoConn]]]
    /\ faults = 0

-----------------------------------------------------------------------------
(* Peers that a node announces, and peers announced to it *)

(* The URLs that a limit may leave of a list: which ones depends on its order. *)
Cuts(urls, limit) ==
    {kept \in SUBSET urls :
        Cardinality(kept) = IF Cardinality(urls) < limit THEN Cardinality(urls) ELSE limit}

(* Its own URL, inbound peers that gave theirs, and the URLs of its open sockets. *)
OwnUrl(n) == {n} \cap Public
InboundUrls(n) == {m \in Public : n \in Urls /\ \E k \in Slots :
                       conn[m][n][k].b = "open" /\ conn[m][n][k].told}
OpenUrls(n) == {u \in outbound[n] : socket[n][u] # 0}

(* Lists of at most MAX_ADVERTISED_PEERS: itself first, then one kind, then the other. *)
ListsOf(n, excluded, first, second) ==
    {urls \in Cuts((OwnUrl(n) \cup first \cup second) \ {excluded}, MAX_ADVERTISED_PEERS) :
        /\ OwnUrl(n) \ {excluded} \subseteq urls
        /\ urls \subseteq OwnUrl(n) \cup first \/ first \ {excluded} \subseteq urls}

(* Mutant: peers that dialled this node are not announced. *)
knownPeerUrls_Outbound(n, excluded) == ListsOf(n, excluded, {}, OpenUrls(n))
knownPeerUrls(n, excluded) == ListsOf(n, excluded, InboundUrls(n), OpenUrls(n))

(* connect() for each of a list, as long as there is room. *)
connect(n, urls) ==
    \E added \in Cuts({u \in urls \cap Urls : u # n /\ u \notin outbound[n]},
                      MAX_PEERS - Cardinality(outbound[n])) :
        /\ outbound' = [outbound EXCEPT ![n] = @ \cup added]
        /\ timer' = [timer EXCEPT ![n] = @ \cup added]

addDiscoveredPeers(n, urls) == \E heard \in Cuts(urls, MAX_PEER_ANNOUNCEMENTS) : connect(n, heard)

Sent(c, end, message) ==
    IF end = "A" THEN [c EXCEPT !.toA = Append(@, message)] ELSE [c EXCEPT !.toB = Append(@, message)]

(* An end that has seen the close is gone; a connection without ends is no more. *)
Gone(c) == IF c.a = "none" /\ c.b = "none" THEN NoConn ELSE c

Fault == faults < MaxFaults /\ faults' = faults + 1

-----------------------------------------------------------------------------
(* The dialling end *)

openOutbound(n, u) ==
    /\ running[n] /\ u \in timer[n] /\ socket[n][u] = 0
    /\ timer' = [timer EXCEPT ![n] = @ \ {u}]
    /\ \E k \in Slots :
          /\ conn[n][u][k] = NoConn /\ \A j \in Slots : conn[n][u][j] = NoConn => k <= j
          /\ conn' = [conn EXCEPT ![n][u][k] = [NoConn EXCEPT !.a = "opening", !.owned = TRUE]]
    /\ UNCHANGED <<running, outbound, socket, faults>>

(* The socket opens at both ends and each sends its hello; a record that is gone by then
   closes it. *)
Opens(n, u, k) ==
    LET c == conn[n][u][k]
    IN  /\ c.a = "opening" /\ u \in Nodes /\ running[u]
        /\ IF c.owned
           THEN /\ socket' = [socket EXCEPT ![n][u] = k]
                /\ conn' = [conn EXCEPT ![n][u][k] =
                       [c EXCEPT !.a = "open", !.b = "open",
                                 !.toA = <<Hello(u)>>, !.toB = <<Hello(n)>>]]
           ELSE /\ conn' = [conn EXCEPT ![n][u][k] = [c EXCEPT !.b = "open", !.broken = TRUE]]
                /\ UNCHANGED socket
        /\ UNCHANGED <<running, outbound, timer, faults>>

(* Mutant: a dropped peer is not dialled again. *)
Reschedule_Never(n, u, owned) == UNCHANGED timer
Reschedule(n, u, owned) == timer' = [timer EXCEPT ![n] = IF owned THEN @ \cup {u} ELSE @]

(* A connection that is refused: the close of a socket that never opened. *)
ConnectFails(n, u, k) ==
    LET c == conn[n][u][k]
    IN  /\ c.a = "opening" /\ ~c.broken
        /\ IF u \in Nodes /\ running[u] THEN <<n, u>> \in FaultyLinks /\ Fault ELSE UNCHANGED faults
        /\ conn' = [conn EXCEPT ![n][u][k] = NoConn]
        /\ Reschedule(n, u, c.owned)
        /\ UNCHANGED <<running, outbound, socket>>

ClosesAtA(n, u, k) ==
    LET c == conn[n][u][k]
    IN  /\ c.broken /\ c.a # "none"
        /\ conn' = [conn EXCEPT ![n][u][k] = Gone([c EXCEPT !.a = "none"])]
        /\ socket' = [socket EXCEPT ![n][u] = IF c.owned THEN 0 ELSE @]
        /\ Reschedule(n, u, c.owned)
        /\ UNCHANGED <<running, outbound, faults>>

(* forgetPeer: an invalid handshake removes the record for good. *)
forgetPeer(n, u, k, c) ==
    /\ outbound' = [outbound EXCEPT ![n] = @ \ {u}]
    /\ timer' = [timer EXCEPT ![n] = @ \ {u}]
    /\ socket' = [socket EXCEPT ![n][u] = 0]
    /\ conn' = [conn EXCEPT ![n][u][k] = [c EXCEPT !.broken = TRUE, !.owned = FALSE]]

handleOutboundMessage(n, u, k) ==
    LET c == [conn[n][u][k] EXCEPT !.toA = Tail(@)]
        message == Head(conn[n][u][k].toA)
    IN  /\ conn[n][u][k].a = "open" /\ ~conn[n][u][k].broken /\ conn[n][u][k].toA # << >>
        /\ CASE message.type = "peers" ->
                    /\ addDiscoveredPeers(n, message.peers)
                    /\ conn' = [conn EXCEPT ![n][u][k] = c] /\ UNCHANGED socket
             [] message.type = "hello" /\ message.network = Network[n] ->
                    /\ \E urls \in knownPeerUrls(n, u) :
                           conn' = [conn EXCEPT ![n][u][k] = Sent(c, "B", Peers(urls))]
                    /\ UNCHANGED <<outbound, timer, socket>>
             [] OTHER -> forgetPeer(n, u, k, c)
        /\ UNCHANGED <<running, faults>>

-----------------------------------------------------------------------------
(* The accepting end *)

handleInbound(n, u, k) ==
    LET c == [conn[n][u][k] EXCEPT !.toB = Tail(@)]
        message == Head(conn[n][u][k].toB)
    IN  /\ conn[n][u][k].b = "open" /\ ~conn[n][u][k].broken /\ conn[n][u][k].toB # << >>
        /\ CASE message.type = "peers" ->
                    /\ addDiscoveredPeers(u, message.peers)
                    /\ conn' = [conn EXCEPT ![n][u][k] = c]
             [] message.type = "hello" /\ message.network = Network[u] ->
                    /\ \E urls \in knownPeerUrls(u, n) :
                           conn' = [conn EXCEPT ![n][u][k] =
                               Sent([c EXCEPT !.told = n \in Public], "A", Peers(urls))]
                    /\ UNCHANGED <<outbound, timer>>
             [] OTHER ->
                    /\ conn' = [conn EXCEPT ![n][u][k] = [c EXCEPT !.broken = TRUE]]
                    /\ UNCHANGED <<outbound, timer>>
        /\ UNCHANGED <<running, socket, faults>>

ClosesAtB(n, u, k) ==
    LET c == conn[n][u][k]
    IN  /\ c.broken /\ c.b # "none"
        /\ conn' = [conn EXCEPT ![n][u][k] = Gone([c EXCEPT !.b = "none"])]
        /\ UNCHANGED <<nodeVars, faults>>

-----------------------------------------------------------------------------
(* Failures *)

Breaks(n, u, k) ==
    /\ <<n, u>> \in FaultyLinks /\ Fault
    /\ conn[n][u][k].a = "open" /\ ~conn[n][u][k].broken
    /\ conn' = [conn EXCEPT ![n][u][k].broken = TRUE]
    /\ UNCHANGED nodeVars

(* stop(), or the end of the process: every record and every socket of the node goes. *)
stop(n) ==
    /\ n \in Faulty /\ Fault /\ running[n]
    /\ running' = [running EXCEPT ![n] = FALSE]
    /\ outbound' = [outbound EXCEPT ![n] = {}] /\ timer' = [timer EXCEPT ![n] = {}]
    /\ socket' = [socket EXCEPT ![n] = [u \in Urls |-> 0]]
    /\ conn' = [m \in Nodes |-> [u \in Urls |-> [k \in Slots |->
           LET c == conn[m][u][k]
           IN  IF c = NoConn \/ n \notin {m, u} THEN c
               ELSE IF n = m THEN Gone([c EXCEPT !.a = "none", !.owned = FALSE, !.broken = TRUE])
               ELSE IF c.a = "opening" THEN c
               ELSE Gone([c EXCEPT !.b = "none", !.broken = TRUE])]]]

start(n) ==
    /\ ~running[n]
    /\ running' = [running EXCEPT ![n] = TRUE]
    /\ outbound' = [outbound EXCEPT ![n] = Seeds[n]] /\ timer' = [timer EXCEPT ![n] = Seeds[n]]
    /\ UNCHANGED <<socket, conn, faults>>

ConnSteps(n, u, k) ==
    \/ Opens(n, u, k) \/ ConnectFails(n, u, k)
    \/ handleOutboundMessage(n, u, k) \/ handleInbound(n, u, k)
    \/ ClosesAtA(n, u, k) \/ ClosesAtB(n, u, k)

Next ==
    \/ \E n \in Nodes, u \in Urls : \/ openOutbound(n, u)
                                    \/ \E k \in Slots : ConnSteps(n, u, k) \/ Breaks(n, u, k)
    \/ \E n \in Nodes : stop(n) \/ start(n)

(* The timers fire and the network delivers messages and reports closes.  Taken together
   for all links between nodes of one network, which is less than the code has (each timer
   and each socket by itself): the steps on them end when no more links break, while a
   dead URL or a node of another network can be dialled for ever. *)
LinkRuns(n, u) == openOutbound(n, u) \/ \E k \in Slots : ConnSteps(n, u, k)
Fairness ==
    /\ WF_vars(\E n \in Nodes : \E u \in {m \in Urls \cap Nodes : Network[m] = Network[n]} : LinkRuns(n, u))
    /\ WF_vars(\E n \in Nodes : start(n))

Spec == Init /\ [][Next]_vars /\ Fairness

-----------------------------------------------------------------------------
(* Properties *)

TypeOK ==
    /\ running \in [Nodes -> BOOLEAN]
    /\ outbound \in [Nodes -> SUBSET Urls] /\ timer \in [Nodes -> SUBSET Urls]
    /\ socket \in [Nodes -> [Urls -> Slots \cup {0}]]
    /\ \A n \in Nodes, u \in Urls, k \in Slots :
          /\ conn[n][u][k].a \in {"none", "opening", "open"}
          /\ conn[n][u][k].b \in {"none", "open"}
          /\ \A f \in {"owned", "told", "broken"} : conn[n][u][k][f] \in BOOLEAN
    /\ faults \in 0..MaxFaults

Owned(n, u) == {k \in Slots : conn[n][u][k].owned /\ conn[n][u][k].a # "none"}

(* A peer record is never without a future and never dialled twice: it has its timer, or
   exactly one connection that is opening or open, whatever closes, refusals, forgotten
   handshakes and restarts came before. *)
OneAttemptPerPeer ==
    \A n \in Nodes : \A u \in outbound[n] :
        IF u \in timer[n] THEN Owned(n, u) = {} /\ socket[n][u] = 0
        ELSE Cardinality(Owned(n, u)) = 1 /\ socket[n][u] \in Owned(n, u) \cup {0}

(* A record uses only a connection that it dialled and that is its own, and a node keeps
   at most MAX_PEERS records and none of itself. *)
RecordsAreSound ==
    \A n \in Nodes :
        /\ Cardinality(outbound[n]) <= MAX_PEERS /\ n \notin outbound[n]
        /\ timer[n] \subseteq outbound[n]
        /\ \A u \in Urls : /\ socket[n][u] # 0 => u \in outbound[n] /\ socket[n][u] \in Owned(n, u)
                           /\ Owned(n, u) # {} => u \in outbound[n]

Linked(n, m) ==
    \/ m \in Urls /\ \E k \in Slots : conn[n][m][k].a = "open" /\ ~conn[n][m][k].broken
    \/ n \in Urls /\ \E k \in Slots : conn[m][n][k].a = "open" /\ ~conn[m][n][k].broken

(* A node is linked to its seeds again and again, whatever connections break, are refused
   or end with a node that stops and starts. *)
SeedsAreReached ==
    \A n \in Nodes : \A m \in Seeds[n] \cap Nodes : Network[n] = Network[m] => []<>Linked(n, m)

Announced(m, u) == \E k \in Slots : LET c == conn[m][u][k]
                                    IN  c.a = "open" /\ c.b = "open" /\ c.told /\ ~c.broken

(* The seed can announce itself and all that dialled it, and the newcomer has a record for
   whatever it may hear of. *)
HasRoom(n, u) ==
    /\ Cardinality((OwnUrl(u) \cup InboundUrls(u)) \ {n}) <= MAX_ADVERTISED_PEERS
    /\ Cardinality((outbound[n] \cup OwnUrl(u) \cup InboundUrls(u) \cup OpenUrls(u)) \ {n}) <= MAX_PEERS

(* Peer exchange: a node that has yet to dial a seed is linked to every node that the seed
   has been told of by then, once no more links break and as long as both have room. *)
NewcomersMeetTheOthers ==
    \A n \in Nodes, m \in Public : \A u \in (Seeds[n] \cap Nodes) \ {m} :
        n # m /\ Network[n] = Network[u] /\ Network[m] = Network[u] =>
            (/\ faults = MaxFaults /\ u \in timer[n] /\ Announced(m, u)
             /\ []HasRoom(n, u)) ~> Linked(n, m)
=============================================================================
