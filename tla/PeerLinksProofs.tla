-------------------------- MODULE PeerLinksProofs --------------------------
(***************************************************************************)
(* Proofs about the links between full nodes (PeerLinks): for any network  *)
(* and any number of failures, a peer record has a timer or exactly one    *)
(* connection, and a node keeps at most MAX_PEERS records.                 *)
(*                                                                         *)
(* The invariant that carries it: a record has lost its timer exactly when *)
(* one connection is its own, and that connection is the only one.         *)
(***************************************************************************)
EXTENDS PeerLinks, FiniteSetTheorems, TLAPS

-----------------------------------------------------------------------------
(* Types *)

Networks == {Network[n] : n \in Nodes} \cup {"none"}
Messages == [type : {"hello", "peers"}, peers : SUBSET Urls, network : Networks]
Conns == [a : {"none", "opening", "open"}, b : {"none", "open"}, owned : BOOLEAN,
          told : BOOLEAN, broken : BOOLEAN, toA : Seq(Messages), toB : Seq(Messages)]

TypeInv ==
    /\ running \in [Nodes -> BOOLEAN]
    /\ outbound \in [Nodes -> SUBSET Urls] /\ timer \in [Nodes -> SUBSET Urls]
    /\ socket \in [Nodes -> [Urls -> Slots \cup {0}]]
    /\ conn \in [Nodes -> [Urls -> [Slots -> Conns]]]
    /\ faults \in 0..MaxFaults

(* The connections of a record, and what is true of any connection. *)
Own(c) == c.owned /\ c.a # "none"
ConnHolds(n, u, c) ==
    /\ c.a = "open" /\ ~c.broken => c.owned /\ running[n]
    /\ c.a = "opening" /\ ~c.broken => c.b = "none"
    /\ c.b = "open" => u \in Nodes
    /\ c.b = "open" /\ ~c.broken => running[u]

ConnInv == \A n \in Nodes, u \in Urls, k \in Slots : ConnHolds(n, u, conn[n][u][k])

RecordInv(n, u) ==
    /\ u \in timer[n] => u \in outbound[n]
    /\ u \in outbound[n] /\ u \notin timer[n] <=> \E k \in Slots : Own(conn[n][u][k])
    /\ \A j, k \in Slots : Own(conn[n][u][j]) /\ Own(conn[n][u][k]) => j = k
    /\ socket[n][u] # 0 => Own(conn[n][u][socket[n][u]])
    /\ \A k \in Slots : conn[n][u][k].a = "opening" => socket[n][u] # k

NodeInv ==
    \A n \in Nodes :
      /\ ~running[n] => outbound[n] = {}
      /\ n \notin outbound[n] /\ Cardinality(outbound[n]) <= MAX_PEERS

LinksInv == TypeInv /\ ConnInv /\ NodeInv /\ \A n \in Nodes, u \in Urls : RecordInv(n, u)

-----------------------------------------------------------------------------
(* Facts used in every step *)

LEMMA SlotsAreNotZero == 0 \notin Slots /\ Slots \subseteq Nat
BY PeerLinksAssumption

LEMMA NoConnIsTyped == NoConn \in Conns /\ ~Own(NoConn) /\ NoConn.a = "none" /\ NoConn.b = "none"
BY DEF NoConn, Conns, Own

(* One connection changes, the others stay. *)
ConnBecomes(n, u, k, c) ==
    /\ conn' \in [Nodes -> [Urls -> [Slots -> Conns]]]
    /\ conn'[n][u][k] = c
    /\ \A m \in Nodes, v \in Urls, j \in Slots :
         m # n \/ v # u \/ j # k => conn'[m][v][j] = conn[m][v][j]

LEMMA ConnChanges ==
    ASSUME TypeInv, NEW n \in Nodes, NEW u \in Urls, NEW k \in Slots, NEW c \in Conns,
           conn' = [conn EXCEPT ![n][u][k] = c]
    PROVE  ConnBecomes(n, u, k, c)
<1>1. conn[n][u] \in [Slots -> Conns] /\ conn[n] \in [Urls -> [Slots -> Conns]]
  BY DEF TypeInv
<1>2. conn' = [conn EXCEPT ![n] = [conn[n] EXCEPT ![u] = [conn[n][u] EXCEPT ![k] = c]]]
  OBVIOUS
<1>3. [conn[n][u] EXCEPT ![k] = c] \in [Slots -> Conns]
  BY <1>1
<1>4. [conn[n] EXCEPT ![u] = [conn[n][u] EXCEPT ![k] = c]] \in [Urls -> [Slots -> Conns]]
  BY <1>1, <1>3
<1>5. conn' \in [Nodes -> [Urls -> [Slots -> Conns]]]
  BY <1>2, <1>4 DEF TypeInv
<1>6. ASSUME NEW m \in Nodes, NEW v \in Urls, NEW j \in Slots
      PROVE  conn'[m][v][j] = IF m = n /\ v = u /\ j = k THEN c ELSE conn[m][v][j]
  <2>1. CASE m # n
    BY <1>2, <2>1 DEF TypeInv
  <2>2. CASE m = n
    <3>1. conn'[m] = [conn[n] EXCEPT ![u] = [conn[n][u] EXCEPT ![k] = c]]
      BY <1>2, <2>2 DEF TypeInv
    <3>2. CASE v # u
      BY <2>2, <3>1, <3>2, <1>1
    <3>3. CASE v = u
      <4>1. conn'[m][v] = [conn[n][u] EXCEPT ![k] = c]
        BY <3>1, <3>3, <1>1
      <4> QED
        BY <2>2, <3>3, <4>1, <1>1
    <3> QED BY <3>2, <3>3
  <2> QED BY <2>1, <2>2
<1> QED BY <1>5, <1>6 DEF ConnBecomes

(* Every connection is sound when the changed one is. *)
LEMMA OneConnChanges ==
    ASSUME LinksInv, UNCHANGED running, NEW n \in Nodes, NEW u \in Urls, NEW k \in Slots, NEW c,
           ConnBecomes(n, u, k, c), ConnHolds(n, u, c)
    PROVE  ConnInv'
<1> SUFFICES ASSUME NEW m \in Nodes, NEW v \in Urls, NEW j \in Slots
             PROVE  ConnHolds(m, v, conn[m][v][j])'
  BY DEF ConnInv
<1>1. CASE m = n /\ v = u /\ j = k
  BY <1>1 DEF ConnBecomes, ConnHolds
<1>2. CASE m # n \/ v # u \/ j # k
  <2>1. ConnHolds(m, v, conn[m][v][j])
    BY DEF LinksInv, ConnInv
  <2>2. conn'[m][v][j] = conn[m][v][j]
    BY <1>2 DEF ConnBecomes
  <2> QED
    BY <2>1, <2>2 DEF ConnHolds
<1> QED BY <1>1, <1>2

(* A connection that stays typed and as much its record's as it was changes no record. *)
LEMMA RecordsStay ==
    ASSUME LinksInv, UNCHANGED <<outbound, timer, socket>>,
           \A n \in Nodes, u \in Urls, k \in Slots :
             /\ Own(conn'[n][u][k]) <=> Own(conn[n][u][k])
             /\ conn'[n][u][k].a = "opening" => conn[n][u][k].a = "opening"
    PROVE  (\A n \in Nodes, u \in Urls : RecordInv(n, u))'
BY DEF LinksInv, RecordInv, TypeInv

(* Peers announced to a running node become records with a timer. *)
LEMMA ConnectsKeeps ==
    ASSUME LinksInv, NEW n \in Nodes, running[n], UNCHANGED <<running, socket>>,
           NEW urls, addDiscoveredPeers(n, urls),
           \A m \in Nodes, u \in Urls, k \in Slots :
             /\ Own(conn'[m][u][k]) <=> Own(conn[m][u][k])
             /\ conn'[m][u][k].a = "opening" => conn[m][u][k].a = "opening"
    PROVE  /\ outbound' \in [Nodes -> SUBSET Urls] /\ timer' \in [Nodes -> SUBSET Urls]
           /\ NodeInv' /\ (\A m \in Nodes, u \in Urls : RecordInv(m, u))'
<1>0. PICK heard \in Cuts(urls, MAX_PEER_ANNOUNCEMENTS) :
        \E added \in Cuts({u \in heard \cap Urls : u # n /\ u \notin outbound[n]},
                          MAX_PEERS - Cardinality(outbound[n])) :
          /\ outbound' = [outbound EXCEPT ![n] = outbound[n] \cup added]
          /\ timer' = [timer EXCEPT ![n] = timer[n] \cup added]
  BY DEF addDiscoveredPeers, connect
<1> DEFINE new == {u \in heard \cap Urls : u # n /\ u \notin outbound[n]}
           room == MAX_PEERS - Cardinality(outbound[n])
<1>1. PICK added \in SUBSET new :
        /\ Cardinality(added) = IF Cardinality(new) < room THEN Cardinality(new) ELSE room
        /\ outbound' = [outbound EXCEPT ![n] = outbound[n] \cup added]
        /\ timer' = [timer EXCEPT ![n] = timer[n] \cup added]
  BY <1>0 DEF Cuts
<1>2. /\ added \subseteq Urls /\ added \cap outbound[n] = {} /\ n \notin added
  BY <1>1
<1>3. /\ IsFiniteSet(added) /\ IsFiniteSet(outbound[n]) /\ IsFiniteSet(new)
  BY <1>1, <1>2, PeerLinksAssumption, FS_Subset DEF LinksInv, TypeInv
<1>4. /\ Cardinality(outbound[n]) \in Nat /\ Cardinality(added) \in Nat /\ Cardinality(new) \in Nat
  BY <1>3, FS_CardinalityType
<1>5. Cardinality(outbound[n] \cup added) <= Cardinality(outbound[n]) + Cardinality(added)
  <2>1. Cardinality(outbound[n] \cup added) =
          Cardinality(outbound[n]) + Cardinality(added) - Cardinality(outbound[n] \cap added)
    BY <1>3, FS_Union
  <2>2. outbound[n] \cap added = {}
    BY <1>2
  <2>3. Cardinality(outbound[n] \cap added) = 0
    BY <2>2, FS_EmptySet
  <2> HIDE DEF new, room
  <2> QED
    BY <2>1, <2>3, <1>4
<1>6. Cardinality(outbound[n] \cup added) <= MAX_PEERS
  <2>1. Cardinality(added) <= room
    <3> HIDE DEF new
    <3> QED
      BY <1>1, <1>4, PeerLinksAssumption
  <2>2. Cardinality(outbound[n] \cup added) \in Nat
    BY <1>3, FS_Union, FS_CardinalityType
  <2> QED
    BY <2>1, <2>2, <1>4, <1>5, PeerLinksAssumption
<1> HIDE DEF new, room
<1>7. outbound' \in [Nodes -> SUBSET Urls] /\ timer' \in [Nodes -> SUBSET Urls]
  BY <1>1, <1>2 DEF LinksInv, TypeInv
<1>8. \A m \in Nodes : /\ outbound'[m] = IF m = n THEN outbound[n] \cup added ELSE outbound[m]
                       /\ timer'[m] = IF m = n THEN timer[n] \cup added ELSE timer[m]
  BY <1>1 DEF LinksInv, TypeInv
<1>9. NodeInv'
  BY <1>2, <1>6, <1>8 DEF LinksInv, NodeInv
<1>10. (\A m \in Nodes, u \in Urls : RecordInv(m, u))'
  <2> SUFFICES ASSUME NEW m \in Nodes, NEW u \in Urls PROVE RecordInv(m, u)'
    OBVIOUS
  <2>1. RecordInv(m, u)
    BY DEF LinksInv
  <2>2. u \in outbound'[m] /\ u \notin timer'[m] <=> u \in outbound[m] /\ u \notin timer[m]
    BY <1>2, <1>8, <2>1 DEF RecordInv
  <2>3. u \in timer'[m] => u \in outbound'[m]
    BY <1>8, <2>1 DEF RecordInv
  <2>4. socket[m][u] \in Slots \cup {0}
    BY DEF LinksInv, TypeInv
  <2> QED
    BY <2>1, <2>2, <2>3, <2>4 DEF RecordInv
<1> QED BY <1>7, <1>9, <1>10

-----------------------------------------------------------------------------
(* The dialling end *)

(* What a step that changes one connection, and the record that dialled it, has to show. *)
LEMMA OneRecordChanges ==
    ASSUME LinksInv, NEW n \in Nodes, NEW u \in Urls, NEW k \in Slots, NEW c,
           UNCHANGED <<running, outbound>>, faults' \in 0..MaxFaults,
           ConnBecomes(n, u, k, c), ConnHolds(n, u, c),
           timer' \in [Nodes -> SUBSET Urls], socket' \in [Nodes -> [Urls -> Slots \cup {0}]],
           \A m \in Nodes, v \in Urls : m # n \/ v # u =>
             /\ v \in timer'[m] <=> v \in timer[m]
             /\ socket'[m][v] = socket[m][v],
           RecordInv(n, u)'
    PROVE  LinksInv'
<1>1. ASSUME NEW m \in Nodes, NEW v \in Urls, m # n \/ v # u PROVE RecordInv(m, v)'
  <2>1. RecordInv(m, v) /\ socket[m][v] \in Slots \cup {0}
    BY DEF LinksInv, TypeInv
  <2>2. \A j \in Slots : conn'[m][v][j] = conn[m][v][j]
    BY <1>1 DEF ConnBecomes
  <2> QED
    BY <1>1, <2>1, <2>2 DEF RecordInv
<1>2. ConnInv'
  BY OneConnChanges
<1>3. TypeInv' /\ NodeInv'
  BY DEF LinksInv, NodeInv, TypeInv, ConnBecomes
<1> QED
  BY <1>1, <1>2, <1>3 DEF LinksInv

LEMMA OpenKeeps ==
    ASSUME LinksInv, NEW n \in Nodes, NEW u \in Urls, openOutbound(n, u)
    PROVE  LinksInv'
<1> DEFINE c == [NoConn EXCEPT !.a = "opening", !.owned = TRUE]
<1>1. PICK k \in Slots : conn[n][u][k] = NoConn /\ conn' = [conn EXCEPT ![n][u][k] = c]
  BY DEF openOutbound
<1>2. /\ running[n] /\ u \in timer[n] /\ socket[n][u] = 0
      /\ timer' = [timer EXCEPT ![n] = @ \ {u}] /\ UNCHANGED <<running, outbound, socket, faults>>
  BY DEF openOutbound
<1>3. c \in Conns /\ Own(c) /\ c.a = "opening" /\ c.b = "none"
  BY NoConnIsTyped DEF Conns, Own
<1> HIDE DEF c
<1>4. ConnBecomes(n, u, k, c) /\ ConnHolds(n, u, c)
  BY <1>1, <1>3, ConnChanges DEF LinksInv, ConnHolds
<1>5. \A m \in Nodes : timer'[m] = IF m = n THEN timer[n] \ {u} ELSE timer[m]
  BY <1>2 DEF LinksInv, TypeInv
<1>6. RecordInv(n, u)'
  <2>1. RecordInv(n, u)
    BY DEF LinksInv
  <2>2. \A j \in Slots : ~Own(conn[n][u][j])
    BY <1>2, <2>1 DEF RecordInv
  <2>3. u \in outbound[n] /\ u \notin timer'[n] /\ u \in timer[n]
    BY <1>2, <1>5, <2>1 DEF RecordInv
  <2>4. conn'[n][u][k] = c /\ \A j \in Slots : j # k => conn'[n][u][j] = conn[n][u][j]
    BY <1>4 DEF ConnBecomes
  <2> QED
    BY <1>2, <1>3, <2>2, <2>3, <2>4, SlotsAreNotZero DEF RecordInv
<1>7. /\ timer' \in [Nodes -> SUBSET Urls] /\ socket' \in [Nodes -> [Urls -> Slots \cup {0}]]
      /\ faults' \in 0..MaxFaults
      /\ \A m \in Nodes, v \in Urls : m # n \/ v # u =>
           (v \in timer'[m] <=> v \in timer[m]) /\ socket'[m][v] = socket[m][v]
  BY <1>2, <1>5 DEF LinksInv, TypeInv
<1> QED
  BY <1>2, <1>4, <1>6, <1>7, OneRecordChanges

LEMMA OpensKeeps ==
    ASSUME LinksInv, NEW n \in Nodes, NEW u \in Urls, NEW k \in Slots, Opens(n, u, k)
    PROVE  LinksInv'
<1> DEFINE c == conn[n][u][k]
<1>1. c \in Conns /\ ConnHolds(n, u, c) /\ RecordInv(n, u)
  BY DEF LinksInv, TypeInv, ConnInv
<1>2. /\ c.a = "opening" /\ u \in Nodes /\ running[u]
      /\ UNCHANGED <<running, outbound, timer, faults>>
  BY DEF Opens
<1>3. CASE c.owned
  <2> DEFINE d == [c EXCEPT !.a = "open", !.b = "open", !.toA = <<Hello(u)>>, !.toB = <<Hello(n)>>]
  <2>1. /\ socket' = [socket EXCEPT ![n][u] = k]
        /\ conn' = [conn EXCEPT ![n][u][k] = d]
    BY <1>3 DEF Opens
  <2>2. Hello(u) \in Messages /\ Hello(n) \in Messages
    BY <1>2 DEF Hello, Messages, Networks
  <2>3. <<Hello(u)>> \in Seq(Messages) /\ <<Hello(n)>> \in Seq(Messages)
    BY <2>2
  <2>4. d \in Conns /\ d.a = "open" /\ d.b = "open" /\ d.owned
    BY <1>1, <1>3, <2>3 DEF Conns
  <2>5. Own(d) /\ Own(c)
    BY <1>2, <1>3, <2>4 DEF Own
  <2> HIDE DEF d
  <2>6. running[n]
    BY <1>1, <2>5 DEF RecordInv, LinksInv, NodeInv, TypeInv
  <2>7. ConnBecomes(n, u, k, d) /\ ConnHolds(n, u, d)
    BY <1>2, <2>1, <2>4, <2>6, ConnChanges DEF LinksInv, ConnHolds
  <2>8. /\ socket' \in [Nodes -> [Urls -> Slots \cup {0}]]
        /\ \A m \in Nodes, v \in Urls : socket'[m][v] = IF m = n /\ v = u THEN k ELSE socket[m][v]
    BY <2>1 DEF LinksInv, TypeInv
  <2>9. RecordInv(n, u)'
    <3>1. conn'[n][u][k] = d /\ \A j \in Slots : j # k => conn'[n][u][j] = conn[n][u][j]
      BY <2>7 DEF ConnBecomes
    <3>2. socket'[n][u] = k
      BY <2>8
    <3>3. \A j \in Slots : Own(conn'[n][u][j]) <=> Own(conn[n][u][j])
      BY <2>5, <3>1
    <3>4. \A j \in Slots : conn'[n][u][j].a = "opening" => j # k
      BY <2>4, <3>1
    <3> QED
      BY <1>1, <1>2, <2>5, <3>1, <3>2, <3>3, <3>4, SlotsAreNotZero DEF RecordInv
  <2>10. timer' \in [Nodes -> SUBSET Urls] /\ faults' \in 0..MaxFaults
    BY <1>2 DEF LinksInv, TypeInv
  <2> QED
    BY <1>2, <2>7, <2>8, <2>9, <2>10, OneRecordChanges
<1>4. CASE ~c.owned
  <2> DEFINE d == [c EXCEPT !.b = "open", !.broken = TRUE]
  <2>1. conn' = [conn EXCEPT ![n][u][k] = d] /\ UNCHANGED socket
    BY <1>4 DEF Opens
  <2>2. d \in Conns /\ ~d.owned /\ d.a = "opening" /\ d.b = "open" /\ d.broken
    BY <1>1, <1>2, <1>4 DEF Conns
  <2> HIDE DEF d
  <2>3. ConnBecomes(n, u, k, d) /\ ConnHolds(n, u, d)
    BY <1>2, <2>1, <2>2, ConnChanges DEF LinksInv, ConnHolds
  <2>4. RecordInv(n, u)'
    <3>1. conn'[n][u][k] = d /\ \A j \in Slots : j # k => conn'[n][u][j] = conn[n][u][j]
      BY <2>3 DEF ConnBecomes
    <3>2. \A j \in Slots : Own(conn'[n][u][j]) <=> Own(conn[n][u][j])
      BY <1>4, <2>2, <3>1 DEF Own
    <3>3. \A j \in Slots : conn'[n][u][j].a = "opening" => conn[n][u][j].a = "opening"
      BY <1>2, <3>1
    <3>4. socket[n][u] \in Slots \cup {0}
      BY DEF LinksInv, TypeInv
    <3> QED
      BY <1>1, <1>2, <2>1, <3>2, <3>3, <3>4 DEF RecordInv
  <2>5. /\ timer' \in [Nodes -> SUBSET Urls] /\ faults' \in 0..MaxFaults
        /\ socket' \in [Nodes -> [Urls -> Slots \cup {0}]]
    BY <1>2, <2>1 DEF LinksInv, TypeInv
  <2> QED
    BY <1>2, <2>1, <2>3, <2>4, <2>5, OneRecordChanges
<1> QED BY <1>3, <1>4

(* A socket that never opened is not the record's, and an end that closes lets it go: the
   record has its timer again. *)
LEMMA LettingGo ==
    ASSUME LinksInv, NEW n \in Nodes, NEW u \in Urls, NEW k \in Slots,
           Own(conn[n][u][k]), UNCHANGED outbound, u \in timer'[n], socket'[n][u] = 0,
           ~Own(conn'[n][u][k]),
           \A j \in Slots : j # k => conn'[n][u][j] = conn[n][u][j]
    PROVE  RecordInv(n, u)'
<1>1. RecordInv(n, u)
  BY DEF LinksInv
<1>2. \A j \in Slots : ~Own(conn'[n][u][j])
  BY <1>1 DEF RecordInv
<1> QED
  BY <1>1, <1>2, SlotsAreNotZero DEF RecordInv

(* A connection that is not the record's stays so. *)
LEMMA OthersChange ==
    ASSUME LinksInv, NEW n \in Nodes, NEW u \in Urls, NEW k \in Slots,
           ~Own(conn[n][u][k]), ~Own(conn'[n][u][k]),
           conn'[n][u][k].a = "opening" => conn[n][u][k].a = "opening",
           UNCHANGED outbound, u \in timer'[n] <=> u \in timer[n], socket'[n][u] = socket[n][u],
           \A j \in Slots : j # k => conn'[n][u][j] = conn[n][u][j]
    PROVE  RecordInv(n, u)'
<1>1. RecordInv(n, u) /\ socket[n][u] \in Slots \cup {0}
  BY DEF LinksInv, TypeInv
<1>2. \A j \in Slots : Own(conn'[n][u][j]) <=> Own(conn[n][u][j])
  OBVIOUS
<1>3. \A j \in Slots : conn'[n][u][j].a = "opening" => conn[n][u][j].a = "opening"
  OBVIOUS
<1> QED
  BY <1>1, <1>2, <1>3 DEF RecordInv

(* What Reschedule leaves of the timers. *)
LEMMA RescheduleTypes ==
    ASSUME LinksInv, NEW n \in Nodes, NEW u \in Urls, NEW owned \in BOOLEAN, Reschedule(n, u, owned)
    PROVE  /\ timer' \in [Nodes -> SUBSET Urls]
           /\ u \in timer'[n] <=> owned \/ u \in timer[n]
           /\ \A m \in Nodes, v \in Urls : m # n \/ v # u => (v \in timer'[m] <=> v \in timer[m])
BY DEF Reschedule, LinksInv, TypeInv

LEMMA FaultTypes ==
    ASSUME LinksInv, Fault \/ UNCHANGED faults
    PROVE  faults' \in 0..MaxFaults
BY PeerLinksAssumption DEF Fault, LinksInv, TypeInv

LEMMA ConnectFailsKeeps ==
    ASSUME LinksInv, NEW n \in Nodes, NEW u \in Urls, NEW k \in Slots, ConnectFails(n, u, k)
    PROVE  LinksInv'
<1> DEFINE c == conn[n][u][k]
<1>1. c \in Conns /\ RecordInv(n, u)
  BY DEF LinksInv, TypeInv
<1>2. /\ c.a = "opening" /\ conn' = [conn EXCEPT ![n][u][k] = NoConn]
      /\ Reschedule(n, u, c.owned) /\ UNCHANGED <<running, outbound, socket>>
  BY DEF ConnectFails
<1>3. c.owned \in BOOLEAN
  BY <1>1 DEF Conns
<1>4. faults' \in 0..MaxFaults
  BY FaultTypes DEF ConnectFails
<1>5. ConnBecomes(n, u, k, NoConn) /\ ConnHolds(n, u, NoConn)
  BY <1>2, NoConnIsTyped, ConnChanges DEF LinksInv, ConnHolds
<1>6. conn'[n][u][k] = NoConn /\ \A j \in Slots : j # k => conn'[n][u][j] = conn[n][u][j]
  BY <1>5 DEF ConnBecomes
<1>7. RecordInv(n, u)'
  <2>1. CASE c.owned
    <3>1. Own(c)
      BY <1>2, <2>1 DEF Own
    <3>2. socket[n][u] = 0
      <4>1. socket[n][u] \in Slots \cup {0}
        BY DEF LinksInv, TypeInv
      <4> QED
        BY <1>1, <1>2, <3>1, <4>1 DEF RecordInv
    <3>3. u \in timer'[n]
      BY <1>2, <1>3, <2>1, RescheduleTypes
    <3> QED
      BY <1>2, <1>6, <3>1, <3>2, <3>3, NoConnIsTyped, LettingGo
  <2>2. CASE ~c.owned
    <3>1. ~Own(c)
      BY <2>2 DEF Own
    <3>2. u \in timer'[n] <=> u \in timer[n]
      BY <1>2, <1>3, <2>2, RescheduleTypes
    <3> QED
      BY <1>2, <1>6, <3>1, <3>2, NoConnIsTyped, OthersChange
  <2> QED BY <2>1, <2>2
<1>8. /\ timer' \in [Nodes -> SUBSET Urls] /\ socket' \in [Nodes -> [Urls -> Slots \cup {0}]]
      /\ \A m \in Nodes, v \in Urls : m # n \/ v # u =>
           (v \in timer'[m] <=> v \in timer[m]) /\ socket'[m][v] = socket[m][v]
  BY <1>2, <1>3, RescheduleTypes DEF LinksInv, TypeInv
<1> QED
  BY <1>2, <1>4, <1>5, <1>7, <1>8, OneRecordChanges

LEMMA ClosesAtAKeeps ==
    ASSUME LinksInv, NEW n \in Nodes, NEW u \in Urls, NEW k \in Slots, ClosesAtA(n, u, k)
    PROVE  LinksInv'
<1> DEFINE c == conn[n][u][k]
           d == Gone([c EXCEPT !.a = "none"])
<1>1. c \in Conns /\ RecordInv(n, u) /\ ConnHolds(n, u, c)
  BY DEF LinksInv, TypeInv, ConnInv
<1>2. /\ c.broken /\ c.a # "none" /\ conn' = [conn EXCEPT ![n][u][k] = d]
      /\ socket' = [socket EXCEPT ![n][u] = IF c.owned THEN 0 ELSE @]
      /\ Reschedule(n, u, c.owned) /\ UNCHANGED <<running, outbound, faults>>
  BY DEF ClosesAtA
<1>3. c.owned \in BOOLEAN
  BY <1>1 DEF Conns
<1>4. d \in Conns /\ d.a = "none" /\ (d.b = "open" => c.b = "open" /\ d.broken)
  BY <1>1, <1>2, NoConnIsTyped DEF Gone, Conns
<1>5. ~Own(d)
  BY <1>4 DEF Own
<1> HIDE DEF d
<1>6. ConnBecomes(n, u, k, d) /\ ConnHolds(n, u, d)
  BY <1>1, <1>2, <1>4, ConnChanges DEF LinksInv, ConnHolds
<1>7. conn'[n][u][k] = d /\ \A j \in Slots : j # k => conn'[n][u][j] = conn[n][u][j]
  BY <1>6 DEF ConnBecomes
<1>8. /\ socket' \in [Nodes -> [Urls -> Slots \cup {0}]]
      /\ \A m \in Nodes, v \in Urls :
           socket'[m][v] = IF m = n /\ v = u /\ c.owned THEN 0 ELSE socket[m][v]
  BY <1>2 DEF LinksInv, TypeInv
<1>9. RecordInv(n, u)'
  <2>1. CASE c.owned
    <3>1. Own(c)
      BY <1>2, <2>1 DEF Own
    <3>2. u \in timer'[n] /\ socket'[n][u] = 0
      BY <1>2, <1>3, <1>8, <2>1, RescheduleTypes
    <3> QED
      BY <1>2, <1>5, <1>7, <3>1, <3>2, LettingGo
  <2>2. CASE ~c.owned
    <3>1. ~Own(c)
      BY <2>2 DEF Own
    <3>2. (u \in timer'[n] <=> u \in timer[n]) /\ socket'[n][u] = socket[n][u]
      BY <1>2, <1>3, <1>8, <2>2, RescheduleTypes
    <3> QED
      BY <1>2, <1>4, <1>5, <1>7, <3>1, <3>2, OthersChange
  <2> QED BY <2>1, <2>2
<1>10. /\ timer' \in [Nodes -> SUBSET Urls] /\ faults' \in 0..MaxFaults
       /\ \A m \in Nodes, v \in Urls : m # n \/ v # u =>
            (v \in timer'[m] <=> v \in timer[m]) /\ socket'[m][v] = socket[m][v]
  BY <1>2, <1>3, <1>8, RescheduleTypes DEF LinksInv, TypeInv
<1> QED
  BY <1>2, <1>6, <1>8, <1>9, <1>10, OneRecordChanges

(* A connection that changes and stays as much the record's as it was. *)
LEMMA ConnOnlyChanges ==
    ASSUME LinksInv, NEW n \in Nodes, NEW u \in Urls, NEW k \in Slots, NEW c \in Conns,
           conn' = [conn EXCEPT ![n][u][k] = c], UNCHANGED nodeVars, faults' \in 0..MaxFaults,
           ConnHolds(n, u, c), Own(c) <=> Own(conn[n][u][k]),
           c.a = "opening" => conn[n][u][k].a = "opening"
    PROVE  LinksInv'
<1>1. ConnBecomes(n, u, k, c)
  BY ConnChanges DEF LinksInv
<1>2. UNCHANGED <<running, outbound, timer, socket>>
  BY DEF nodeVars
<1>3. \A m \in Nodes, v \in Urls, j \in Slots :
        /\ Own(conn'[m][v][j]) <=> Own(conn[m][v][j])
        /\ conn'[m][v][j].a = "opening" => conn[m][v][j].a = "opening"
  <2> SUFFICES ASSUME NEW m \in Nodes, NEW v \in Urls, NEW j \in Slots
               PROVE  /\ Own(conn'[m][v][j]) <=> Own(conn[m][v][j])
                      /\ conn'[m][v][j].a = "opening" => conn[m][v][j].a = "opening"
    OBVIOUS
  <2>1. CASE m = n /\ v = u /\ j = k
    BY <1>1, <2>1 DEF ConnBecomes
  <2>2. CASE m # n \/ v # u \/ j # k
    BY <1>1, <2>2 DEF ConnBecomes
  <2> QED BY <2>1, <2>2
<1>4. (\A m \in Nodes, v \in Urls : RecordInv(m, v))'
  BY <1>2, <1>3, RecordsStay
<1>5. ConnInv'
  BY <1>1, <1>2, OneConnChanges
<1>6. TypeInv' /\ NodeInv'
  BY <1>1, <1>2 DEF LinksInv, TypeInv, NodeInv, ConnBecomes
<1> QED
  BY <1>4, <1>5, <1>6 DEF LinksInv

LEMMA ClosesAtBKeeps ==
    ASSUME LinksInv, NEW n \in Nodes, NEW u \in Urls, NEW k \in Slots, ClosesAtB(n, u, k)
    PROVE  LinksInv'
<1> DEFINE c == conn[n][u][k]
           d == Gone([c EXCEPT !.b = "none"])
<1>1. c \in Conns /\ ConnHolds(n, u, c)
  BY DEF LinksInv, TypeInv, ConnInv
<1>2. /\ c.broken /\ conn' = [conn EXCEPT ![n][u][k] = d]
      /\ UNCHANGED <<nodeVars, faults>>
  BY DEF ClosesAtB
<1>3. d \in Conns /\ d.b = "none" /\ (d.a # "none" => d.broken)
  BY <1>1, <1>2, NoConnIsTyped DEF Gone, Conns
<1>4. d.a = c.a /\ (Own(d) <=> Own(c))
  BY <1>1, NoConnIsTyped DEF Gone, Conns, Own
<1> HIDE DEF d
<1>5. ConnHolds(n, u, d)
  BY <1>3 DEF ConnHolds
<1>6. faults' \in 0..MaxFaults
  BY <1>2 DEF LinksInv, TypeInv
<1> QED
  BY <1>2, <1>3, <1>4, <1>5, <1>6, ConnOnlyChanges

LEMMA BreaksKeeps ==
    ASSUME LinksInv, NEW n \in Nodes, NEW u \in Urls, NEW k \in Slots, Breaks(n, u, k)
    PROVE  LinksInv'
<1> DEFINE c == conn[n][u][k]
           d == [c EXCEPT !.broken = TRUE]
<1>1. c \in Conns /\ ConnHolds(n, u, c)
  BY DEF LinksInv, TypeInv, ConnInv
<1>2. Fault /\ UNCHANGED nodeVars /\ conn' = [conn EXCEPT ![n][u][k].broken = TRUE]
  BY DEF Breaks
<1>3. conn' = [conn EXCEPT ![n][u][k] = d]
  BY <1>2
<1>4. d \in Conns /\ d.broken /\ d.a = c.a /\ d.b = c.b /\ d.owned = c.owned
  BY <1>1 DEF Conns
<1> HIDE DEF d
<1>5. ConnHolds(n, u, d) /\ (Own(d) <=> Own(c))
  BY <1>1, <1>4 DEF ConnHolds, Own
<1>6. faults' \in 0..MaxFaults
  BY <1>2, FaultTypes
<1> QED
  BY <1>2, <1>3, <1>4, <1>5, <1>6, ConnOnlyChanges

-----------------------------------------------------------------------------
(* Messages *)

LEMMA SentIsTyped ==
    ASSUME NEW c \in Conns, NEW end \in {"A", "B"}, NEW m \in Messages
    PROVE  /\ Sent(c, end, m) \in Conns
           /\ Sent(c, end, m).a = c.a /\ Sent(c, end, m).b = c.b
           /\ Sent(c, end, m).owned = c.owned /\ Sent(c, end, m).broken = c.broken
<1>1. Append(c.toA, m) \in Seq(Messages) /\ Append(c.toB, m) \in Seq(Messages)
  BY DEF Conns
<1> QED
  BY <1>1 DEF Sent, Conns

LEMMA KnownAreUrls ==
    ASSUME LinksInv, NEW n \in Nodes, NEW m
    PROVE  \A urls \in knownPeerUrls(n, m) : Peers(urls) \in Messages
<1> SUFFICES ASSUME NEW urls \in knownPeerUrls(n, m) PROVE Peers(urls) \in Messages
  OBVIOUS
<1>1. urls \subseteq Urls
  BY DEF knownPeerUrls, ListsOf, Cuts, OwnUrl, InboundUrls, OpenUrls, LinksInv, TypeInv, Urls
<1> QED
  BY <1>1 DEF Peers, Messages, Networks

LEMMA TailIsTyped ==
    ASSUME NEW c \in Conns
    PROVE  /\ c.toA # << >> => /\ [c EXCEPT !.toA = Tail(c.toA)] \in Conns
                               /\ Head(c.toA) \in Messages
           /\ c.toB # << >> => /\ [c EXCEPT !.toB = Tail(c.toB)] \in Conns
                               /\ Head(c.toB) \in Messages
<1>1. c.toA \in Seq(Messages) /\ c.toB \in Seq(Messages)
  BY DEF Conns
<1>2. /\ c.toA # << >> => Tail(c.toA) \in Seq(Messages) /\ Head(c.toA) \in Messages
      /\ c.toB # << >> => Tail(c.toB) \in Seq(Messages) /\ Head(c.toB) \in Messages
  BY <1>1
<1> QED
  BY <1>2 DEF Conns

(* A running node takes in the peers announced over a connection. *)
LEMMA PeersTaken ==
    ASSUME LinksInv, NEW n \in Nodes, NEW u \in Urls, NEW k \in Slots, NEW c \in Conns,
           conn' = [conn EXCEPT ![n][u][k] = c], UNCHANGED <<running, socket, faults>>,
           c.a = conn[n][u][k].a, c.b = conn[n][u][k].b, c.owned = conn[n][u][k].owned,
           c.broken = conn[n][u][k].broken,
           NEW at \in Nodes, running[at], NEW urls, addDiscoveredPeers(at, urls)
    PROVE  LinksInv'
<1>1. ConnHolds(n, u, c)
  BY DEF LinksInv, ConnInv, ConnHolds
<1>2. ConnBecomes(n, u, k, c)
  BY ConnChanges DEF LinksInv
<1>3. ASSUME NEW m \in Nodes, NEW v \in Urls, NEW j \in Slots
      PROVE  /\ Own(conn'[m][v][j]) <=> Own(conn[m][v][j])
             /\ conn'[m][v][j].a = "opening" => conn[m][v][j].a = "opening"
  <2>1. CASE m = n /\ v = u /\ j = k
    BY <1>2, <2>1 DEF ConnBecomes, Own
  <2>2. CASE m # n \/ v # u \/ j # k
    BY <1>2, <2>2 DEF ConnBecomes
  <2> QED BY <2>1, <2>2
<1>4. /\ outbound' \in [Nodes -> SUBSET Urls] /\ timer' \in [Nodes -> SUBSET Urls]
      /\ NodeInv' /\ (\A m \in Nodes, v \in Urls : RecordInv(m, v))'
  BY <1>3, ConnectsKeeps
<1>5. ConnInv'
  BY <1>1, <1>2, OneConnChanges
<1>6. TypeInv'
  BY <1>2, <1>4 DEF LinksInv, TypeInv, ConnBecomes
<1> QED
  BY <1>4, <1>5, <1>6 DEF LinksInv

LEMMA OutboundKeeps ==
    ASSUME LinksInv, NEW n \in Nodes, NEW u \in Urls, NEW k \in Slots, handleOutboundMessage(n, u, k)
    PROVE  LinksInv'
<1> DEFINE c == conn[n][u][k]
           d == [c EXCEPT !.toA = Tail(c.toA)]
           message == Head(c.toA)
<1>1. c \in Conns /\ ConnHolds(n, u, c) /\ RecordInv(n, u)
  BY DEF LinksInv, TypeInv, ConnInv
<1>2. c.a = "open" /\ ~c.broken /\ c.toA # << >> /\ UNCHANGED <<running, faults>>
  BY DEF handleOutboundMessage
<1>3. /\ d \in Conns /\ d.a = c.a /\ d.b = c.b /\ d.owned = c.owned /\ d.broken = c.broken
  BY <1>1, <1>2, TailIsTyped DEF Conns
<1>4. c.owned /\ running[n] /\ Own(c)
  BY <1>1, <1>2 DEF ConnHolds, Own
<1> /\ message.type \in {"hello", "peers"}
  BY <1>1, <1>2, TailIsTyped DEF Messages
<1>5. CASE message.type = "peers"
  <2>1. addDiscoveredPeers(n, message.peers) /\ conn' = [conn EXCEPT ![n][u][k] = d] /\ UNCHANGED socket
    BY <1>5 DEF handleOutboundMessage
  <2> HIDE DEF d, message
  <2> QED
    BY <1>2, <1>3, <1>4, <2>1, PeersTaken
<1>6. CASE message.type # "peers" /\ message.network = Network[n]
  <2>0. PICK urls \in knownPeerUrls(n, u) :
          /\ conn' = [conn EXCEPT ![n][u][k] = Sent(d, "B", Peers(urls))]
          /\ UNCHANGED <<outbound, timer, socket>>
    BY <1>6 DEF handleOutboundMessage
  <2> DEFINE e == Sent(d, "B", Peers(urls))
  <2>1. conn' = [conn EXCEPT ![n][u][k] = e] /\ UNCHANGED <<outbound, timer, socket>>
    BY <2>0
  <2> HIDE DEF d
  <2>2. e \in Conns /\ e.a = c.a /\ e.b = c.b /\ e.owned = c.owned /\ e.broken = c.broken
    BY <1>3, SentIsTyped, KnownAreUrls
  <2> HIDE DEF e
  <2>3. ConnHolds(n, u, e) /\ (Own(e) <=> Own(c)) /\ faults' \in 0..MaxFaults
    BY <1>1, <1>2, <2>2 DEF ConnHolds, Own, LinksInv, TypeInv
  <2> QED
    BY <1>2, <2>1, <2>2, <2>3, ConnOnlyChanges DEF nodeVars
<1>7. CASE message.type # "peers" /\ message.network # Network[n]
  <2> DEFINE e == [d EXCEPT !.broken = TRUE, !.owned = FALSE]
  <2>1. forgetPeer(n, u, k, d)
    BY <1>7 DEF handleOutboundMessage
  <2>2. /\ outbound' = [outbound EXCEPT ![n] = @ \ {u}] /\ timer' = [timer EXCEPT ![n] = @ \ {u}]
        /\ socket' = [socket EXCEPT ![n][u] = 0] /\ conn' = [conn EXCEPT ![n][u][k] = e]
    BY <2>1 DEF forgetPeer
  <2> HIDE DEF d
  <2>3. e \in Conns /\ e.a = "open" /\ e.b = c.b /\ ~e.owned /\ e.broken
    BY <1>2, <1>3 DEF Conns
  <2> HIDE DEF e
  <2>4. ConnHolds(n, u, e) /\ ~Own(e) /\ ConnBecomes(n, u, k, e)
    BY <1>1, <2>2, <2>3, ConnChanges DEF ConnHolds, Own, LinksInv
  <2>5. ConnInv'
    BY <1>2, <2>4, OneConnChanges
  <2>6. \A m \in Nodes, v \in Urls :
          /\ v \in outbound'[m] <=> v \in outbound[m] /\ ~(m = n /\ v = u)
          /\ v \in timer'[m] <=> v \in timer[m] /\ ~(m = n /\ v = u)
          /\ socket'[m][v] = IF m = n /\ v = u THEN 0 ELSE socket[m][v]
    BY <2>2 DEF LinksInv, TypeInv
  <2>7. ASSUME NEW m \in Nodes, NEW v \in Urls PROVE RecordInv(m, v)'
    <3>1. RecordInv(m, v) /\ socket[m][v] \in Slots \cup {0}
      BY DEF LinksInv, TypeInv
    <3>2. CASE m = n /\ v = u
      <4>1. conn'[n][u][k] = e /\ \A j \in Slots : j # k => conn'[n][u][j] = conn[n][u][j]
        BY <2>4 DEF ConnBecomes
      <4>2. \A j \in Slots : ~Own(conn'[n][u][j])
        BY <1>1, <1>4, <2>4, <4>1 DEF RecordInv
      <4> QED
        BY <2>6, <3>2, <4>2, SlotsAreNotZero DEF RecordInv
    <3>3. CASE m # n \/ v # u
      <4>1. \A j \in Slots : conn'[m][v][j] = conn[m][v][j]
        BY <2>4, <3>3 DEF ConnBecomes
      <4>2. /\ v \in outbound'[m] <=> v \in outbound[m]
            /\ v \in timer'[m] <=> v \in timer[m]
            /\ socket'[m][v] = socket[m][v]
        BY <2>6, <3>3
      <4> QED
        BY <3>1, <4>1, <4>2 DEF RecordInv
    <3> QED BY <3>2, <3>3
  <2>8. TypeInv'
    BY <1>2, <2>2, <2>4 DEF LinksInv, TypeInv, ConnBecomes
  <2>9. NodeInv'
    <3> SUFFICES ASSUME NEW m \in Nodes
                 PROVE  /\ ~running[m] => outbound'[m] = {}
                        /\ m \notin outbound'[m] /\ Cardinality(outbound'[m]) <= MAX_PEERS
      BY <1>2 DEF NodeInv
    <3>1. outbound'[m] \subseteq outbound[m] /\ outbound[m] \subseteq Urls
      BY <2>2 DEF LinksInv, TypeInv
    <3>2. /\ ~running[m] => outbound[m] = {}
          /\ m \notin outbound[m] /\ Cardinality(outbound[m]) <= MAX_PEERS
      BY DEF LinksInv, NodeInv
    <3>3. IsFiniteSet(outbound[m])
      BY <3>1, PeerLinksAssumption, FS_Subset
    <3>4. /\ Cardinality(outbound'[m]) <= Cardinality(outbound[m])
          /\ Cardinality(outbound'[m]) \in Nat /\ Cardinality(outbound[m]) \in Nat
      BY <3>1, <3>3, FS_Subset, FS_CardinalityType
    <3> QED
      BY <3>1, <3>2, <3>4, PeerLinksAssumption
  <2> QED
    BY <2>5, <2>7, <2>8, <2>9 DEF LinksInv
<1> QED BY <1>5, <1>6, <1>7

LEMMA InboundKeeps ==
    ASSUME LinksInv, NEW n \in Nodes, NEW u \in Urls, NEW k \in Slots, handleInbound(n, u, k)
    PROVE  LinksInv'
<1> DEFINE c == conn[n][u][k]
           d == [c EXCEPT !.toB = Tail(c.toB)]
           message == Head(c.toB)
<1>1. c \in Conns /\ ConnHolds(n, u, c)
  BY DEF LinksInv, TypeInv, ConnInv
<1>2. c.b = "open" /\ ~c.broken /\ c.toB # << >> /\ UNCHANGED <<running, socket, faults>>
  BY DEF handleInbound
<1>3. /\ d \in Conns /\ d.a = c.a /\ d.b = c.b /\ d.owned = c.owned /\ d.broken = c.broken
  BY <1>1, <1>2, TailIsTyped DEF Conns
<1>4. u \in Nodes /\ running[u]
  BY <1>1, <1>2 DEF ConnHolds
<1>5. faults' \in 0..MaxFaults
  BY <1>2 DEF LinksInv, TypeInv
<1>8. message.type \in {"hello", "peers"}
  BY <1>1, <1>2, TailIsTyped DEF Messages
<1>6. CASE message.type = "peers"
  <2>1. addDiscoveredPeers(u, message.peers) /\ conn' = [conn EXCEPT ![n][u][k] = d]
    BY <1>6 DEF handleInbound
  <2> HIDE DEF d, message
  <2> QED
    BY <1>2, <1>3, <1>4, <2>1, PeersTaken
<1>7. CASE message.type # "peers"
  <2>1. UNCHANGED <<outbound, timer>>
    BY <1>7 DEF handleInbound
  <2>2. CASE message.network = Network[u]
    <3>5. PICK told \in BOOLEAN : told = (n \in Public)
      <4>1. (n \in Public) \in BOOLEAN
        OBVIOUS
      <4> QED
        BY <4>1, Zenon
    <3> DEFINE t == [d EXCEPT !.told = told]
    <3>6. PICK urls \in knownPeerUrls(u, n) :
            conn' = [conn EXCEPT ![n][u][k] = Sent(t, "A", Peers(urls))]
      BY <1>7, <1>8, <2>2, <3>5 DEF handleInbound
    <3> DEFINE e == Sent(t, "A", Peers(urls))
    <3>1. conn' = [conn EXCEPT ![n][u][k] = e]
      BY <3>6
    <3> HIDE DEF d
    <3>2. t \in Conns /\ t.a = c.a /\ t.b = c.b /\ t.owned = c.owned /\ t.broken = c.broken
      BY <1>3 DEF Conns
    <3> HIDE DEF t
    <3>3. e \in Conns /\ e.a = c.a /\ e.b = c.b /\ e.owned = c.owned /\ e.broken = c.broken
      BY <1>4, <3>2, SentIsTyped, KnownAreUrls
    <3> HIDE DEF e
    <3>4. ConnHolds(n, u, e) /\ (Own(e) <=> Own(c))
      BY <1>1, <3>3 DEF ConnHolds, Own
    <3> QED
      BY <1>2, <1>5, <2>1, <3>1, <3>3, <3>4, ConnOnlyChanges DEF nodeVars
  <2>3. CASE message.network # Network[u]
    <3> DEFINE e == [d EXCEPT !.broken = TRUE]
    <3>1. conn' = [conn EXCEPT ![n][u][k] = e]
      BY <1>7, <2>3 DEF handleInbound
    <3> HIDE DEF d
    <3>2. e \in Conns /\ e.a = c.a /\ e.b = c.b /\ e.owned = c.owned /\ e.broken
      BY <1>3 DEF Conns
    <3> HIDE DEF e
    <3>3. ConnHolds(n, u, e) /\ (Own(e) <=> Own(c))
      BY <1>1, <3>2 DEF ConnHolds, Own
    <3> QED
      BY <1>2, <1>5, <2>1, <3>1, <3>2, <3>3, ConnOnlyChanges DEF nodeVars
  <2> QED BY <2>2, <2>3
<1> QED BY <1>6, <1>7

-----------------------------------------------------------------------------
(* Nodes that stop and start *)

LEMMA StopKeeps ==
    ASSUME LinksInv, NEW n \in Nodes, stop(n)
    PROVE  LinksInv'
<1> DEFINE after(m, u, c) ==
             IF c = NoConn \/ n \notin {m, u} THEN c
             ELSE IF n = m THEN Gone([c EXCEPT !.a = "none", !.owned = FALSE, !.broken = TRUE])
             ELSE IF c.a = "opening" THEN c
             ELSE Gone([c EXCEPT !.b = "none", !.broken = TRUE])
<1>1. /\ running' = [running EXCEPT ![n] = FALSE]
      /\ outbound' = [outbound EXCEPT ![n] = {}] /\ timer' = [timer EXCEPT ![n] = {}]
      /\ socket' = [socket EXCEPT ![n] = [u \in Urls |-> 0]]
      /\ conn' = [m \in Nodes |-> [u \in Urls |-> [k \in Slots |-> after(m, u, conn[m][u][k])]]]
  BY DEF stop
<1>2. faults' \in 0..MaxFaults
  BY FaultTypes DEF stop
<1>3. ASSUME NEW m \in Nodes, NEW u \in Urls, NEW c \in Conns, ConnHolds(m, u, c)
      PROVE  /\ after(m, u, c) \in Conns
             /\ m = n => ~Own(after(m, u, c))
             /\ m # n => (Own(after(m, u, c)) <=> Own(c))
             /\ after(m, u, c).a = "opening" => c.a = "opening"
             /\ ConnHolds(m, u, after(m, u, c))'
  <2>1. CASE c = NoConn \/ n \notin {m, u}
    <3>1. after(m, u, c) = c
      BY <2>1
    <3>2. m = n => c = NoConn
      BY <2>1
    <3>3. c = NoConn => ConnHolds(m, u, c)'
      BY NoConnIsTyped DEF ConnHolds
    <3>4. n \notin {m, u} => ConnHolds(m, u, c)'
      BY <1>1, <1>3 DEF ConnHolds, LinksInv, TypeInv
    <3>5. ConnHolds(m, u, c)'
      BY <2>1, <3>3, <3>4
    <3> HIDE DEF after
    <3> QED
      BY <3>1, <3>2, <3>5, NoConnIsTyped
  <2>2. CASE c # NoConn /\ n = m
    <3> DEFINE d == [c EXCEPT !.a = "none", !.owned = FALSE, !.broken = TRUE]
    <3>1. after(m, u, c) = Gone(d)
      BY <2>2
    <3>2. d \in Conns /\ d.a = "none" /\ d.b = c.b /\ d.broken
      BY DEF Conns
    <3> HIDE DEF after, d
    <3>3. Gone(d) \in Conns /\ Gone(d).a = "none" /\ (Gone(d).b = "open" => d.b = "open" /\ Gone(d).broken)
      BY <3>2, NoConnIsTyped DEF Gone
    <3>4. ConnHolds(m, u, Gone(d))'
      BY <1>3, <3>2, <3>3 DEF ConnHolds
    <3> QED
      BY <2>2, <3>1, <3>3, <3>4 DEF Own
  <2>3. CASE c # NoConn /\ n = u /\ n # m /\ c.a = "opening"
    <3>1. after(m, u, c) = c
      BY <2>3
    <3> QED
      BY <1>1, <1>3, <2>3, <3>1 DEF ConnHolds, LinksInv, TypeInv, Own
  <2>4. CASE c # NoConn /\ n = u /\ n # m /\ c.a # "opening"
    <3> DEFINE d == [c EXCEPT !.b = "none", !.broken = TRUE]
    <3>1. after(m, u, c) = Gone(d)
      BY <2>4
    <3>2. d \in Conns /\ d.a = c.a /\ d.b = "none" /\ d.broken /\ d.owned = c.owned
      BY DEF Conns
    <3> HIDE DEF after, d
    <3>3. Gone(d) \in Conns /\ Gone(d).a = c.a /\ Gone(d).b = "none" /\ (c.a # "none" => Gone(d) = d)
      BY <3>2, NoConnIsTyped DEF Gone
    <3>4. ConnHolds(m, u, Gone(d))'
      BY <3>2, <3>3 DEF ConnHolds
    <3>5. Own(Gone(d)) <=> Own(c)
      BY <3>2, <3>3 DEF Own
    <3> QED
      BY <2>4, <3>1, <3>3, <3>4, <3>5
  <2> HIDE DEF after
  <2> QED BY <2>1, <2>2, <2>3, <2>4
<1> HIDE DEF after
<1>4. \A m \in Nodes, u \in Urls, k \in Slots :
        conn[m][u][k] \in Conns /\ ConnHolds(m, u, conn[m][u][k])
  BY DEF LinksInv, TypeInv, ConnInv
<1>5. \A m \in Nodes, u \in Urls, k \in Slots : conn'[m][u][k] = after(m, u, conn[m][u][k])
  BY <1>1
<1>6. conn' \in [Nodes -> [Urls -> [Slots -> Conns]]]
  BY <1>1, <1>3, <1>4
<1>7. TypeInv'
  BY <1>1, <1>2, <1>6 DEF LinksInv, TypeInv
<1>8. ConnInv'
  BY <1>3, <1>4, <1>5 DEF ConnInv, ConnHolds
<1>9. \A m \in Nodes : /\ outbound'[m] = IF m = n THEN {} ELSE outbound[m]
                       /\ timer'[m] = IF m = n THEN {} ELSE timer[m]
                       /\ running'[m] = IF m = n THEN FALSE ELSE running[m]
                       /\ socket'[m] = IF m = n THEN [u \in Urls |-> 0] ELSE socket[m]
  BY <1>1 DEF LinksInv, TypeInv
<1>10. NodeInv'
  <2>1. Cardinality({}) <= MAX_PEERS
    BY FS_EmptySet, PeerLinksAssumption
  <2> QED
    BY <1>9, <2>1 DEF LinksInv, NodeInv
<1>11. ASSUME NEW m \in Nodes, NEW u \in Urls PROVE RecordInv(m, u)'
  <2>1. RecordInv(m, u) /\ socket[m][u] \in Slots \cup {0}
    BY DEF LinksInv, TypeInv
  <2>2. CASE m = n
    <3>1. \A k \in Slots : ~Own(conn'[m][u][k])
      BY <1>3, <1>4, <1>5, <2>2
    <3>2. u \notin outbound'[m] /\ u \notin timer'[m] /\ socket'[m][u] = 0
      BY <1>9, <2>2
    <3> QED
      BY <3>1, <3>2, SlotsAreNotZero DEF RecordInv
  <2>3. CASE m # n
    <3>1. \A k \in Slots : /\ Own(conn'[m][u][k]) <=> Own(conn[m][u][k])
                           /\ conn'[m][u][k].a = "opening" => conn[m][u][k].a = "opening"
      BY <1>3, <1>4, <1>5, <2>3
    <3>2. outbound'[m] = outbound[m] /\ timer'[m] = timer[m] /\ socket'[m] = socket[m]
      BY <1>9, <2>3
    <3> QED
      BY <2>1, <3>1, <3>2 DEF RecordInv
  <2> QED BY <2>2, <2>3
<1> QED
  BY <1>7, <1>8, <1>10, <1>11 DEF LinksInv

(* A node that starts has a timer for every seed: it had no record left. *)
LEMMA StartKeeps ==
    ASSUME LinksInv, NEW n \in Nodes, start(n)
    PROVE  LinksInv'
<1>1. /\ ~running[n] /\ running' = [running EXCEPT ![n] = TRUE]
      /\ outbound' = [outbound EXCEPT ![n] = Seeds[n]] /\ timer' = [timer EXCEPT ![n] = Seeds[n]]
      /\ UNCHANGED <<socket, conn, faults>>
  BY DEF start
<1>2. TypeInv'
  BY <1>1, PeerLinksAssumption DEF LinksInv, TypeInv
<1>3. \A m \in Nodes : /\ outbound'[m] = IF m = n THEN Seeds[n] ELSE outbound[m]
                       /\ timer'[m] = IF m = n THEN Seeds[n] ELSE timer[m]
                       /\ running'[m] = IF m = n THEN TRUE ELSE running[m]
  BY <1>1 DEF LinksInv, TypeInv
<1>4. NodeInv'
  BY <1>3, PeerLinksAssumption DEF LinksInv, NodeInv
<1>5. ConnInv'
  <2> SUFFICES ASSUME NEW m \in Nodes, NEW u \in Urls, NEW k \in Slots
               PROVE  ConnHolds(m, u, conn[m][u][k])'
    BY DEF ConnInv
  <2>1. ConnHolds(m, u, conn[m][u][k])
    BY DEF LinksInv, ConnInv
  <2> QED
    BY <1>1, <1>3, <2>1 DEF ConnHolds
<1>6. ASSUME NEW m \in Nodes, NEW u \in Urls PROVE RecordInv(m, u)'
  <2>1. RecordInv(m, u) /\ socket[m][u] \in Slots \cup {0}
    BY DEF LinksInv, TypeInv
  <2>2. m = n => outbound[m] = {}
    BY <1>1 DEF LinksInv, NodeInv
  <2>3. CASE m = n
    <3>1. \A k \in Slots : ~Own(conn[m][u][k])
      BY <2>1, <2>2, <2>3 DEF RecordInv
    <3>2. socket[m][u] = 0
      BY <2>1, <3>1 DEF RecordInv
    <3>3. u \in outbound'[m] <=> u \in timer'[m]
      BY <1>3, <2>3
    <3>4. \A k \in Slots : ~Own(conn'[m][u][k])
      BY <1>1, <3>1
    <3> QED
      BY <1>1, <3>2, <3>3, <3>4, SlotsAreNotZero DEF RecordInv
  <2>4. CASE m # n
    BY <1>1, <1>3, <2>1, <2>4 DEF RecordInv
  <2> QED BY <2>3, <2>4
<1> QED
  BY <1>2, <1>4, <1>5, <1>6 DEF LinksInv

-----------------------------------------------------------------------------
(* The invariant of the specification *)

LEMMA InitLinks == Init => LinksInv
<1> SUFFICES ASSUME Init PROVE LinksInv
  OBVIOUS
<1>1. \A n \in Nodes, u \in Urls, k \in Slots : conn[n][u][k] = NoConn /\ socket[n][u] = 0
  BY DEF Init
<1>2. TypeInv
  BY PeerLinksAssumption, NoConnIsTyped DEF Init, TypeInv
<1>3. ConnInv
  BY <1>1, NoConnIsTyped DEF ConnInv, ConnHolds
<1>4. NodeInv
  BY PeerLinksAssumption DEF Init, NodeInv
<1>5. \A n \in Nodes, u \in Urls : RecordInv(n, u)
  BY <1>1, NoConnIsTyped DEF Init, RecordInv
<1> QED
  BY <1>2, <1>3, <1>4, <1>5 DEF LinksInv

LEMMA StepLinks == LinksInv /\ [Next]_vars => LinksInv'
<1> SUFFICES ASSUME LinksInv, [Next]_vars PROVE LinksInv'
  OBVIOUS
<1>1. ASSUME NEW n \in Nodes, NEW u \in Urls, openOutbound(n, u) PROVE LinksInv'
  BY <1>1, OpenKeeps
<1>2. ASSUME NEW n \in Nodes, NEW u \in Urls, NEW k \in Slots, ConnSteps(n, u, k) PROVE LinksInv'
  BY <1>2, OpensKeeps, ConnectFailsKeeps, OutboundKeeps, InboundKeeps, ClosesAtAKeeps, ClosesAtBKeeps
     DEF ConnSteps
<1>3. ASSUME NEW n \in Nodes, NEW u \in Urls, NEW k \in Slots, Breaks(n, u, k) PROVE LinksInv'
  BY <1>3, BreaksKeeps
<1>4. ASSUME NEW n \in Nodes, stop(n) \/ start(n) PROVE LinksInv'
  BY <1>4, StopKeeps, StartKeeps
<1>5. CASE UNCHANGED vars
  <2>1. UNCHANGED <<running, outbound, timer, socket, conn, faults>>
    BY <1>5 DEF vars, nodeVars
  <2> QED
    BY <2>1 DEF LinksInv, TypeInv, ConnInv, ConnHolds, NodeInv, RecordInv
<1> QED
  BY <1>1, <1>2, <1>3, <1>4, <1>5 DEF Next

LEMMA LinksInvariant == Spec => []LinksInv
<1> QED
  BY InitLinks, StepLinks, PTL DEF Spec

-----------------------------------------------------------------------------
(* Theorems *)

(* connect(), openOutbound(), the close listener and forgetPeer keep for every peer record
   either its reconnect timer or exactly one connection, the one its socket is, in any
   network, with any number of broken links and restarts. *)
THEOREM OneAttempt == Spec => []OneAttemptPerPeer
<1>1. LinksInv => OneAttemptPerPeer
  <2> SUFFICES ASSUME LinksInv, NEW n \in Nodes, NEW u \in outbound[n]
               PROVE  IF u \in timer[n] THEN Owned(n, u) = {} /\ socket[n][u] = 0
                      ELSE Cardinality(Owned(n, u)) = 1 /\ socket[n][u] \in Owned(n, u) \cup {0}
    BY DEF OneAttemptPerPeer
  <2>1. u \in Urls
    BY DEF LinksInv, TypeInv
  <2>2. RecordInv(n, u) /\ socket[n][u] \in Slots \cup {0}
    BY <2>1 DEF LinksInv, TypeInv
  <2>3. \A k \in Slots : k \in Owned(n, u) <=> Own(conn[n][u][k])
    BY DEF Owned, Own
  <2>4. CASE u \in timer[n]
    BY <2>2, <2>3, <2>4 DEF RecordInv, Owned
  <2>5. CASE u \notin timer[n]
    <3>1. PICK k \in Slots : Own(conn[n][u][k])
      BY <2>2, <2>5 DEF RecordInv
    <3>2. Owned(n, u) = {k}
      BY <2>2, <2>3, <3>1 DEF RecordInv, Owned
    <3>3. Cardinality(Owned(n, u)) = 1
      BY <3>2, FS_Singleton
    <3>4. socket[n][u] \in Owned(n, u) \cup {0}
      BY <2>2, <2>3 DEF RecordInv
    <3> QED
      BY <2>5, <3>3, <3>4
  <2> QED BY <2>4, <2>5
<1> QED
  BY <1>1, LinksInvariant, PTL

(* A node never has more than MAX_PEERS records or one of itself, its timers and sockets
   are those of its records, and no connection of a forgotten record is still its own. *)
THEOREM RecordsStaySound == Spec => []RecordsAreSound
<1>1. LinksInv => RecordsAreSound
  <2> SUFFICES ASSUME LinksInv, NEW n \in Nodes
               PROVE  /\ Cardinality(outbound[n]) <= MAX_PEERS /\ n \notin outbound[n]
                      /\ timer[n] \subseteq outbound[n]
                      /\ \A u \in Urls :
                           /\ socket[n][u] # 0 => u \in outbound[n] /\ socket[n][u] \in Owned(n, u)
                           /\ Owned(n, u) # {} => u \in outbound[n]
    BY DEF RecordsAreSound
  <2>1. Cardinality(outbound[n]) <= MAX_PEERS /\ n \notin outbound[n]
    BY DEF LinksInv, NodeInv
  <2>2. timer[n] \subseteq outbound[n]
    BY DEF LinksInv, TypeInv, RecordInv
  <2>3. ASSUME NEW u \in Urls
        PROVE  /\ socket[n][u] # 0 => u \in outbound[n] /\ socket[n][u] \in Owned(n, u)
               /\ Owned(n, u) # {} => u \in outbound[n]
    <3>1. RecordInv(n, u) /\ socket[n][u] \in Slots \cup {0}
      BY DEF LinksInv, TypeInv
    <3>2. \A k : k \in Owned(n, u) <=> k \in Slots /\ Own(conn[n][u][k])
      BY DEF Owned, Own
    <3> QED
      BY <3>1, <3>2 DEF RecordInv
  <2> QED BY <2>1, <2>2, <2>3
<1> QED
  BY <1>1, LinksInvariant, PTL

(* The connections that are open at an end belong to running nodes, and every variable
   stays within its type. *)
THEOREM LinksAreTyped == Spec => []TypeOK
<1>1. LinksInv => TypeOK
  <2>1. ASSUME LinksInv, NEW n \in Nodes, NEW u \in Urls, NEW k \in Slots
        PROVE  /\ conn[n][u][k].a \in {"none", "opening", "open"}
               /\ conn[n][u][k].b \in {"none", "open"}
               /\ \A f \in {"owned", "told", "broken"} : conn[n][u][k][f] \in BOOLEAN
    <3>1. conn[n][u][k] \in Conns
      BY <2>1 DEF LinksInv, TypeInv
    <3> QED
      BY <3>1 DEF Conns
  <2> QED
    BY <2>1 DEF LinksInv, TypeInv, TypeOK
<1> QED
  BY <1>1, LinksInvariant, PTL
=============================================================================
