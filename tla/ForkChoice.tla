----------------------------- MODULE ForkChoice -----------------------------
(***************************************************************************)
(* What the consensus chain promises its users, without saying how: it     *)
(* knows a growing tree of nodes whose weight grows from parent to child,  *)
(* and its head is a heaviest node, moving only when it learns one that    *)
(* outweighs everything it knew.                                           *)
(***************************************************************************)
EXTENDS Integers

CONSTANTS
  Parent(_),            \* the node a node extends
  Root                  \* where every tree starts

VARIABLES
  weight,               \* known node -> weight
  head

Init ==
  /\ DOMAIN weight = {Root}
  /\ head = Root

\* A node is learnt under a known parent; everything known keeps its weight.
Learn(node) ==
  /\ node \notin DOMAIN weight
  /\ Parent(node) \in DOMAIN weight
  /\ DOMAIN weight' = DOMAIN weight \cup {node}
  /\ \A known \in DOMAIN weight : weight'[known] = weight[known]
  /\ weight'[node] > weight[Parent(node)]

Heaviest(node) == \A known \in DOMAIN weight : weight[known] < weight'[node]

Next ==
  \E node \in DOMAIN weight' :
    /\ Learn(node)
    /\ \/ Heaviest(node) /\ head' = node
       \/ ~Heaviest(node) /\ UNCHANGED head

Spec == Init /\ [][Next]_<<weight, head>>

=============================================================================
