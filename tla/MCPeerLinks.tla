---------------------------- MODULE MCPeerLinks ----------------------------
(* A public seed s, a public node a, a private node b and a node x of another network. *)
EXTENDS PeerLinks, TLC

CONSTANTS s, a, b, x
MCSeeds == [n \in Nodes |-> CASE n = a -> {s} [] n = b -> {s} [] n = x -> {s} [] OTHER -> {}]
MCFaultyLinks == {<<b, s>>}
MCNetwork == [n \in Nodes |-> IF n = x THEN "other" ELSE "edgex"]
=============================================================================
