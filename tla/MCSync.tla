------------------------------- MODULE MCSync -------------------------------
(***************************************************************************)
(* Two nodes that mined apart and sync from each other, and a miner, a     *)
(* relay and a laggard in a line.                                          *)
(***************************************************************************)
EXTENDS BlockSync, TLC

Pair ==
  [peers |-> ("a" :> <<"b">>) @@ ("b" :> <<"a">>) @@ ("c" :> <<>>),
   miners |-> {"a", "b"}, mineWhileLinked |-> FALSE, maxHeight |-> 4, sharedHeights |-> {0, 1, 2},
   locateMaxHashes |-> 3, blocksPageSize |-> 2, maxBlocksPerRun |-> 5]

Line ==
  [peers |-> ("a" :> <<"b">>) @@ ("b" :> <<"a", "c">>) @@ ("c" :> <<"b">>),
   miners |-> {"c"}, mineWhileLinked |-> TRUE, maxHeight |-> 3, sharedHeights |-> {0},
   locateMaxHashes |-> 2, blocksPageSize |-> 1, maxBlocksPerRun |-> 2]

MCNetworks == {Pair, Line}

=============================================================================
