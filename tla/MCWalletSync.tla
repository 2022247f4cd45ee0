---------------------------- MODULE MCWalletSync ----------------------------
(* A tree of blocks for WalletSync: a chain a1..a3 and a chain b1..b4 above the same
   genesis that can take over at a lower height, at the same one or at a higher one. *)
EXTENDS WalletSync

CONSTANTS g, a1, a2, a3, b1, b2, b3, b4, me, change, you

MCBlocks == {g, a1, a2, a3, b1, b2, b3, b4}
MCHeight == (g :> 0) @@ (a1 :> 1) @@ (a2 :> 2) @@ (a3 :> 3)
                @@ (b1 :> 1) @@ (b2 :> 2) @@ (b3 :> 3) @@ (b4 :> 4)
MCParent == (g :> NoBlock) @@ (a1 :> g) @@ (a2 :> a1) @@ (a3 :> a2)
                @@ (b1 :> g) @@ (b2 :> b1) @@ (b3 :> b2) @@ (b4 :> b3)
MCChainOf == [b \in MCBlocks |->
                 LET Below[c \in MCBlocks] ==
                         IF c = g THEN {g} ELSE {c} \cup Below[MCParent[c]]
                 IN  Below[b]]
MCWork == (g :> 0) @@ (a1 :> 1) @@ (a2 :> 2) @@ (b1 :> 3) @@ (a3 :> 4)
              @@ (b2 :> 5) @@ (b3 :> 6) @@ (b4 :> 7)

Tx(id, inputs, addresses) ==
    [id |-> id, type |-> IF inputs = << >> THEN "mining" ELSE "transfer", inputs |-> inputs,
     outputs |-> [i \in DOMAIN addresses |-> [address |-> addresses[i]]]]

(* One of two outputs of a reward is spent with change, the change is spent in a3; on the
   other chain a reward is spent in b2 and b4 pays the wallet again. *)
MCTransactions ==
    (g  :> << >>)
 @@ (a1 :> <<Tx("reward1", << >>, <<me, me>>)>>)
 @@ (a2 :> <<Tx("reward2", << >>, <<you>>), Tx("pay", <<<<"reward1", 1>>>>, <<you, change>>)>>)
 @@ (a3 :> <<Tx("spend", <<<<"pay", 2>>>>, <<you>>)>>)
 @@ (b1 :> <<Tx("other1", << >>, <<me>>)>>)
 @@ (b2 :> <<Tx("instead", <<<<"other1", 1>>>>, <<you, me>>)>>)
 @@ (b3 :> <<Tx("other3", << >>, <<change>>)>>)
 @@ (b4 :> <<Tx("gift", <<<<"instead", 1>>>>, <<me>>)>>)
=============================================================================
