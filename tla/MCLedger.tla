------------------------------ MODULE MCLedger ------------------------------
(***************************************************************************)
(* Branches that carry transactions: every block one second after its      *)
(* parent, with a body out of a small set.  With a maturity of two the     *)
(* first subsidy can be spent from height 3 and the second from height 4.  *)
(***************************************************************************)
EXTENDS WalletQueries, MCBlocks

User == "user"

Spend(outpoint, sender, receiver, amount, fee) ==
  [inputs |-> <<outpoint>>, outputs |-> <<[address |-> receiver, amount |-> amount]>>,
   fee |-> fee, sender |-> sender, signed |-> TRUE]

SubsidyAt(height) ==
  [txid |-> [height |-> height, outputs |-> Coinbase(PHASE_1_REWARD).outputs], index |-> 1]

\* Two rival payments out of the first subsidy, and one out of the second.
PayUser == Spend(SubsidyAt(1), Miner, User, PHASE_1_REWARD - 1, 1)
PayBack == Spend(SubsidyAt(1), Miner, Miner, PHASE_1_REWARD - 2, 2)
PayNext == Spend(SubsidyAt(2), Miner, User, PHASE_1_REWARD - 3, 3)
\* A payment of what PayUser pays, and transactions that break a rule each.
PayOn   == Spend([txid |-> PayUser, index |-> 1], User, Miner, PHASE_1_REWARD - 2, 1)
Inflate == Spend(SubsidyAt(1), Miner, User, PHASE_1_REWARD + 1, 1)
Steal   == Spend(SubsidyAt(1), User, User, PHASE_1_REWARD - 1, 1)
Unsigned == [PayUser EXCEPT !.signed = FALSE]

Bodies ==
  {<<>>, <<PayUser>>, <<PayBack>>, <<PayUser, PayNext>>, <<PayNext>>, <<PayOn>>,
   <<Inflate>>, <<Steal>>, <<Unsigned>>, <<PayUser, PayUser>>}

Children(parents, bodies) ==
  {Mine(parent, 1, Miner, body) : parent \in parents, body \in bodies}

\* A rival first block mines the first subsidy to someone else.
Height1 == Children({createGenesisBlock}, {<<>>}) \cup {Mine(createGenesisBlock, 1, User, <<>>)}
Height2 == Children(Height1, {<<>>, <<PayUser>>})
Height3 == Children(Height2, Bodies)

LedgerBlocks == UNION {Height1, Height2, Height3, Children(Height3, Bodies)}

\* The same, with a block that holds both rival payments.
ConflictBlocks == LedgerBlocks \cup Children(Height2, {<<PayUser, PayBack>>})

MCAddresses == {Miner, User}

\* A wallet of each, and one of both.
MCWallets == {<<Miner>>, <<User>>, <<Miner, User>>, <<User, Miner>>}

=============================================================================
