-------------------------------- MODULE MCNode -------------------------------
(***************************************************************************)
(* A node with two miners and a peer that offers a few blocks.  With a     *)
(* maturity of one the first subsidy can be spent from height 2, and a     *)
(* payment of it can wait in the mempool from then on.                     *)
(***************************************************************************)
EXTENDS NodeService, MCBlocks

User == "user"

Spend(outpoint, receiver, amount, fee) ==
  [inputs |-> <<outpoint>>, outputs |-> <<[address |-> receiver, amount |-> amount]>>,
   fee |-> fee, sender |-> Miner, signed |-> TRUE]

FirstSubsidy ==
  [txid |-> [height |-> 1, outputs |-> Coinbase(PHASE_1_REWARD).outputs], index |-> 1]

\* Two rival payments out of the first subsidy, and one nobody can make.
PayUser == Spend(FirstSubsidy, User, PHASE_1_REWARD - 1, 1)
PayBack == Spend(FirstSubsidy, Miner, PHASE_1_REWARD - 2, 2)
Forged  == [PayUser EXCEPT !.sender = User]

First  == Mine(createGenesisBlock, 1, Miner, <<>>)
Second == Mine(First, 1, Miner, <<>>)
Rival  == Mine(First, 1, User, <<PayUser>>)

PeerBlocks == {First, Second, Rival}

MCTransactions == {PayUser, PayBack, Forged}
NoTransactions == {}
MCSockets == <<"s1", "s2">>
OneSocket == <<"s1">>
MCAddresses == {Miner, User}

=============================================================================
