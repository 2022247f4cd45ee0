------------------------------ MODULE MCForks ------------------------------
(***************************************************************************)
(* Competing branches: empty blocks up to height 4, told apart by their    *)
(* timestamps, and malformed or mispriced variants of the lower ones.      *)
(***************************************************************************)
EXTENDS Chain, MCBlocks

CONSTANT
  TimeSteps             \* seconds a block may be younger than its parent

WithCoinbase(block, coinbase) ==
  [block EXCEPT !.coinbase = coinbase,
     !.header.merkleRoot = calculateMerkleRoot(block.header.height, coinbase, <<>>)]

\* One way each of breaking a rule of addBlock.
Malformed(block) ==
  { [block EXCEPT !.header.version = 2],
    [block EXCEPT !.header.height = 0],
    [block EXCEPT !.header.height = block.header.height + 1],
    [block EXCEPT !.header.difficulty = 1],
    [block EXCEPT !.header.merkleRoot = NoHash],
    [block EXCEPT !.header.payoutAddress = "thief"],
    [block EXCEPT !.header.previousHash = block],
    [block EXCEPT !.proven = FALSE],
    [block EXCEPT !.header.powSeed = NoHash],
    WithCoinbase(block, Coinbase(PHASE_1_REWARD + 1)) }

Children(parents) ==
  {block \in {Mine(parent, step, Miner, <<>>) : parent \in parents, step \in TimeSteps} :
     block.header.timestampSeconds >= 0}

Height1 == Children({createGenesisBlock})
Height2 == Children(Height1)
Height3 == Children(Height2)

ForkBlocks ==
  UNION {Height1, Height2, Height3, Children(Height3),
         UNION {Malformed(block) : block \in Height1 \cup Height2}}

\* Steps that go back, meet the target and miss it by far.
BackwardSteps == {-2, 2, 12}

MCAddresses == {Miner}

=============================================================================
