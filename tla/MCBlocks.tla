------------------------------- MODULE MCBlocks ------------------------------
(***************************************************************************)
(* Shared by the instances for TLC: a block as a miner builds it.          *)
(***************************************************************************)
EXTENDS Consensus

RECURSIVE PathTo(_)
PathTo(block) ==
  IF block.header.height = 0 THEN <<block>>
  ELSE Append(PathTo(block.header.previousHash), block)

HeadersOf(path) ==
  [i \in DOMAIN LastOf(LWMA_WINDOW, path) |-> LastOf(LWMA_WINDOW, path)[i].header]

\* A block as a miner builds it on parent.
Mine(parent, seconds, miner, transactions) ==
  LET height   == parent.header.height + 1
      path     == PathTo(parent)
      coinbase == [outputs |-> <<[address |-> miner, amount |-> PHASE_1_REWARD]>>]
  IN  [header |->
        [version |-> PROTOCOL_VERSION, height |-> height, previousHash |-> parent,
         timestampSeconds |-> parent.header.timestampSeconds + seconds,
         difficulty |-> nextLwmaDifficulty(HeadersOf(path)),
         merkleRoot |-> calculateMerkleRoot(height, coinbase, transactions),
         powSeed |-> path[expectedSeedHeight(height) + 1],
         payoutAddress |-> miner],
       nonce |-> 0, coinbase |-> coinbase, transactions |-> transactions, proven |-> TRUE]

Miner == "miner"
Coinbase(amount) == [outputs |-> <<[address |-> Miner, amount |-> amount]>>]

=============================================================================
