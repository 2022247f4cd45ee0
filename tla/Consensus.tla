------------------------------ MODULE Consensus ------------------------------
(***************************************************************************)
(* The rules of ConsensusChain, packages/core/src/chain.ts, as operators   *)
(* on a tree of validated blocks: a function from the hash of a block to   *)
(* its entry [state, totalWork].                                           *)
(*                                                                         *)
(* Hashes are injective, so a block is its own hash: a block is a record   *)
(*   [header, nonce, coinbase, transactions, proven]                       *)
(* whose header.previousHash is the parent block itself, header.merkleRoot *)
(* what calculateMerkleRoot commits to and header.powSeed a block; proven  *)
(* tells whether the claimed hash is the RandomX hash of the mining blob   *)
(* and meets the target.                                                   *)
(***************************************************************************)
EXTENDS Ledger, Difficulty, FiniteSets

CONSTANTS
  NoHash,               \* the all-zero hash
  PROTOCOL_VERSION,
  GENESIS_TIMESTAMP_SECONDS,
  MS_PER_SECOND,        \* clock units in a second of a timestamp
  TIMESTAMP_FUTURE_TOLERANCE_MS,
  MAX_BLOCK_BODY_BYTES,
  ADDRESS_CHARS         \* characters of an address

ASSUME ConsensusAssumption ==
  /\ GENESIS_TIMESTAMP_SECONDS \in Nat
  /\ MS_PER_SECOND \in Nat \ {0}
  /\ TIMESTAMP_FUTURE_TOLERANCE_MS \in Nat

-----------------------------------------------------------------------------
\* The parts of a block.

calculateMerkleRoot(height, coinbase, transactions) ==
  [height |-> height, coinbase |-> coinbase, txids |-> transactions]

createGenesisBlock ==
  [header |-> [version |-> PROTOCOL_VERSION, height |-> 0, previousHash |-> NoHash,
               timestampSeconds |-> GENESIS_TIMESTAMP_SECONDS,
               difficulty |-> INITIAL_DIFFICULTY, merkleRoot |-> NoHash,
               powSeed |-> NoHash, payoutAddress |-> NoHash],
   nonce |-> 0, coinbase |-> NoCoinbase, transactions |-> <<>>, proven |-> FALSE]

\* What the encoding lets a block say of itself: serializeHeader throws on
\* anything else, before the proof of work can be checked.
IsWellFormed(block) ==
  /\ block.header.height \in Nat
  /\ block.header.timestampSeconds \in Nat
  /\ block.header.difficulty \in Nat \ {0}
  /\ block.coinbase # NoCoinbase => block.coinbase.outputs \in Seq(Range(block.coinbase.outputs))
  /\ block.transactions \in Seq(Range(block.transactions))
  /\ \A tx \in Range(block.transactions) : IsTransaction(tx)

serializedBlockBodyLength(block) ==
  4 + SumFunction([i \in DOMAIN block.transactions |->
        LET tx == block.transactions[i]
        IN  142 + 36 * Len(tx.inputs) + (9 + ADDRESS_CHARS) * Len(tx.outputs)])

-----------------------------------------------------------------------------
\* Reading the tree.

\* Blocks from genesis (or the first block whose parent is missing) to hash.
ancestry(tree, hash) ==
  LET path[block \in DOMAIN tree] ==
        IF block.header.height = 0 \/ block.header.previousHash \notin DOMAIN tree
        THEN <<block>>
        ELSE Append(path[block.header.previousHash], block)
  IN  IF hash \in DOMAIN tree THEN path[hash] ELSE <<>>

ancestor(tree, hash, height) == ancestry(tree, hash)[height + 1]

recentSummaries(tree, hash) ==
  LET recent == LastOf(LWMA_WINDOW, ancestry(tree, hash))
  IN  [i \in DOMAIN recent |-> recent[i].header]

medianTimePast(tree, hash) ==
  LET recent == LastOf(MEDIAN_SPAN, ancestry(tree, hash))
  IN  medianOf([i \in DOMAIN recent |-> recent[i].header.timestampSeconds])

\* Throws, through the retarget, unless LwmaIsDefined for the best block.
nextConsensusData(tree, bestHash) ==
  LET height == bestHash.header.height + 1
  IN  [height     |-> height,
       difficulty |-> nextLwmaDifficulty(recentSummaries(tree, bestHash)),
       powSeed    |-> ancestor(tree, bestHash, expectedSeedHeight(height))]

-----------------------------------------------------------------------------
\* Extending it.

\* Defect: timestamps are not compared with the median of the past.
LinkIsValid_AnyTime(tree, nowMs, parent, header) ==
  /\ header.version = parent.header.version
  /\ header.height = parent.header.height + 1
  /\ LwmaIsDefined(recentSummaries(tree, parent))
  /\ header.difficulty = nextLwmaDifficulty(recentSummaries(tree, parent))
  /\ header.powSeed = ancestor(tree, parent, expectedSeedHeight(header.height))
  /\ header.timestampSeconds * MS_PER_SECOND <= nowMs + TIMESTAMP_FUTURE_TOLERANCE_MS

\* validateLink: the header fits under its parent, which is stored.
LinkIsValid(tree, nowMs, parent, header) ==
  /\ header.version = parent.header.version
  /\ header.height = parent.header.height + 1
  /\ LwmaIsDefined(recentSummaries(tree, parent))
  /\ header.difficulty = nextLwmaDifficulty(recentSummaries(tree, parent))
  /\ header.powSeed = ancestor(tree, parent, expectedSeedHeight(header.height))
  /\ header.timestampSeconds > medianTimePast(tree, parent)
  /\ header.timestampSeconds * MS_PER_SECOND <= nowMs + TIMESTAMP_FUTURE_TOLERANCE_MS

CommitmentsHold(block) ==
  /\ \A i \in DOMAIN block.transactions :
       validateSignedTransactionShape(block.transactions[i])
  /\ block.header.merkleRoot =
       calculateMerkleRoot(block.header.height, block.coinbase, block.transactions)
  /\ block.coinbase # NoCoinbase =>
       block.coinbase.outputs[1].address = block.header.payoutAddress

\* addBlock neither throws nor finds the block already known.
IsAcceptable(tree, nowMs, block) ==
  LET parent == block.header.previousHash
  IN  /\ block \notin DOMAIN tree
      /\ serializedBlockBodyLength(block) <= MAX_BLOCK_BODY_BYTES
      /\ parent \in DOMAIN tree
      /\ LinkIsValid(tree, nowMs, parent, block.header)
      /\ CommitmentsHold(block)
      /\ block.proven
      /\ BlockApplies(tree[parent].state, block)

entryFor(tree, block) ==
  LET parent == tree[block.header.previousHash]
  IN  [state     |-> applyBlock(parent.state, block),
       totalWork |-> parent.totalWork + workForDifficulty(block.header.difficulty)]

\* Defect: the longest chain wins.
TakesOver_Longest(tree, bestHash, block) == block.header.height > bestHash.header.height

\* The fork choice: only strictly more work moves the best hash.
TakesOver(tree, bestHash, block) ==
  entryFor(tree, block).totalWork > tree[bestHash].totalWork

\* What addBlock returns, or "rejected" when it throws.
addBlockResult(tree, bestHash, nowMs, block) ==
  IF block \in DOMAIN tree THEN "known"
  ELSE IF ~IsAcceptable(tree, nowMs, block) THEN "rejected"
  ELSE IF TakesOver(tree, bestHash, block) THEN "extended" ELSE "fork"

\* Defect: every valid block becomes the best.
BestAfter_Latest(tree, bestHash, block) == block

\* The tree and the best hash addBlock leaves behind.
TreeAfter(tree, block) == Put(tree, block, entryFor(tree, block))

BestAfter(tree, bestHash, block) ==
  IF TakesOver(tree, bestHash, block) THEN block ELSE bestHash

GenesisEntry ==
  [state |-> GenesisState, totalWork |-> workForDifficulty(INITIAL_DIFFICULTY)]

GenesisTree == [hash \in {createGenesisBlock} |-> GenesisEntry]

=============================================================================
