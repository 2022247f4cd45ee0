-------------------------------- MODULE Chain --------------------------------
(***************************************************************************)
(* One ConsensusChain of packages/core/src/chain.ts: the tree of the       *)
(* blocks it has validated and the hash of the best one.  Blocks are       *)
(* offered in any order, any number of times, well-formed or not.          *)
(* Rejection throws and changes nothing, and so does a block already       *)
(* known: both are stuttering steps.                                       *)
(***************************************************************************)
EXTENDS Consensus

CONSTANTS
  Blocks,               \* blocks that may be offered
  MaxEntries,           \* bound on the blocks a chain holds
  TickMs,               \* how far the clock moves in a step
  MaxNow                \* bound on the clock

VARIABLES
  entries,              \* the tree: hash -> [state, totalWork]
  bestHash,
  now                   \* nowMs()

vars == <<entries, bestHash, now>>

ASSUME ClockAssumption == TickMs \in Nat \ {0}

ASSUME BlocksAssumption == \A block \in Blocks : IsWellFormed(block)

-----------------------------------------------------------------------------
Init ==
  /\ entries = GenesisTree
  /\ bestHash = createGenesisBlock
  /\ now = GENESIS_TIMESTAMP_SECONDS * MS_PER_SECOND

addBlock(block) ==
  /\ Cardinality(DOMAIN entries) < MaxEntries
  /\ IsAcceptable(entries, now, block)
  /\ entries' = TreeAfter(entries, block)
  /\ bestHash' = BestAfter(entries, bestHash, block)
  /\ UNCHANGED now

Tick ==
  /\ now < MaxNow
  /\ now' = now + TickMs
  /\ UNCHANGED <<entries, bestHash>>

Next == Tick \/ \E block \in Blocks \ DOMAIN entries : addBlock(block)

Spec == Init /\ [][Next]_vars

-----------------------------------------------------------------------------
\* Properties.

Stored == DOMAIN entries
Genesis == createGenesisBlock
WorkOf(hash) == entries[hash].totalWork

TypeOK ==
  /\ Genesis \in Stored
  /\ Stored \subseteq Blocks \cup {Genesis}
  /\ bestHash \in Stored
  /\ now \in Nat
  /\ \A hash \in Stored :
       /\ entries[hash].totalWork \in Nat
       /\ entries[hash].state.issued \in 0..TOTAL_SUPPLY

\* No stored block carries more cumulative work than the best one, however
\* the blocks of competing branches were interleaved.
BestHasMostWork ==
  \A hash \in Stored : WorkOf(hash) <= WorkOf(bestHash)

\* What is stored for a block is one step from what is stored for its parent:
\* no block hangs from an unknown one, and applying a block to a copy of the
\* parent's state has left the states of its parent and siblings alone.
EntriesExtendParents ==
  \A hash \in Stored \ {Genesis} :
    LET parent == hash.header.previousHash
    IN  /\ parent \in Stored
        /\ hash.header.height = parent.header.height + 1
        /\ BlockApplies(entries[parent].state, hash)
        /\ entries[hash] = entryFor(entries, hash)

\* The clock consensus compares new timestamps with never runs backwards
\* along a chain, although the timestamps of single blocks may.
MedianTimeNeverDecreases ==
  \A hash \in Stored \ {Genesis} :
    medianTimePast(entries, hash) >= medianTimePast(entries, hash.header.previousHash)

\* A reorganisation needs strictly more work: an equally heavy rival, first
\* seen later, never displaces the best chain.
OnlyMoreWorkReorganises ==
  [][bestHash' # bestHash => entries'[bestHash'].totalWork > WorkOf(bestHash)]_vars

\* The chain implements the abstract fork choice: comparing a new block with
\* the best one only is enough to outweigh everything known.
ParentOf(hash) == hash.header.previousHash
Abstract == INSTANCE ForkChoice WITH
  Parent <- ParentOf, Root <- Genesis, head <- bestHash,
  weight <- [hash \in Stored |-> WorkOf(hash)]

ImplementsForkChoice == Abstract!Spec

-----------------------------------------------------------------------------
\* Properties of the ledger along every stored branch.

ConflictFree(block) ==
  \A i, j \in DOMAIN block.transactions :
    i # j => Spends(block.transactions[i]) \cap Spends(block.transactions[j]) = {}

Burned(path) == SumFunction([i \in DOMAIN path |-> FeesBurned(path[i].transactions)])

\* On a branch without two spends of one output in a block, what was issued
\* is what circulates plus the fees burned.
SupplyIsConserved ==
  \A hash \in Stored :
    LET path == ancestry(entries, hash)
    IN  (\A i \in DOMAIN path : ConflictFree(path[i]))
          => Circulating(entries[hash].state) + Burned(path) = entries[hash].state.issued

\* No output is spent by two blocks of one branch.
NoOutputSpentTwice ==
  \A hash \in Stored :
    LET path == ancestry(entries, hash)
    IN  \A i, j \in DOMAIN path :
          i # j => SpentBy(path[i].transactions) \cap SpentBy(path[j].transactions) = {}

\* A subsidy is never spent before it is COINBASE_MATURITY blocks deep on the
\* branch that spends it, and never on a branch that did not mint it.
SubsidiesMatureFirst ==
  \A hash \in Stored :
    \A outpoint \in SpentBy(hash.transactions) :
      "height" \in DOMAIN outpoint.txid =>
        LET minted == ancestry(entries, hash)[outpoint.txid.height + 1]
        IN  /\ hash.header.height >= outpoint.txid.height + COINBASE_MATURITY
            /\ coinbaseId(minted) = outpoint.txid

\* The two together: whatever branch a reorganisation returns to, its blocks
\* spend what it minted, once, and in time.
BranchesSpendSoundly == NoOutputSpentTwice /\ SubsidiesMatureFirst

-----------------------------------------------------------------------------
\* What the documents and assertions of the code say, and the code does not do.

\* README 4: every EDX in existence comes out of CPU work, so what circulates
\* never exceeds what mining issued.
OnlyMiningCreatesCoins ==
  \A hash \in Stored : Circulating(entries[hash].state) <= entries[hash].state.issued

\* Hashes expected to mine a chain.
Hashes(path) == SumFunction([i \in DOMAIN path |-> path[i].header.difficulty])

\* Fork choice by cumulative work: the best chain took the most hashing.
BestChainTookMostHashing ==
  \A hash \in Stored : Hashes(ancestry(entries, hash)) <= Hashes(ancestry(entries, bestHash))

=============================================================================
