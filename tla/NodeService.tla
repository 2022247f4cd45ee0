----------------------------- MODULE NodeService -----------------------------
(***************************************************************************)
(* One full node, apps/node/src: the consensus chain of ChainService with  *)
(* the block store, the mempool, the current mining job and the Stratum    *)
(* connections around it.  Blocks and transactions come from peers, from   *)
(* the HTTP API and from miners; every handler runs to its end without an  *)
(* await, so a handler is one step.  The process may die between any two   *)
(* of them and start again from its store; a write of the store may fail.  *)
(*                                                                         *)
(* Mining job ids hash [previousHash, height, Date.now()], so they are     *)
(* that triple.  Proof of work is a flag: a share proves the block whose   *)
(* mining blob the miner was sent, and no other.                           *)
(***************************************************************************)
EXTENDS Chain

CONSTANTS
  Transactions,         \* transactions that may be offered
  Sockets,              \* Stratum connections, a sequence in order of opening
  Nonces,               \* nonces a miner may find
  MAX_ITEMS,            \* maxItems of the mempool
  LIST_LIMIT,           \* transactions the mempool lists for a job
  NoJob,
  MaxRestarts,          \* bound on restarts
  MaxFailures,          \* bound on failed writes
  MaxClockLoss          \* how far the clock may be behind after a restart

ASSUME MempoolAssumption == MAX_ITEMS \in Nat \ {0} /\ LIST_LIMIT \in Nat

ASSUME TransactionsAssumption == \A tx \in Transactions : IsTransaction(tx)

VARIABLES
  store,                \* blocks saved, in the order of their rows
  mempool,              \* pending transactions, oldest first
  job,                  \* the only entry of the jobs map, or NoJob
  payoutAddress,        \* what a connection authorized with, or NoHash
  work,                 \* the job last sent to a connection, or NoJob
  restarts, failures    \* counted for the bounds

service == <<store, mempool, job, payoutAddress, work>>
nodeVars == <<entries, bestHash, now, store, mempool, job, payoutAddress, work,
              restarts, failures>>

Connections == Range(Sockets)

-----------------------------------------------------------------------------
\* The store.

\* Defect: a height has one row.
saveBlock_OnePerHeight(saved, block) ==
  IF \E i \in DOMAIN saved : saved[i].header.height = block.header.height
  THEN saved ELSE Append(saved, block)

saveBlock(saved, block) == IF block \in Range(saved) THEN saved ELSE Append(saved, block)

\* Defect: rows are read in the order they were written.
allBlocksByHeight_Unsorted(saved) == saved

\* Rows by height, and by insertion within a height.
allBlocksByHeight(saved) ==
  SortedBy(saved, [i \in DOMAIN saved |-> saved[i].header.height])

\* The chain a new process builds from the store at a given time.
loadPersistedBlocks(saved, nowMs) ==
  FoldLeft(LAMBDA chain, block :
             IF IsAcceptable(chain.tree, nowMs, block)
             THEN [tree |-> TreeAfter(chain.tree, block),
                   best |-> BestAfter(chain.tree, chain.best, block)]
             ELSE chain,
           [tree |-> GenesisTree, best |-> createGenesisBlock],
           allBlocksByHeight(saved))

-----------------------------------------------------------------------------
\* The mempool.

list(pool) == SubSeq(pool, 1, IF Len(pool) > LIST_LIMIT THEN LIST_LIMIT ELSE Len(pool))

\* Defect: only a transaction pending already is refused.
ConflictsWithPending_Same(pool, tx) == tx \in Range(pool)

ConflictsWithPending(pool, tx) == Spends(tx) \cap SpentBy(pool) # {}

accept(pool, tx) ==
  Append(IF Len(pool) >= MAX_ITEMS THEN Tail(pool) ELSE pool, tx)

removeCommitted(pool, block) ==
  FoldLeft(LAMBDA kept, tx :
             IF tx \in Range(block.transactions) THEN kept ELSE Append(kept, tx),
           <<>>, pool)

\* Defect: a transaction is not validated against the tip.
acceptTransaction_Unchecked(tx) ==
  /\ tx \notin Range(mempool)
  /\ ~ConflictsWithPending(mempool, tx)
  /\ mempool' = accept(mempool, tx)
  /\ UNCHANGED <<entries, bestHash, now, store, job, payoutAddress, work, restarts, failures>>

acceptTransaction(tx) ==
  /\ tx \notin Range(mempool)
  /\ TransactionApplies(entries[bestHash].state.utxos, tx, bestHash.header.height)
  /\ ~ConflictsWithPending(mempool, tx)
  /\ mempool' = accept(mempool, tx)
  /\ UNCHANGED <<entries, bestHash, now, store, job, payoutAddress, work, restarts, failures>>

-----------------------------------------------------------------------------
\* Mining jobs.

jobIdOf(header, nowMs) == [prev |-> header.previousHash, height |-> header.height, at |-> nowMs]

\* A job on the best block of a chain, paying an address.
createJob(tree, best, pool, address) ==
  LET next     == nextConsensusData(tree, best)
      coinbase == [outputs |-> <<[address |-> address,
                                  amount |-> rewardForBlock(next.height, tree[best].state.issued)]>>]
      header   == [version |-> PROTOCOL_VERSION, height |-> next.height, previousHash |-> best,
                   timestampSeconds |-> now \div MS_PER_SECOND,
                   difficulty |-> next.difficulty,
                   merkleRoot |-> calculateMerkleRoot(next.height, coinbase, list(pool)),
                   powSeed |-> next.powSeed, payoutAddress |-> address]
  IN  [id    |-> jobIdOf(header, now),
       block |-> [header |-> header, nonce |-> 0, coinbase |-> coinbase,
                  transactions |-> list(pool), proven |-> FALSE]]

\* createJob throws with nextConsensusData when the retarget is undefined.
CanCreateJob(tree, best) == LwmaIsDefined(recentSummaries(tree, best))

\* sendJob registers the new job in place of every other one.
sendJob(socket, address) ==
  IF CanCreateJob(entries, bestHash)
  THEN LET sent == createJob(entries, bestHash, mempool, address)
       IN  job' = sent /\ work' = [work EXCEPT ![socket] = sent]
  ELSE UNCHANGED <<job, work>>

\* mining.authorize, and mining.get_job alike.
authorize(socket, address) ==
  /\ payoutAddress' = [payoutAddress EXCEPT ![socket] = address]
  /\ sendJob(socket, address)
  /\ UNCHANGED <<entries, bestHash, now, store, mempool, restarts, failures>>

\* POST /mining/template: the job is registered, then its reply, which
\* carries the block with its bigint difficulty, fails to encode.
miningTemplate(address) ==
  /\ CanCreateJob(entries, bestHash)
  /\ job' = createJob(entries, bestHash, mempool, address)
  /\ UNCHANGED <<entries, bestHash, now, store, mempool, payoutAddress, work, restarts, failures>>

\* Every authorized connection gets a job of its own; the last one stays
\* registered.
notifyNewTip(tree, best, pool) ==
  LET authorized == SelectSeq(Sockets, LAMBDA s : payoutAddress[s] # NoHash)
      jobFor(s)  == createJob(tree, best, pool, payoutAddress[s])
  IN  IF authorized # <<>> /\ CanCreateJob(tree, best)
      THEN /\ job' = jobFor(Last(authorized))
           /\ work' = [s \in Connections |->
                         IF s \in Range(authorized) THEN jobFor(s) ELSE work[s]]
      ELSE UNCHANGED <<job, work>>

\* JSON.stringify throws on a bigint, and the difficulty of a block is one.
CanEncode(message) == message # "block"

\* The handler of index.ts: broadcast, then notifyChainAdvanced and
\* notifyNewTip, unless the broadcast throws.
onBlockAccepted(tree, best, pool) ==
  IF CanEncode("block") THEN notifyNewTip(tree, best, pool) ELSE UNCHANGED <<job, work>>

-----------------------------------------------------------------------------
\* acceptBlock of a block the chain does not know ...
acceptNewBlock(block) ==
  /\ addBlock(block)
  /\ store' = saveBlock(store, block)
  /\ mempool' = removeCommitted(mempool, block)
  /\ IF bestHash' = block
     THEN onBlockAccepted(entries', bestHash', mempool')
     ELSE UNCHANGED <<job, work>>
  /\ UNCHANGED <<payoutAddress, restarts, failures>>

\* ... which the store fails to save: it stays in memory.
acceptUnsavedBlock(block) ==
  /\ failures < MaxFailures
  /\ addBlock(block)
  /\ failures' = failures + 1
  /\ UNCHANGED <<store, mempool, job, payoutAddress, work, restarts>>

\* ... and of one it knows.
acceptKnownBlock(block) ==
  /\ block \in DOMAIN entries
  /\ store' = saveBlock(store, block)
  /\ mempool' = removeCommitted(mempool, block)
  /\ UNCHANGED <<entries, bestHash, now, job, payoutAddress, work, restarts, failures>>

acceptBlock(block) ==
  acceptNewBlock(block) \/ acceptUnsavedBlock(block) \/ acceptKnownBlock(block)

\* Defect: the proof of work is not tied to the block of the registered job.
submitShare_Unbound(socket, nonce) ==
  /\ job # NoJob /\ work[socket] # NoJob
  /\ work[socket].id = job.id
  /\ acceptBlock([job.block EXCEPT !.nonce = nonce, !.proven = TRUE])

\* mining.submit, and POST /mining/submit alike, for the job the miner has.
submitShare(socket, nonce) ==
  /\ job # NoJob /\ work[socket] # NoJob
  /\ work[socket].id = job.id
  /\ acceptBlock([job.block EXCEPT !.nonce = nonce, !.proven = (job.block = work[socket].block)])

\* The process dies and starts again.
Restart ==
  /\ restarts < MaxRestarts
  /\ restarts' = restarts + 1
  /\ \E lost \in 0..MaxClockLoss :
       /\ lost <= now
       /\ now' = now - lost
  /\ entries' = loadPersistedBlocks(store, now').tree
  /\ bestHash' = loadPersistedBlocks(store, now').best
  /\ mempool' = <<>>
  /\ job' = NoJob
  /\ payoutAddress' = [s \in Connections |-> NoHash]
  /\ work' = [s \in Connections |-> NoJob]
  /\ UNCHANGED <<store, failures>>

-----------------------------------------------------------------------------
NodeInit ==
  /\ Init
  /\ store = <<createGenesisBlock>>
  /\ mempool = <<>>
  /\ job = NoJob
  /\ payoutAddress = [s \in Connections |-> NoHash]
  /\ work = [s \in Connections |-> NoJob]
  /\ restarts = 0 /\ failures = 0

NodeTick == Tick /\ UNCHANGED <<service, restarts, failures>>

NodeNext ==
  \/ \E tx \in Transactions : acceptTransaction(tx)
  \/ \E block \in Blocks : acceptBlock(block)
  \/ \E s \in Connections, address \in Addresses : authorize(s, address)
  \/ \E address \in Addresses : miningTemplate(address)
  \/ \E s \in Connections, nonce \in Nonces : submitShare(s, nonce)
  \/ Restart
  \/ NodeTick

NodeSpec == NodeInit /\ [][NodeNext]_nodeVars

-----------------------------------------------------------------------------
\* Properties.

\* Dying now loses no block and no work: as long as no write failed, the
\* store rebuilds the very tree, and a head as heavy as the one in memory.
StoreRebuildsTheChain ==
  failures = 0 =>
    LET rebuilt == loadPersistedBlocks(store, now)
    IN  /\ rebuilt.tree = entries
        /\ rebuilt.tree[rebuilt.best].totalWork = entries[bestHash].totalWork

\* What a restart makes of the store after failed writes and with a clock that
\* lost time: whatever was accepted is a row unless the write of that very block
\* failed, and a row is left out only if its parent is missing, or if it is too
\* far ahead of the clock.
ReplayLosesOnlyOrphans ==
  [][ restarts' # restarts =>
        /\ Cardinality(DOMAIN entries \ Range(store)) <= failures
        /\ \A block \in Range(store) :
             \/ block \in DOMAIN entries'
             \/ block.header.previousHash \notin DOMAIN entries'
             \/ block.header.timestampSeconds * MS_PER_SECOND
                  > now' + TIMESTAMP_FUTURE_TOLERANCE_MS
    ]_nodeVars

\* A job is made from transactions that were checked against some earlier tip,
\* and consensus checks it against the block it extends.  There are two ways
\* only it can have become unacceptable: an output it spends is gone, was never
\* there, or is a subsidy that is not mature yet, on the chain that is best now,
\* which a reorganisation may have made shorter; or the cap leaves less than the
\* subsidy.  Ownership, amounts and fees stay right through blocks and
\* reorganisations, and no job spends an output twice or repeats a transaction.
JobsFailOnlyByInputsOrCap ==
  job # NoJob =>
    LET state  == entries[job.block.header.previousHash].state
        height == job.block.header.height
        HasInputs ==
          \A outpoint \in SpentBy(job.block.transactions) :
            outpoint \in DOMAIN state.utxos /\ IsMature(state.utxos[outpoint], height)
    IN  HasInputs /\ Payable(height, state.issued) => BlockApplies(state, job.block)

\* Consensus does not look for two spends of one output inside a block; the
\* mempool does.  So as long as every block is mined from such a mempool no
\* coin appears that was not mined, on any branch, across restarts and
\* reorganisations.
MinedSupplyIsConserved ==
  \A hash \in DOMAIN entries :
    Circulating(entries[hash].state) + Burned(ancestry(entries, hash))
      = entries[hash].state.issued

\* A share counts only for the block whose blob its miner hashed: whoever
\* holds the registered job, the block that enters the chain pays the address
\* the submitting connection was given work for.
SharesPayTheirMiner ==
  [][ \A s \in Connections, nonce \in Nonces :
        (submitShare(s, nonce) /\ DOMAIN entries' # DOMAIN entries)
          => \E block \in DOMAIN entries' \ DOMAIN entries :
               block.header.payoutAddress = work[s].block.header.payoutAddress
    ]_nodeVars

-----------------------------------------------------------------------------
\* What the comments of the code say, and the code does not do.

\* stratum.ts: "Refresh every authorized miner when consensus advances."
MinersFollowTheTip ==
  \A s \in Connections :
    work[s] # NoJob => work[s].block.header.previousHash = bestHash

=============================================================================
