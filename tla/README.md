# EdgeX Network: specifications, model checking and proofs

This directory holds a TLA+ model of the EdgeX Network code under `src/`: a
proof-of-work chain written in TypeScript for Bun, with a full node
(`apps/node`), a wallet (`apps/wallet`) and two packages they share
(`packages/core`, `packages/shared`). The modules cover the consensus core, the
full node, and the wallet from its sockets to its screens. `PROJECT.json` lists
components, runs, mutants, findings, hazards, theorems and, for every
definition, the source lines it stands for.

## 1. The system

### Components

| Component | State it keeps | Operations | Correct when | Modules |
| --- | --- | --- | --- | --- |
| Subsidy schedule (`shared/reward.ts`) | none; `issuedPhotons` of a ledger | `rewardForBlock`, the cap check | never above the cap, nothing stranded | `Reward`, `Emission` |
| Difficulty and work (`core/difficulty.ts`, `pow.ts`, `schedule.ts`) | none | retarget, work, seed height | the retarget is defined where it is used | `Difficulty` |
| Ledger (`core/state.ts`) | unspent outputs, issue | `applyBlock` | supply conserved, no output spent twice, subsidies mature | `Ledger` |
| Consensus chain (`core/chain.ts`) | valid blocks with a ledger and the work of each, the best hash | `addBlock` | best is heaviest, moves only for more work, a ledger is its parent's plus one block | `Consensus`, `Chain`, `ForkChoice` |
| Chain service (`node/service.ts`, `index.ts`) | the mining job | accept a block or transaction, make a job, submit a share, replay | no accepted block is lost, jobs are valid, shares pay their miner | `NodeService` |
| Block store, mempool, Stratum, HTTP (`storage.ts`, `mempool.ts`, `stratum.ts`, `rpc.ts`) | rows; pending transactions; payout address and last job of a connection | save, list, remove, authorize, submit, template | the store rebuilds the chain, committed transactions leave | `NodeService` |
| Block download (`node/p2p.ts` 440-765) | pass and conversation of each node | tip, locate, blocks, timers | nodes converge on the heaviest chain | `BlockSync` |
| Peer links of the node (`node/p2p.ts` 90-440) | outbound peers, sockets, timers | dial, handshake, peer exchange, reconnect, forget | one attempt per peer, seeds are reached, newcomers meet the others | `PeerLinks` |
| Wallet links (`wallet/core/peerLink.ts`, `connection.ts`) | sockets, pending calls, peer states, timers | request, fail over, probe, add, remove | a call ends, a known peer comes back | `PeerLink`, `ConnectionManager` |
| Wallet chain database (`walletDatabase.ts`) | block rows, index, own view, segments | append, truncate, seal, query | the index equals that of the stored blocks, nothing stored is lost | `ChainStore` |
| Wallet sync (`walletCore.ts`) | status, failures, calls in flight | poll, download, resync, stop, restart | a download ends, in step with the node or in the error state | `WalletSync` |
| Wallet queries and RPC (`walletCore.ts`, `rpcCore.ts`, `rpc/server.ts`) | none | balances, lists, raw transactions, submitblock | answers agree with each other and with the chain | `WalletQueries` |
| Planner (`transactionPlanner.ts`) | none | plan chunks of one address each | pays exactly, no output twice | `TransactionPlanner` |
| Send and game gateway (`walletCore.ts`, `game/`) | plans of calls under way, `game.db`, the daily total | send, upload | nobody is overpaid, every call ends | `WalletSend` |
| Wallet files (`keys/`) | vault, plaintext file, backups, address index, communication key | create, load, migrate, rebuild, derive | the last copy of a mnemonic, a key and an address survive | `WalletFiles` |
| Process, screen, console (`index.tsx`, `tui/`, `cli/`, `commands/`, `updater/`) | form, dialog, prompt, commands under way, held-back log | keys, clicks, lines, prompts, update, exit | one transfer at a time, answers reach their command, the log keeps its order | `WalletLifecycle`, `WalletShell`, `WalletConsole`, `WalletApp` |

Components without a module, and parts left out of the others, are listed under
"Not modelled".

### How they interact

A block reaches a node from its own miner (`submitShare`), from the HTTP API or
from the download of `p2p.ts`. Each path ends in `ChainService.acceptBlock`,
which calls `addBlock`, saves the block, takes its transactions out of the
mempool and, if the best block moved, runs the callback of `index.ts`:
broadcast, tell the download, refresh the miners. A transaction goes to the
mempool and from there into mining jobs.

A wallet sends every request through its `ConnectionManager`, which tries the
known peers in turn, over HTTP or a WebSocket. On a timer it reads `/chain/info`
and asks for missing blocks, to keep them in its database; a send reads the
outputs of each own address from a node, plans, and posts the transactions one
by one. The screen, the console, the RPC server and the game gateway run in one
process over one core; other processes may use the same data directory.

Bun runs one handler at a time: a handler without `await` is atomic and is one
action here; what a function does after an `await` is an action of its own, so
that everything else may happen in between.

### What is hard

Forks in any order; timestamps that go back; a tip that is stale after an await;
a process that dies between two steps; a write that fails; handlers after one
that throws; limits of pages, samples, peers and passes; sockets whose close
arrives after their successor opened; a request repeated because its answer was
lost; pages that arrive after a reorganisation, a rebuild or a stop; two sends
over the same outputs; files that two processes share; a screen whose state
changes under the user. `hazards` of `PROJECT.json` lists each at its line, with
the properties that watch it.

## 2. Modules

| Module | Extends | Models |
| --- | --- | --- |
| `Reward` | | the subsidy by height and issue, and whether the cap admits it |
| `Emission` | `Reward` | one chain's issue: `MineBlock` by block, `MineRun` by run of equal subsidies |
| `Difficulty` | | `workForDifficulty`, `nextLwmaDifficulty`, `medianOf`, `expectedSeedHeight` |
| `Ledger` | `Reward` | `UtxoState.applyBlock` as a condition (`BlockApplies`) and a function |
| `Consensus` | `Ledger`, `Difficulty` | everything `addBlock` reads and writes, as operators on a tree |
| `Chain` | `Consensus` | one chain as a state machine: `addBlock`, `Tick` |
| `ForkChoice` | | the abstract specification: a growing weighted tree whose head is a heaviest node |
| `NodeService` | `Chain` | the node around the chain: store, mempool, job, connections, restarts |
| `WalletQueries` | `Chain` | what a wallet reads off a node's chain, and the raw transactions it makes |
| `BlockSync` | | the download between any number of nodes |
| `PeerLinks` | | who dials whom, hello, peer exchange, reconnect timers |
| `PeerLink` | | one WebSocket link of the wallet, as functions on its state |
| `ConnectionManager` | `PeerLink` | probes, requests, timers, peers added and removed |
| `ChainStore` | | the wallet's database, as functions on rows, tables and segments |
| `WalletSync` | `ChainStore` | the wallet core following nodes that move |
| `TransactionPlanner` | | `planAddressChunks` as a fold over the ordered coins |
| `WalletSend` | `TransactionPlanner` | sends and uploads against a node's mempool and blocks |
| `WalletFiles` | | the data directory and the processes on it |
| `WalletLifecycle` | | the running process, the ways it ends, the update check |
| `WalletShell` | `WalletLifecycle` | the full screen: keys, mouse, form, dialogs, prompts, commands |
| `WalletConsole` | `WalletLifecycle` | the line console and its held-back log |
| `WalletApp` | `WalletShell`, `WalletConsole` | the process with the front end it was started with |
| `*Proofs` (8) | the module named, `TLAPS` | theorems |
| `MC*` | the module of the run | instances for TLC |

### The chain and the node

A hash is injective, so it is the thing hashed: a block is identified by
itself, its `previousHash` is its parent, the id of a transaction is the
transaction and that of a coinbase its height and outputs. `proven` says whether
the proof of work verifies, `signed` whether the signature does. In `BlockSync`
a block is its path from genesis.

`entries` is the map of `ConsensusChain` (state and cumulative work by hash),
`bestHash` its `bestHash`, `now` what `nowMs()` returns. `store` of
`NodeService` is the table of rows in insertion order, `mempool` the map `items`
in iteration order, `job` the only entry of the map `jobs` (`createJob` clears
it first), `payoutAddress` and `work` what a connection holds. In `BlockSync`,
`targets` is what is left of a pass and `sync` the local variables of the
`syncWithSocket` under way with the request it awaits.

`acceptBlock` has three forms: a new block, a new block whose write throws (it
stays in memory only and nothing after the write happens), a known block (saved
and removed from the mempool once more). A rejection throws before anything
changes and is a stuttering step. A header holds its difficulty as a bigint,
which `JSON.stringify` refuses. So `onBlockAccepted` contains the exception of
the broadcast, `miningTemplate` registers its job and then fails to reply,
`/chain/blocks` refuses every page that holds a block (`RefusePage` of
`WalletSync`) and `submitBlock` of the wallet sends nothing (`WalletQueries`).
`requestFails` covers the timer of a request and the loss of its socket.

### Links

In `PeerLinks` a connection has an end at the node that dialled and an end at
the other; each learns of a break in a step of its own (`ClosesAtA`,
`ClosesAtB`), and messages of one direction arrive in order or not at all.
`outbound`, `timer` and `socket` are the peer record, its timer and the socket
in it; `owned` says that the record that dialled is still there, which the close
listener tests. The backoff is only that a timer fires some time. A node
announces at most `MAX_ADVERTISED_PEERS` URLs (itself, then the peers that
dialled it, then those it dialled) and reads as many as
`MAX_PEER_ANNOUNCEMENTS`; which ones a limit cuts depends on orders the model
does not keep (`Cuts`, `ListsOf`), so all choices are taken.

In `ConnectionManager` an entry is one `PeerState` object: an address removed
and added again gets a new one while the old may still be in use. A call is a
probe or a request; `via` is the socket it waits on. The continuation of an
answered or failed call runs before the next event, as microtasks do (`Due`,
`Quiet`). `handleLinkDrop` is reached only by the close of the socket in use,
while the close of any socket of a link rejects what is pending on it.

### The wallet's chain

`rows` and `tables` are the active database file, `segments` the sealed ones.
`upsertTxIndex` is the body of the method of that name: the addresses of inputs
come from outputs indexed in the active file, an inserted output keeps the
spending mark of the row it replaces, and the resident view of own outputs moves
with it. `truncateTables`, `registerSegment` and `clearedTables` are the
roll-back and the two halves of a seal; `CrashWhileSealing` stops between the
halves. `refresh[r]` is one call of `refreshChain`, `download` the call of
`synchronizeLocalDatabase` with the local variables that survive its awaits
(`target`, `local`, the answered page). `HandlePage`, `HandleDrift` and
`HandleBadBoundary` are what follows an answer: store and maybe seal, back off,
or store and fail in the seal. A resync, a stop and a restart leave a page in
flight as the code does. A node in `Serving` encodes the pages it is asked for,
any other answers with an error when there is a block in them; and every node
refuses a link that asks too often (`RefusePage`). The wallet then ends its
download and stays `syncing`. The nodes of this repository encode no block. What
run and theorems say of pages that arrive is about the wallet's own code, fed by
a node that writes the difficulty as text. What a node serves it has validated,
so the chains are those honest miners build (`TransactionsAssumption`): along
one, every transaction has its own id, spends outputs made before it, and spends
none twice.

### Spending

A job of `WalletSend` is one call of `send()` or of an upload: `unread` and
`read` of `fetchWalletUtxos`, then the plan and the transaction being posted.
`tries` counts the peers and links the request still has. An answer may be lost
after the node took the transaction, and the repeat then finds it in the
mempool, in a block, or in conflict with another call's. The node forgets
transactions: a full mempool evicts its oldest entry for a new one (`Takes`, and
`OthersSend` for the transactions of others; whether it is full is their doing,
so any entry may be the oldest), and a restart empties it. What it has dropped
a miner may still hold in an older job, so a block takes any transactions,
pending or dropped, that fit its chain. Hence two transactions that spend one
coin may both be taken in the course of time, and `CoinsAreSpentOnce` says that
the node has then dropped one of them. The chain only grows here;
reorganisations are in `WalletSync`. The upload's lookup and
cap check are in `handleUpload`, its record and count in `Answered`, with both
awaits between them. `planAddressChunks` takes one coin after the other; a
payment is a stretch of a line, so that splitting it is taking part of the line.

### Files, process, front ends

A file is missing, whole, or torn by a crash in its write. `Writes` is
`writeFileSync`: done, or torn and the process gone. A process looks at the files
in one step and writes in another wherever a password, a mnemonic or the
derivation of an encryption key lies between, so that another process writes
first: `init`, onboarding and the migration look for a vault, encrypt and
write (`createOrLoadKey`, `migrateLegacyMnemonic`, `writeVaultFile`), `init
--force` opens the vault before it moves it (`initForce`, `Replaces`), and the
communication key is looked for, encrypted, and its file emptied and filled
(`loadOrCreateCommKey`, `writeCommKey`, `CommKeyWritten`), so that another
process may find it empty. `seen` keeps what a process found. Checks and reads
in a row, with nothing between them that takes time, are one step, and the
vault is written in one: a rename or a read of the vault in the middle of
another process's write is left out.

In `WalletShell` an event is handled against the current state; transfers,
lookups and commands end between events. A key that is handled after a state
change and before the next render would see the older state: that gap is not
represented. `ask` is the pending prompt with the slot of the command that
asked; a second prompt takes its place. In `WalletConsole` the handler of a line
checks that nothing runs, yields, and only then marks itself busy, so the lines
of one paste all pass the check. `WalletApp` composes them over `running`, which
every way out sets.

Names that end in `_Something` after a comment beginning *Mutant:* or *Defect:*
are mutated forms of the definition that follows; they show that a property
notices the defect and are not part of the model.

## 3. Runs

Twelve runs, all passing. Each configuration names its bounds.

| Run | Shows | Bounds, and why they are enough |
| --- | --- | --- |
| `emission_real` | every block of a run earns what its first one does (`RunEarnsOneSubsidy`); mining stops only when the last Photon is issued (`StopsOnlyAtCap`) | the real constants and the whole schedule up to the cap, about nine hundred runs of equal subsidies |
| `chain_forks` | the best block is the heaviest, median time never decreases along a branch, the chain implements `ForkChoice` | five blocks over genesis, window and median of three, so from height 3 the difficulty differs between branches and a shorter one can be heavier; time back, on target and late; ten malformed variants of each low block |
| `chain_ledger` | supply, spending and maturity on every branch; balances, lists and pages of a wallet tell one story; a raw transaction it signs is accepted | maturity of two, branches of four blocks, bodies with rival, chained, inflating, stealing, unsigned and doubled payments; wallets of one and two addresses, pages of one, two and five and windows behind each |
| `node_mining` | the store rebuilds the chain, a job goes stale only by an output that is gone or immature or by the cap, supply is conserved, a share pays its own miner | two connections, three peer blocks of which two compete, two rival payments, one restart |
| `node_failures` | a replay leaves out only rows without a parent or ahead of the clock | one failed write, one restart that loses clock time |
| `sync` | pages attach, the longer and heavier chain wins, nodes converge | two nodes that share up to two blocks and mine apart to height 4, samples of three, pages of two, so that forks fall at, between and below samples; a miner, a relay and a laggard, pages of one, mining throughout; one lost request |
| `peer_links` | one attempt per peer, seeds are reached, newcomers meet the others | a seed, a public node, a private one and one of another network, a connection per peer, room for three peers and for two URLs in a list, one fault: a link that breaks or is refused, or a node that stops |
| `wallet_links` | a call holds a socket whose events are to come, peers come back, requests end | one HTTP and one WebSocket peer, a second entry for the latter, two calls, two socket names (an old one and its successor), two user steps, one fault |
| `wallet_sync` | the index follows the rows, stored transactions are found, a download ends unless its pages are refused again and again | a node that serves or refuses; two chains of three and four blocks that can overtake each other at a lower, equal or higher height; pages of two; two failures to the latch; two seals; one resync, stop, restart or crash; one lost request |
| `wallet_send` | plans are sound, nobody is overpaid, coins are spent once, calls end | two calls, four coins at two addresses, requests that take one transaction or one per address, one upload, two tries, one lost answer or request, one eviction, two blocks, also of dropped transactions, one restart of the wallet or the node, midnight |
| `wallet_files` | the last copy of a mnemonic and the communication key survive every process that acts on what is there, and addresses handed out stay resolvable | two processes that look, encrypt and write between each other's steps, two mnemonics, passwords and keys, an address on each branch after the first, one torn write, one rebuild |
| `wallet_app` | the edited row exists, one transfer at a time, prompts reach their command, the log keeps its order | two recipients, two commands of the screen, three handlers and pastes of two lines, three log lines |

Two processes that derive an address in the same moment are outside
`WalletFiles` (`Derives`): the code does not guard against it (see Findings).
Nor does it guard against two that set up one directory, which is inside: there
`LostOnlyFromBackup` and `CommKeyIsStable` except the process that writes over a
file that has changed since it looked (`Overtaken`, `seen`), and no other. The
exception is a real one: see the findings. That a second forced rebuild replaces
the backup of the first is excepted too; the run has one rebuild, the theorem
any number.

`NewcomersMeetTheOthers` supposes room (`HasRoom`): the seed can announce itself
and all that dialled it within `MAX_ADVERTISED_PEERS` (32 in the code), and the
newcomer has a record for whatever it may hear of. A seed with more peers than
that announces some of them only, and nothing in the code makes up for the rest.
In the run no node knows more URLs than a list holds, so that the limits are
respected and not met; `OneAttemptPerPeer` is proved for any.

`SupplyIsConserved` speaks of branches without two spends of one output inside a
block, because the code lets such a block create coins; `MinedSupplyIsConserved`
shows that blocks mined from this node's mempool are such.
`JobsFailOnlyByInputsOrCap` names the cap because a heavier branch can be the
shorter one: on it a subsidy a job spends may be immature again, and the cap
leave less for the job's own. `LongerHeavierChainWins` has nobody mining while
the nodes are linked: see the findings. `SyncingEnds` excepts a wallet whose
pages are refused again and again, which is what the nodes of this repository do
to it. `HistoryExplainsBalance` speaks of the same branches as
`SupplyIsConserved`, and of histories that one answer of the node holds
(`FitsOneAnswer`: 10,000 items an address, and the largest number of
confirmations); `PagesShowOneHistory` of branches whose times do not go back
(`TimesAdvance`): on others windows miss entries, which is a finding.

`CHECK_DEADLOCK FALSE` stands where the bounds make the model stop, or where
nothing is left to happen: a process that ended, a stopped wallet.

**Symmetry** is used in `wallet_files` (processes, mnemonics, passwords, keys)
and `wallet_app` (slots): the specifications treat these values alike, and the
properties there are invariants or predicates on single steps.

**Fairness.**

* `BlockSync`: `WF_vars(Converse(node))`. A pass is started by an interval timer
  and every reply or timeout resumes the conversation that awaits it. Mining,
  healing and lost requests are not fair.
* `PeerLinks`: the steps on links between nodes of one network, taken together,
  and the start of a stopped node. Timers fire, sockets report their close.
* `ConnectionManager`: a call under way keeps moving, since each waits for an
  event or a timeout; the interval probes each known peer whose flag is down;
  every timer fires, and not always while a socket is still closing (the
  backoff grows to 30 s, a close takes less).
* `WalletSync`: a call in flight and the download keep moving (a node answers or
  refuses, or the request fails), and the poll timer runs until the wallet
  stops.
* `WalletSend`: a call under way keeps moving: each request is answered or times
  out.

The last three are stated on the variable that every step of the group changes
(`[]<>idle \/ []<><<TRUE>>_call`), which is weak fairness of the group. Faults,
user steps and restarts are never fair, and their number is bounded; unbounded
faults would prevent progress, as they do in the code.

## 4. Proofs

Eight modules, for all values of the constants that satisfy the named
assumptions, the bounds among them. The assumptions are types of the parameters,
that blocks and transactions offered are well-formed values of theirs, and a few
facts of the code's configuration: an odd `MEDIAN_SPAN`, `MAX_ITEMS` of at least
one, a decay phase that does not start before the bootstrap phase ends. No
assumption bounds a chain, a branch, a mempool or a store.

Facts about folds, branches and sums over any finite set are proved by least
counterexample: a set of naturals that is not empty has a least member (`WFMin`
of the library), so a statement that fails for some height, length or
cardinality fails for a least one, and there its step contradicts it
(`LeastNatural`, `SubsetInduction`). The recursive functions inside the folds of
the community modules are shown to exist, and to be unique, the same way.

* `ChainProofs`, for `Chain`, for `NodeService`, whose steps use the same
  `addBlock`, and for `WalletQueries`. Its thirteen sections build on each other:
  sums; trees and the branches that `ancestry` reads off them; the ledger of a
  branch; sorting and the median clock; sound chains; the chain; replay;
  difficulty; mempool and jobs; the node; and, of the wallet's queries, raw
  transactions, accounts and pages.
  * `SoundChain` says that every entry is one validated step from its parent's
    (`IsTree`) and that the best is heaviest. Neither property is inductive
    alone: that the newcomer outweighs everything if it outweighs the best needs
    the second before the step, that its work exceeds its parent's needs the
    first. From it follow the fork choice, `OnlyMoreWorkReorganises`, and that
    `Chain` refines `ForkChoice` (`weight[hash] = totalWork`, `head = bestHash`).
  * Along a branch the median of the past never decreases: a new block lies
    after the median it extends, so sorting it in moves the middle of an odd
    window only up. An output that is unspent was made by exactly one block of
    the branch and spent by none (`BranchesSpendSoundly`, with the maturity of
    subsidies), and a block without two spends of one output changes what
    circulates by its subsidy less the fees it burns (`SupplyIsConserved`).
  * `NodeInvariant` has five parts: the chain is sound and its blocks were valid
    once (`NodeChainPart`); so were the rows, and all but as many entries as
    writes failed have one (`NodeStorePart`); while the clock never goes back
    nothing accepted is ahead of it, and while no write failed either the chain
    has every row (`NodeClockPart`); mempool and job are what the code checked
    when it made them (`NodeWorkPart`); and, where no block from elsewhere does,
    no block spends an output twice (`NodeConflictPart`). A row that was valid
    once is valid under its parent in every tree, and rows are replayed by
    height, parents first, so a replay rebuilds the tree but for the clock. Hence
    `StoreRebuildsTheChain` when the clock loses nothing (`MaxClockLoss = 0`),
    `ReplayLosesOnlyOrphans` always, `MinedSupplyIsConserved` when every offered
    block is `ConflictFree`, and the two facts on jobs and shares.
  * The queries read a chain that is sound in every state (`ChainInvariant`).
    `SignedRawIsAccepted`: every unspent output was made by one block of the
    branch, so the wallet finds its owner, and a body that pays its inputs but a
    fee meets every condition of `TransactionApplies`. `HistoryExplainsBalance`:
    the items of a block explain by how much it changes what an address holds
    (`ItemsShowGain`), be it change, a payment to oneself or to an own address;
    along the branch this adds up to the unspent outputs (`HeldOnBranch`), and
    all answers that list, filter or scan them to one sum.
  * `PagesShowOneHistory`: items have sources, a block and a transaction (`IsAt`),
    by which the list of an address is sorted and has no transaction twice, and
    two lists agree about one (`AreHistories`). An item beyond the first m of its
    list comes after m others in the merge, each kept in its place or on an
    earlier list (`DeepItemsRankLow`). So the first m of the merge of all items
    are those of the merge of pages of m (`MergesAgree`), and a window that ends
    by m is one of both (`WindowsAgree`). Ranks are an injection into as many
    numbers as there are items, hence onto (`RanksFill`): every place of the list
    holds an item, and by its source the lookup finds it.
* `EmissionProofs`. The issue stays within the cap; every block of a run earns one
  subsidy, by block and by run. The length of a run is a quotient, so lemmas turn
  division into bounds (`DivBounds`, `DivUnique`, `FitsOnceMore`), and
  `DecayStays` shows that what a run pays leaves the quotient of the decay phase
  where it was. `StopsOnlyAtCapBeforeTheTail`: if the constants are whole EDX
  (`WholeSchedule`, as they are), every subsidy of the first two phases is, since
  the decay rounds down to whole EDX and never below one; so what remains is
  too, and nothing is stranded before the tail. In the tail a remainder smaller
  than the fixed subsidy would be; that the real constants reach the cap before
  is what `emission_real` computes.
* `PeerLinksProofs`. `LinksInv`: a record has its timer, or exactly one
  connection it owns, in which its socket is; an end that is open and unbroken
  belongs to a running node. `OneAttemptPerPeer` needs the converse too: a
  connection that is owned has a record without a timer.
* `ConnectionManagerProofs`. `ManagerInv`: every link `LinkHolds`, every call
  fits its link (`Fits`), and on known peers flag and timer go together. The
  lemmas follow one operation of a link each; `SomeClosed` and `RowsOfLinks`
  carry those that change many links at once.
* `WalletSyncProofs`. `SyncInv`: types, rows that are `Linked` and of bounded
  height, and a page that lies on one chain (its blocks have distinct heights).
  `RowsLink` follows: appending a page that attaches, truncating, sealing down to
  the anchor and rebuilding keep the rows one piece of one chain.
  * `TablesOf(X)` writes the whole index of a set of transactions down without
    an order. `IndexGrows` shows that `upsertTxIndex` takes the index of X to
    that of X with one transaction more, whatever the order of the earlier
    ones; two inductions carry it over a block and over a batch
    (`BlockIndexGrows`, `BatchIndexGrows`), and `TruncationForgets` shows that
    the deletes of a truncation leave exactly the index of the rows kept. That
    is `ViewsFollowRows` until the first seal.
  * After a seal the tables also hold own outputs of sealed blocks. `StoredInv`
    therefore says less of the tables (`Faithful`: the transactions of the rows at
    their heights, and own ones at the height of a row or of a sealed block) and
    more of the segments: all lie on the branch of the last one's end, each
    holds that branch from its start to its end with its index, and the rows
    reach down to where the last one ended (`RootedAt`).
    `StoredTransactionsAreFound` follows, whether or not the rows still meet the
    last segment.
* `WalletSendProofs`, for `TransactionPlanner` and `WalletSend`. `WalletInv`:
  coins have names of their own; transactions that the node took and has not
  dropped spend different coins, and such a coin is either still waiting with
  its spender in the mempool or no longer a coin. The name of a change coin is
  an arithmetic function of height and a spent coin (`ChangeNames`), which is
  what the proof that names never repeat is about.
  * The planner. Payments lie end to end on a line, and a chunk pays what lies
    between the position already paid and the next (`PaidBetween`); two adjoining
    stretches pay what their union does (`PartsMeet`), so chunks pay exactly the
    line up to `plan.paid`, to every address (`ChunksInv`). `PlanInv` is the loop
    invariant of `planAddressChunks`: besides, the batch is of one address, within
    the input limit, and shares nothing with the chunks. `TakeHolds` carries it
    over one coin, `PlanningHolds` over the fold, whose order the provers only
    need to be a strict one (`OrderIsStrict`, `LastIsThere`). Hence
    `PlannerIsSound`: for any coins, payments and fee, no plan or an exact one.
  * The calls. `CallInv`: a call has no plan while it reads and keeps the one it
    makes, an upload only the first transaction of it; every transaction that
    the node took is one of a plan. So each can be given a place of its own
    among the plans (`PaidWasPlanned`), and what was paid to an address is at
    most the sum of what the plans pay it, call by call at most what was asked
    (`PaidIsAsked`).
* `WalletFilesProofs`. `FilesInv`: the plaintext file and its backup are never
  both there, since it is moved once; and what a session found when it looked
  (`SessionHolds`): whoever is to write the vault found none, or had moved it to
  the backup, whoever is to move it found it whole, and whoever writes a key
  file writes the key that was readable in it. So a file is lost only to a
  session whose `seen` is out of date, which is what the theorems except; no
  number of processes, crashes or rebuilds is assumed. `AddressInv`: whoever is
  deriving has read the counters as they are.
* `WalletAppProofs`. Four invariants over every action of the shell and the
  console: log, transfers (a dialog that confirms a transfer is open only with
  none in flight), prompts, and the focus (`FormOK`: which rows each focus may
  name).

Left to TLC: `BlockSync` (`FetchAttaches` depends on the network, see the
findings); `StopsOnlyAtCap` in the tail phase; and all liveness, with the
`ENABLED` that fairness stands on.

## 5. Findings

Where the code does not do what its comments or documents say. The definitions
named state the claim and are in no run, since the code breaks them; `findings`
quotes the lines.

* The cap is met at height 18,096,324, in the decay phase; the tail phase is
  never reached (`Emission.TailEmissionIsPayable`).
* A block that spends one output twice is accepted and creates coins
  (`Chain.OnlyMiningCreatesCoins`).
* The work of a block falls as its difficulty grows
  (`Chain.BestChainTookMostHashing`).
* Encoding an accepted block throws before peers and miners are told
  (`NodeService.MinersFollowTheTip`).
* The node refuses `/chain/blocks` and the wallet sends no block it is asked to
  submit, for the same reason: a wallet never downloads a block from a node of
  this repository (`WalletSync.ClosesAPage`), and `submitblock` reports every
  block rejected (`WalletQueries.SubmittedBlocksAreJudged`).
* Mining during a download, or a relay that changes to the branch of a third node,
  can leave the fork point too high for ever: `locate` counts side branches.
* A wallet more than a page behind asks for blocks it is never sent, also by a
  node that encodes its pages (`WalletSync.CatchesUp`).
* A roll-back below a sealed segment makes every later seal fail; the branch
  that would finish an interrupted seal is never reached; the transactions of
  the reported tip are those of the local block at its height.
* An upload retried while its tip is under way is charged again
  (`WalletSend.RetriesNeverDoubleCharge`); nothing ever locks the gateway.
* A removed peer is kept alive by a call that was under way
  (`ConnectionManager.RemovedIsForgotten`).
* A mistyped password is not asked for again; two secrets are shown without a
  fresh confirmation.
* Two processes that derive an address in the same moment can lose its counter.
* Two processes that set up one directory, or set it up and migrate a plaintext
  file, replace each other's vault: the mnemonic of the first may be on no disk
  (`WalletFiles.ExistingVaultIsUnchanged`).
* Two processes that start on one directory each generate a communication key,
  and the file keeps one (`WalletFiles.RegisteredKeysStayValid`).
* The windows of `listtransactions` miss entries when the times of a branch go
  back: the node's pages hold the highest blocks, the wallet sorts by time
  (`WalletQueries.PagesMissNothing`).
* `fundrawtransaction` adds nothing, `getrawtransaction` has no signature,
  and `testmempoolaccept` looks at no output.

Also seen while reading, without a claim they contradict:

* `difficulty.ts:39` throws on a window whose timestamps do not increase, and
  `chain.ts:169` accepts such windows: nothing can extend such a chain.
  `LwmaIsDefined` guards every use. `difficulty.ts:45` multiplies the sum, not
  the mean, of the difficulties.
* `service.ts:130` takes the transactions of side-branch blocks out of the
  mempool; a reorganisation returns none. A payment whose output is gone stays in
  it and in every later job.
* `p2p.ts:649` asks for a longer chain, not only a heavier one, and a fork deeper
  than `MAX_BLOCKS_PER_SYNC_RUN` starts again in every pass.
* `transactionPlanner.ts:195` gives up when a batch does not exceed its fee, also
  when other coins would do (`failed` of `CloseBatch`).
* `rpc/server.ts`: `sendall` asks for the whole balance, which leaves nothing for
  the fee; `sendmany` takes a last string for the password; `listunspent` says
  spendable of everything.
* Pasted console lines run at the same time (`EnterLines`).

## 6. Not modelled

* RandomX, signatures, hashing, key derivation and encryption: symbolic, and
  injective where that matters. Canonical encoding and decimal amounts: only
  their effects (the length of a body, a number of Photons).
* Rate limits, line framing and JSON, except where encoding throws (broadcasts,
  templates, `/chain/blocks`, `submitblock`).
* Stale renders of the full screen, and reorganisations under a send.
* Configuration, argument parsing, translation tables, layout, scrolling, colours,
  QR codes, clipboard: no state a property is about.
* The outbox table and `planSplitTransfer`: nothing calls them. `wallet.ts`,
  `vault.ts` and `client.ts` of the wallet: an earlier client nothing imports.
* Pending entries in a wallet's history and the order of outputs in
  `listunspent`: `WalletQueries` describes a wallet in step with its node.
* The offline signer demo and the install and update scripts: I/O.

A block that fails a check is left out of `BlockSync` and `WalletSync`: nodes
there serve valid blocks, whose checks are `Chain`'s. The three models of one
wallet request (links, sync, send) are checked apart: `ConnectionManager` shows
that a request ends and `WalletSend` and `WalletSync` assume only that and that
answers and requests may be lost.

## 7. What could be added

`FetchAttaches` of `BlockSync` proved for every network in which no node leaves a
branch that it served (in others it fails, see the findings); the RPC budget of
a peer connection; a composition of `WalletSync` with `WalletSend`, where a send
reads the wallet's own database.
