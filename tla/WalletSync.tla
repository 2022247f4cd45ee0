----------------------------- MODULE WalletSync -----------------------------
(***************************************************************************)
(* The wallet core follows the chain of the nodes it talks to: every poll  *)
(* reads /chain/info and, unless a download runs already, fetches the      *)
(* missing blocks page by page into the chain database (walletCore.ts).    *)
(* Every await is a step of its own: a node answers at one step and the    *)
(* wallet handles the answer at a later one, when the node may have moved. *)
(***************************************************************************)
EXTENDS ChainStore

CONSTANTS
    Nodes,          \* the nodes that may answer a request
    Serving,        \* those that can encode the bigint difficulty of a block
    Work,           \* Work[b]: cumulative work of the chain that ends in b
    ChainOf,        \* ChainOf[b]: the block b and the blocks below it
    Refreshes,      \* refreshChain calls that may run at once
    PageSize,       \* SYNC_PAGE_SIZE (200)
    MaxFailures,    \* MAX_ANCHOR_FAILURES (5)
    MaxUserSteps,   \* bound: resync, stop and restart together
    MaxSeals,       \* bound: segments sealed
    MaxLost         \* bound: requests that fail

ASSUME WalletSyncAssumption ==
    /\ Serving \subseteq Nodes
    /\ Work \in [Blocks -> Nat]
    /\ ChainOf \in [Blocks -> SUBSET Blocks]
    /\ \A b \in Blocks :
           ChainOf[b] = {b} \cup IF Parent[b] = NoBlock THEN {} ELSE ChainOf[Parent[b]]
    /\ PageSize \in Nat \ {0} /\ MaxFailures \in Nat \ {0}
    /\ MaxUserSteps \in Nat /\ MaxSeals \in Nat /\ MaxLost \in Nat

(* The transactions of a chain, each by its block and its place there. *)
PlacesIn(b) == {<<b, i>> : i \in DOMAIN Transactions[b]}
Places(chain) == UNION {PlacesIn(b) : b \in chain}
TxAt(p) == Transactions[p[1]][p[2]]
HeightAt(p) == Height[p[1]]
Precedes(p, q) == HeightAt(p) < HeightAt(q) \/ (p[1] = q[1] /\ p[2] < q[2])

(* The nodes serve validated chains of honest miners: within one chain every transaction has
   an id of its own, and every input is an output that an earlier transaction made and no
   other spends (the ledger checks each against the state before it; a block that spends an
   output twice it would let pass, which the jobs of a node never hold). *)
IsSoundChain(chain) ==
    /\ \A p, q \in Places(chain) :
           /\ TxAt(p).id = TxAt(q).id => p = q
           /\ SpentBy(TxAt(p)) \cap SpentBy(TxAt(q)) # {} => p = q
           /\ OutpointsOf(TxAt(p)) \cap SpentBy(TxAt(q)) # {} => Precedes(p, q)
    /\ \A q \in Places(chain) : \A o \in SpentBy(TxAt(q)) :
           \E p \in Places(chain) : o \in OutpointsOf(TxAt(p))
ASSUME TransactionsAssumption ==
    /\ \A b \in Blocks : /\ Transactions[b] \in Seq(Range(Transactions[b]))
                         /\ IsSoundChain(ChainOf[b])
    /\ \A p \in Places(Blocks) :
           /\ TxAt(p).id # Nobody
           /\ \A i \in DOMAIN TxAt(p).outputs : TxAt(p).outputs[i].address # Unknown
    /\ Maturity \in Nat

VARIABLES
    tips,           \* the best block of each node
    rows,           \* table blocks of the active file
    tables,         \* its index
    segments,       \* meta "segments" and the sealed files
    isOpen,         \* database.isOpen
    syncStatus,     \* chain.syncStatus
    chainHeight,    \* chain.height: the height last reported by a node
    anchorFailures, \* syncAnchorFailures
    refresh,        \* each refreshChain call: [at, height]
    download,       \* synchronizeLocalDatabase: [at, target, local, page]
    stopped,
    userSteps, lost \* bounds

dbVars == <<rows, tables, segments, isOpen>>
coreVars == <<syncStatus, chainHeight, anchorFailures, refresh, download, stopped>>
bounds == <<userSteps, lost>>
vars == <<tips, dbVars, coreVars, bounds>>

Idle == [at |-> "idle", height |-> 0]
NoDownload == [at |-> "idle", target |-> 0, local |-> 0, page |-> {}]
syncInFlight == download.at # "idle"

Init ==
    /\ tips \in [Nodes -> {b \in Blocks : Height[b] = 0}]
    /\ rows = {} /\ tables = NoTables /\ segments = << >> /\ isOpen = TRUE
    /\ syncStatus = "syncing" /\ chainHeight = 0 /\ anchorFailures = 0
    /\ refresh = [r \in Refreshes |-> Idle]
    /\ download = NoDownload
    /\ stopped = FALSE /\ userSteps = 0 /\ lost = 0

-----------------------------------------------------------------------------
(* The nodes *)

NodeMoves(n) ==
    /\ \E b \in Blocks : Work[b] > Work[tips[n]] /\ tips' = [tips EXCEPT ![n] = b]
    /\ UNCHANGED <<dbVars, coreVars, bounds>>

(* A page is read from the best block downwards: it is the highest part of the chain. *)
canonicalBlocks(tip, start) ==
    {b \in ChainOf[tip] : Height[b] >= start /\ Height[b] > Height[tip] - PageSize}

AnswerInfo(n, r) ==
    /\ refresh[r].at = "asked"
    /\ refresh' = [refresh EXCEPT ![r] = [at |-> "answered", height |-> Height[tips[n]]]]
    /\ UNCHANGED <<tips, dbVars, syncStatus, chainHeight, anchorFailures, download, stopped, bounds>>

PageOf(n) == canonicalBlocks(tips[n], download.local + 1)

AnswerPage(n) ==
    /\ download.at = "asked"
    /\ n \in Serving \/ PageOf(n) = {}
    /\ download' = [download EXCEPT !.at = "answered", !.page = PageOf(n)]
    /\ UNCHANGED <<tips, dbVars, syncStatus, chainHeight, anchorFailures, refresh, stopped, bounds>>

(* The node answers with an error, and the wallet ends its download, still "syncing", until
   the next poll.  On the difficulty of a block JSON.stringify throws, so the nodes of this
   repository answer every page so that has a block; and any node does when a link asks too
   often. *)
RefusePage ==
    /\ download.at = "asked"
    /\ download' = NoDownload
    /\ UNCHANGED <<tips, dbVars, syncStatus, chainHeight, anchorFailures, refresh, stopped, bounds>>

-----------------------------------------------------------------------------
(* The wallet *)

(* refreshAll runs on a timer, and other commands read the chain info too. *)
Poll(r) ==
    /\ ~stopped /\ refresh[r].at = "idle"
    /\ refresh' = [refresh EXCEPT ![r].at = "asked"]
    /\ UNCHANGED <<tips, dbVars, syncStatus, chainHeight, anchorFailures, download, stopped, bounds>>

InfoFails(r) ==
    /\ refresh[r].at = "asked" /\ lost < MaxLost
    /\ lost' = lost + 1
    /\ refresh' = [refresh EXCEPT ![r] = Idle]
    /\ UNCHANGED <<tips, dbVars, syncStatus, chainHeight, anchorFailures, download, stopped, userSteps>>

Finished == /\ download' = NoDownload
            /\ syncStatus' = "synced" /\ anchorFailures' = 0
NextPage(target, local) ==
    download' = [at |-> "asked", target |-> target, local |-> local, page |-> {}]

(* synchronizeLocalDatabase up to its first await. *)
StartDownload(target) ==
    LET kept == truncateRows(rows, target)
    IN  /\ rows' = kept
        /\ tables' = IF localHeight(rows) > target THEN truncateTables(tables, target) ELSE tables
        /\ IF localHeight(kept) < target
           THEN /\ NextPage(target, localHeight(kept))
                /\ syncStatus' = IF localHeight(rows) >= target THEN "synced" ELSE "syncing"
                /\ UNCHANGED anchorFailures
           ELSE Finished

HandleInfo(r) ==
    /\ refresh[r].at = "answered"
    /\ refresh' = [refresh EXCEPT ![r] = Idle]
    /\ chainHeight' = refresh[r].height
    /\ IF ~isOpen \/ syncStatus = "error"
       THEN UNCHANGED <<rows, tables, syncStatus, anchorFailures, download>>
       ELSE IF syncInFlight
       THEN /\ syncStatus' = IF localHeight(rows) >= refresh[r].height THEN "synced" ELSE "syncing"
            /\ UNCHANGED <<rows, tables, anchorFailures, download>>
       ELSE StartDownload(refresh[r].height)
    /\ UNCHANGED <<tips, segments, isOpen, stopped, bounds>>

PageFails ==
    /\ download.at = "asked" /\ lost < MaxLost
    /\ lost' = lost + 1
    /\ download' = NoDownload
    /\ UNCHANGED <<tips, dbVars, syncStatus, chainHeight, anchorFailures, refresh, stopped, userSteps>>

(* The page starts at the block that was asked for and, in an open database, every block
   of it has its predecessor. *)
PageContinues ==
    /\ \E b \in download.page : Height[b] = download.local + 1
    /\ isOpen
    /\ BatchAttaches(rows, download.page)

AppendedRows == rows \cup BatchOf(rows, download.page)
AppendedTables == indexBlocks(tables, BatchOf(rows, download.page))

(* The database file is sealed when it has grown past its limit, which can be after any
   page that held a new block. *)
SealNothing ==
    /\ rows' = AppendedRows /\ tables' = AppendedTables /\ UNCHANGED segments
TriesToSeal ==
    /\ BatchOf(rows, download.page) # {}
    /\ CanSeal(AppendedRows, segments)
WillSeal ==
    /\ Len(segments) < MaxSeals
    /\ TriesToSeal
    /\ BoundaryMatches(AppendedRows, segments)
SealSegment ==
    /\ WillSeal
    /\ \E appended \in {AppendedTables} :
           /\ segments' = registerSegment(segments, AppendedRows, appended)
           /\ tables' = clearedTables(appended, localHeight(AppendedRows))
    /\ rows' = clearedRows(AppendedRows)

(* After a page: the next one, or the end. *)
HandlePage ==
    /\ download.at = "answered" /\ PageContinues
    /\ SealNothing \/ SealSegment
    /\ LET reached == localHeight(AppendedRows)
       IN  IF reached < download.target
           THEN /\ NextPage(download.target, reached)
                /\ anchorFailures' = 0 /\ UNCHANGED syncStatus
           ELSE Finished
    /\ UNCHANGED <<tips, isOpen, chainHeight, refresh, stopped, bounds>>

(* A chain-data error: back off and ask for the same page again, until it has happened
   too often in a row.  The latch is not set when the database has been closed. *)
failLocalChainSync ==
    download' = NoDownload /\ syncStatus' = IF isOpen THEN "error" ELSE syncStatus
(* Mutant: only the backoff grows, the failures are not counted. *)
Drift_Uncounted ==
    /\ anchorFailures' = anchorFailures
    /\ download' = [download EXCEPT !.at = "asleep", !.page = {}] /\ UNCHANGED syncStatus
Drift ==
    /\ anchorFailures' = anchorFailures + 1
    /\ IF anchorFailures + 1 >= MaxFailures
       THEN failLocalChainSync
       ELSE download' = [download EXCEPT !.at = "asleep", !.page = {}] /\ UNCHANGED syncStatus

HandleDrift ==
    /\ download.at = "answered" /\ ~PageContinues
    /\ Drift
    /\ UNCHANGED <<tips, dbVars, chainHeight, refresh, stopped, bounds>>

(* The page is stored, and then its seal fails: the rows left the sealed branch. *)
HandleBadBoundary ==
    /\ download.at = "answered" /\ PageContinues
    /\ TriesToSeal /\ ~BoundaryMatches(AppendedRows, segments)
    /\ rows' = AppendedRows /\ tables' = AppendedTables
    /\ Drift
    /\ UNCHANGED <<tips, segments, isOpen, chainHeight, refresh, stopped, bounds>>

Wake ==
    /\ download.at = "asleep"
    /\ IF stopped THEN download' = NoDownload ELSE NextPage(download.target, download.local)
    /\ UNCHANGED <<tips, dbVars, syncStatus, chainHeight, anchorFailures, refresh, stopped, bounds>>

-----------------------------------------------------------------------------
(* The user, and crashes *)

UserStep == userSteps < MaxUserSteps /\ userSteps' = userSteps + 1

(* rebuild() deletes the file and every segment; a download in flight is not told. *)
Resync(r) ==
    /\ UserStep /\ ~stopped /\ refresh[r].at = "idle"
    /\ rows' = {} /\ tables' = NoTables /\ segments' = << >> /\ isOpen' = TRUE
    /\ anchorFailures' = 0 /\ syncStatus' = "syncing"
    /\ refresh' = [refresh EXCEPT ![r].at = "asked"]
    /\ UNCHANGED <<tips, chainHeight, download, stopped, lost>>

Stop ==
    /\ UserStep /\ ~stopped
    /\ stopped' = TRUE /\ isOpen' = FALSE
    /\ UNCHANGED <<tips, rows, tables, segments, syncStatus, chainHeight, anchorFailures,
                   refresh, download, lost>>

(* A new process on the same files: constructor, start() and its first refresh. *)
FreshCore ==
    /\ isOpen' = chainLinkageHolds(rows')
    /\ syncStatus' = IF chainLinkageHolds(rows') THEN "syncing" ELSE "error"
    /\ chainHeight' = 0 /\ anchorFailures' = 0
    /\ refresh' = [r \in Refreshes |-> Idle] /\ download' = NoDownload
    /\ stopped' = FALSE

Restart ==
    /\ UserStep
    /\ UNCHANGED <<rows, tables, segments>>
    /\ FreshCore
    /\ UNCHANGED <<tips, lost>>

(* The process ends between the registration of a segment and the clearing of the file. *)
CrashWhileSealing ==
    /\ UserStep
    /\ download.at = "answered" /\ PageContinues /\ WillSeal
    /\ segments' = registerSegment(segments, AppendedRows, AppendedTables)
    /\ rows' = AppendedRows /\ tables' = AppendedTables
    /\ FreshCore
    /\ UNCHANGED <<tips, lost>>

RefreshRuns(r) == Poll(r) \/ HandleInfo(r) \/ \E n \in Nodes : AnswerInfo(n, r)
DownloadRuns ==
    (\E n \in Nodes : AnswerPage(n)) \/ RefusePage \/ HandlePage \/ HandleDrift \/ HandleBadBoundary \/ Wake

Next ==
    \/ \E n \in Nodes : NodeMoves(n)
    \/ \E r \in Refreshes : RefreshRuns(r) \/ InfoFails(r) \/ Resync(r)
    \/ DownloadRuns \/ PageFails
    \/ Stop \/ Restart \/ CrashWhileSealing

(* The timer of start() and the event loop: a call in flight and the download keep moving.
   One of their steps is enabled whenever they are not idle (and a poll always, until the
   wallet stops), so this is weak fairness of RefreshRuns and DownloadRuns, stated on the
   variable that each of these steps changes. *)
Fairness ==
    /\ []<>(download.at = "idle") \/ []<><<TRUE>>_download
    /\ \A r \in Refreshes :
           []<>(stopped /\ refresh[r].at = "idle") \/ []<><<TRUE>>_(refresh[r])

Spec == Init /\ [][Next]_vars /\ Fairness

-----------------------------------------------------------------------------
(* Properties *)

StoredChain == rows \cup UNION {segments[k].rows : k \in DOMAIN segments}
StoredTransactions == UNION {Range(Transactions[b]) : b \in StoredChain}
UnspentOf(txs, addresses) ==
    {o \in UNION {OutpointsOf(tx) : tx \in txs} :
        /\ \A tx \in txs : o \notin SpentBy(tx)
        /\ \E tx \in txs : tx.id = o[1] /\ tx.outputs[o[2]].address \in addresses}
OwnUnspentOf(txs) == UnspentOf(txs, OwnAddresses)
MatureAt(height) ==
    {o \in UNION {OutpointsOf(tx) : tx \in StoredTransactions} :
        \A b \in StoredChain : \A tx \in Range(Transactions[b]) :
            tx.id = o[1] /\ tx.type = "mining" => Height[b] + Maturity <= height}
Addresses == UNION {{tx.outputs[i].address : i \in DOMAIN tx.outputs} : tx \in StoredTransactions}
OwnUnspentView == UNION {addressUnspent(tables, a) : a \in OwnAddresses}

TypeOK ==
    /\ tips \in [Nodes -> Blocks]
    /\ rows \subseteq Blocks
    /\ isOpen \in BOOLEAN /\ stopped \in BOOLEAN
    /\ syncStatus \in {"syncing", "synced", "error"}
    /\ chainHeight \in Nat /\ anchorFailures \in Nat
    /\ refresh \in [Refreshes -> [at : {"idle", "asked", "answered"}, height : Nat]]
    /\ download \in [at : {"idle", "asked", "answered", "asleep"}, target : Nat,
                     local : Nat \cup {-1}, page : SUBSET Blocks]

(* Whatever pages arrive, late, after a rebuild, across a reorganisation, a seal or a
   crash, the stored rows are one linked piece of one chain: the check at the next start
   (integrityCheck) passes. *)
RowsLink ==
    /\ \A b, c \in rows : Height[b] = Height[c] => b = c
    /\ chainLinkageHolds(rows)

(* Until a first segment is sealed, the index that appends and truncations have built is
   the one a fresh indexing of the stored blocks gives, the unspent outputs of every
   address are those of the ledger, and the spendable ones are the mature of them. *)
ViewsFollowRows ==
    segments = << >> => /\ tables = indexBlocks(NoTables, rows)
                        /\ OwnUnspentView = OwnUnspentOf(StoredTransactions)
                        /\ \A a \in Addresses \ OwnAddresses :
                               foreignUnspent(tables, segments, a)
                                   = UnspentOf(StoredTransactions, {a})
                        /\ \A a \in OwnAddresses :
                               /\ addressUtxos(tables, a, chainHeight) \subseteq MatureAt(chainHeight)
                               /\ addressImmature(tables, a, chainHeight)
                                      \cap MatureAt(chainHeight) = {}

(* A transaction of the stored chain is found, in the active file or in the segment the
   lookup picks for it (getLocalTx), and a stored block always lists all of its own
   transactions and no others (getBlock), whatever seals, crashes and roll-backs did. *)
StoredTransactionsAreFound ==
    /\ \A tx \in StoredTransactions : getLocalTx(tables, segments, tx.id)
    /\ \A b \in rows :
           getBlock(rows, NoBlock, tables, b) = {tx.id : tx \in Range(Transactions[b])}

(* The status never stays "syncing" while pages are served: the wallet has what the node
   reported, or the failures have added up to the error state, or the wallet is stopped,
   or its polls go on and nodes refuse pages again and again. *)
SyncingEnds ==
    \/ []<>(syncStatus # "syncing" \/ stopped)
    \/ []<><<RefusePage>>_vars

NodesAreDone == \A n \in Nodes, b \in Blocks : Work[b] <= Work[tips[n]]
Undisturbed ==
    /\ NodesAreDone /\ userSteps = MaxUserSteps /\ isOpen
    /\ syncStatus # "error" /\ anchorFailures = 0
    /\ ~syncInFlight /\ \A r \in Refreshes : refresh[r].at = "idle"
OnTheChain == \A n \in Nodes : rows \subseteq ChainOf[tips[n]]
LagOf(n) == Height[tips[n]] - localHeight(rows)
AtTheTip == syncStatus = "synced" /\ \A n \in Nodes : tips[n] \in rows

(* walletCore.ts: "Download the missing tail of the local chain database from the connected
   node": so a wallet at most a page behind, with no call in flight, should get to the tip. *)
ClosesAPage == Undisturbed /\ OnTheChain /\ (\A n \in Nodes : LagOf(n) <= PageSize) ~> AtTheTip

(* walletCore.ts: "Pages are requested in ascending height order": so any wallet that is
   behind should get there, when nodes serve it. *)
CatchesUp == Undisturbed /\ OnTheChain ~> AtTheTip
=============================================================================
