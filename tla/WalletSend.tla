----------------------------- MODULE WalletSend -----------------------------
(***************************************************************************)
(* Spending: the wallet's send() and the uploads of the game gateway       *)
(* (core/walletCore.ts, game/gameGate.ts, game/gameStore.ts) against the   *)
(* mempool and the blocks of a node.                                       *)
(*                                                                         *)
(* A job is one call of either.  It reads the coins address by address,    *)
(* plans, and posts its transactions one by one; the others, the node and  *)
(* the miners move between any two of its steps.  The node is one: the     *)
(* peers a request is sent to next hold the same chain and mempool.  Its   *)
(* chain only grows (Chain and WalletSync have the reorganisations), its   *)
(* mempool forgets what it evicts and, in a restart, everything.  The      *)
(* gateway's lock is left out: nothing in the wallet ever sets it.         *)
(***************************************************************************)
EXTENDS TransactionPlanner

CONSTANTS
    Jobs,           \* calls of send() and uploads, each made once
    InitialCoins,   \* the wallet's coins at the start
    Requests,       \* payment sequences the user may ask for
    Fees,           \* fees that resolveFee may return
    Studio,         \* gamefeeaddress
    Tip,            \* gamefee
    Cap,            \* gamefeeperday
    UploadIds,
    Tries,          \* the peers and links one request is sent over
    MaxBlocks,      \* bound: blocks mined
    MaxLost,        \* bound: requests or answers lost
    MaxEvicted,     \* bound: transactions evicted before a restart of the node
    MaxRestarts     \* bound: restarts of the wallet and the node

ASSUME WalletSendAssumption ==
    /\ Fees \subseteq Nat \ {0} /\ Tip \in Nat \ {0} /\ Cap \in Nat
    /\ Tries \in Nat \ {0} /\ IsFiniteSet(Jobs)
    /\ \A p \in Requests : /\ p \in Seq(Range(p))
                           /\ \A i \in DOMAIN p : p[i][2] \in Nat \ {0}

NameBase == 100
Names(held) == {c.n : c \in held}
ASSUME CoinsAssumption ==
    /\ Names(InitialCoins) \subseteq 0..(NameBase - 1)
    /\ \A c, d \in InitialCoins : c.n = d.n => c = d
    /\ IsFiniteSet(InitialCoins)
    /\ \A c \in InitialCoins : /\ c.amount \in Nat /\ c.born \in Nat
                               /\ c.address \in Range(WalletAddresses)

VARIABLES
    coins,      \* confirmed coins of the wallet
    height,
    mempool,
    accepted,   \* every transaction the node ever took
    dropped,    \* those that left the mempool without a block
    jobs,
    store,      \* game.db: upload id -> transaction
    dailyFee, dailyKey, today,
    lost, restarts

nodeVars == <<coins, height, mempool, accepted, dropped>>
gateVars == <<store, dailyFee, dailyKey>>
vars == <<nodeVars, gateVars, jobs, today, lost, restarts>>

NoTx == [inputs |-> {}, outputs |-> << >>, from |-> Studio, change |-> 0]
NewJob == [kind |-> "none", at |-> "idle", payments |-> << >>, fee |-> 0, unread |-> << >>,
           read |-> {}, plan |-> << >>, next |-> 1, tries |-> 0, upload |-> "none"]

Init ==
    /\ coins = InitialCoins /\ height = 1 /\ mempool = {} /\ accepted = {} /\ dropped = {}
    /\ jobs = [j \in Jobs |-> NewJob]
    /\ store = [u \in UploadIds |-> NoTx]
    /\ dailyFee = 0 /\ dailyKey = 0 /\ today = 1
    /\ lost = 0 /\ restarts = 0

-----------------------------------------------------------------------------
(* The node *)

(* Nothing but its content names a transaction: an equal one is the same. *)
TxOf(chunk) == [inputs  |-> {c.n : c \in chunk.inputs},
                outputs |-> chunk.outputs,
                from    |-> (CHOOSE c \in chunk.inputs : TRUE).address,
                change  |-> chunk.change]

(* Mutant: the mempool looks at the chain only. *)
acceptTransaction_Conflicting(tx) == tx.inputs # {} /\ tx.inputs \subseteq Names(coins)
acceptTransaction(tx) ==
    \/ tx \in mempool
    \/ /\ tx.inputs # {} /\ tx.inputs \subseteq Names(coins)
       /\ \A other \in mempool : tx.inputs \cap other.inputs = {}

(* A full mempool evicts its oldest entry for a new one.  Whether it is full, and whether
   the oldest is the wallet's, depends on what others have sent. *)
MayEvict == Cardinality(dropped) < MaxEvicted
Takes(tx) ==
    /\ acceptTransaction(tx)
    /\ \E evicted \in {{}} \cup {{other} : other \in mempool} :
          /\ evicted # {} => MayEvict /\ tx \notin mempool
          /\ mempool' = (mempool \ evicted) \cup {tx}
          /\ dropped' = dropped \cup evicted
    /\ accepted' = accepted \cup {tx}

(* It is evicted for the transaction of someone else. *)
OthersSend ==
    /\ MayEvict
    /\ \E tx \in mempool : mempool' = mempool \ {tx} /\ dropped' = dropped \cup {tx}
    /\ UNCHANGED <<coins, height, accepted, jobs, gateVars, today, lost, restarts>>

(* The mempool is kept nowhere else. *)
NodeRestarts ==
    /\ restarts < MaxRestarts /\ restarts' = restarts + 1
    /\ mempool' = {} /\ dropped' = dropped \cup mempool
    /\ UNCHANGED <<coins, height, accepted, jobs, gateVars, today, lost>>

(* A coin is named after its block and, within it, after a coin that its transaction
   spends: no two living coins come from the same one. *)
Origin(tx) == CHOOSE i \in {n % NameBase : n \in tx.inputs} : TRUE
ChangeCoin(tx) == [n |-> NameBase * height + Origin(tx), address |-> tx.from,
                   amount |-> tx.change, born |-> height + 1]

(* Jobs list the mempool as it was: a block may hold less than it, and what it dropped. *)
IsValidBlock(block) ==
    /\ \A tx \in block : tx.inputs \subseteq Names(coins)
    /\ \A tx, other \in block : tx # other => tx.inputs \cap other.inputs = {}

Mine ==
    /\ height <= MaxBlocks
    /\ \E block \in SUBSET (mempool \cup dropped) \ {{}} :
          /\ IsValidBlock(block)
          /\ coins' = {c \in coins : \A tx \in block : c.n \notin tx.inputs}
                      \cup {ChangeCoin(tx) : tx \in {t \in block : t.change > 0}}
          /\ mempool' = mempool \ block
    /\ height' = height + 1
    /\ UNCHANGED <<accepted, dropped, jobs, gateVars, today, lost, restarts>>

-----------------------------------------------------------------------------
(* Calls begin *)

Start(j, kind, payments, fee, upload) ==
    jobs' = [jobs EXCEPT ![j] =
        [NewJob EXCEPT !.kind = kind, !.at = "reading", !.payments = payments, !.fee = fee,
                       !.unread = WalletAddresses, !.upload = upload]]

send(j, payments, fee) ==
    /\ jobs[j].at = "idle"
    /\ Start(j, "send", payments, fee, "none")
    /\ UNCHANGED <<nodeVars, gateVars, today, lost, restarts>>

(* handleUpload up to its first await: a known upload is only acknowledged, the counter
   starts again on a new day, and the tip must fit under what is counted so far. *)
findByUploadId(u) == store[u] # NoTx
handleUpload(j, u, fee) ==
    LET counted == IF dailyKey = today THEN dailyFee ELSE 0
    IN  /\ jobs[j].at = "idle"
        /\ IF findByUploadId(u) THEN UNCHANGED <<dailyKey, dailyFee>>
           ELSE dailyKey' = today /\ dailyFee' = counted
        /\ IF findByUploadId(u) \/ Tip + counted > Cap
           THEN jobs' = [jobs EXCEPT ![j].at = "ended"]
           ELSE Start(j, "upload", <<<<Studio, Tip>>>>, fee, u)
        /\ UNCHANGED <<nodeVars, store, today, lost, restarts>>

-----------------------------------------------------------------------------
(* Their steps *)

Becomes(j, job) == jobs' = [jobs EXCEPT ![j] = job]

(* An upload uses the first transaction of its plan and drops the others. *)
Planned(job, plan) ==
    IF plan = << >> THEN [job EXCEPT !.at = "failed"]
    ELSE [job EXCEPT !.at = "posting", !.tries = Tries,
                     !.plan = IF job.kind = "upload" THEN SubSeq(plan, 1, 1) ELSE plan]

(* fetchWalletUtxos: one request per address, each of the node's chain at that moment. *)
fetchWalletUtxos(j) ==
    LET job == jobs[j]
        found == {c \in coins : c.address = Head(job.unread)}
        read == [job EXCEPT !.unread = Tail(@), !.read = @ \cup found]
    IN  /\ job.at = "reading"
        /\ IF Len(job.unread) > 1 THEN Becomes(j, read)
           ELSE \E plan \in {planAddressChunks(read.read, job.payments, job.fee)} :
                    Becomes(j, Planned(read, plan))
        /\ UNCHANGED <<nodeVars, gateVars, today, lost, restarts>>

ReadFails(j) ==
    /\ jobs[j].at = "reading" /\ lost < MaxLost
    /\ lost' = lost + 1
    /\ jobs' = [jobs EXCEPT ![j].at = "failed"]
    /\ UNCHANGED <<nodeVars, gateVars, today, restarts>>

CurrentTx(j) == TxOf(jobs[j].plan[jobs[j].next])

(* The next peer is tried, until there is none. *)
(* Mutant: after the last peer comes the first. *)
TriesAgain_Forever(job) == [job EXCEPT !.tries = IF @ = 1 THEN Tries ELSE @ - 1]
(* Mutant: a try that fails plans anew. *)
TriesAgain_Replans(job) ==
    IF job.tries = 1 THEN [job EXCEPT !.at = "failed"]
    ELSE [job EXCEPT !.at = "reading", !.unread = WalletAddresses, !.read = {}, !.next = 1]
TriesAgain(job) ==
    IF job.tries = 1 THEN [job EXCEPT !.at = "failed"] ELSE [job EXCEPT !.tries = @ - 1]

(* The answer: the next transaction, or the end; an upload is recorded with it, unless a
   record was made meanwhile, and counted. *)
AfterAnswer(job) ==
    IF job.next < Len(job.plan) THEN [job EXCEPT !.next = @ + 1, !.tries = Tries]
    ELSE [job EXCEPT !.at = "ok"]

insert(job, tx) ==
    IF job.kind = "upload"
    THEN /\ store' = [store EXCEPT ![job.upload] = IF @ = NoTx THEN tx ELSE @]
         /\ dailyFee' = dailyFee + Tip /\ UNCHANGED dailyKey
    ELSE UNCHANGED gateVars

(* A request reaches the node and its answer the wallet. *)
Answered(j) ==
    /\ jobs[j].at = "posting" /\ Takes(CurrentTx(j))
    /\ Becomes(j, AfterAnswer(jobs[j]))
    /\ insert(jobs[j], CurrentTx(j))
    /\ UNCHANGED <<coins, height, today, lost, restarts>>

(* The node refuses: an HTTP answer ends the call, one over a link counts as a failure of
   that peer. *)
Refused(j) ==
    /\ jobs[j].at = "posting" /\ ~acceptTransaction(CurrentTx(j))
    /\ \/ Becomes(j, [jobs[j] EXCEPT !.at = "failed"])
       \/ Becomes(j, TriesAgain(jobs[j]))
    /\ UNCHANGED <<nodeVars, gateVars, today, lost, restarts>>

(* The node takes the transaction and its answer is lost, or the request is. *)
AnswerLost(j) ==
    /\ jobs[j].at = "posting" /\ lost < MaxLost /\ Takes(CurrentTx(j))
    /\ lost' = lost + 1
    /\ Becomes(j, TriesAgain(jobs[j]))
    /\ UNCHANGED <<coins, height, gateVars, today, restarts>>

RequestLost(j) ==
    /\ jobs[j].at = "posting" /\ lost < MaxLost
    /\ lost' = lost + 1
    /\ Becomes(j, TriesAgain(jobs[j]))
    /\ UNCHANGED <<nodeVars, gateVars, today, restarts>>

-----------------------------------------------------------------------------
(* The clock and the process *)

Midnight ==
    /\ today = 1 /\ today' = 2
    /\ UNCHANGED <<nodeVars, gateVars, jobs, lost, restarts>>

(* Calls under way end with the process; the counter of the day starts again. *)
Restart ==
    /\ restarts < MaxRestarts /\ restarts' = restarts + 1
    /\ dailyFee' = 0 /\ dailyKey' = 0
    /\ jobs' = [j \in Jobs |-> IF jobs[j].at \in {"reading", "posting"}
                               THEN [jobs[j] EXCEPT !.at = "ended"] ELSE jobs[j]]
    /\ UNCHANGED <<nodeVars, store, today, lost>>

JobStep(j) ==
    \/ fetchWalletUtxos(j) \/ ReadFails(j)
    \/ Answered(j) \/ Refused(j) \/ AnswerLost(j) \/ RequestLost(j)

Next ==
    \/ \E j \in Jobs : JobStep(j)
    \/ \E j \in Jobs, payments \in Requests, fee \in Fees : send(j, payments, fee)
    \/ \E j \in Jobs, u \in UploadIds, fee \in Fees : handleUpload(j, u, fee)
    \/ Mine \/ OthersSend \/ NodeRestarts \/ Midnight \/ Restart

(* Requests are answered or time out.  A step of a call is enabled until the call ends and
   changes it, so this is weak fairness of JobStep. *)
Underway(j) == jobs[j].at \in {"reading", "posting"}
Fairness == \A j \in Jobs : []<>(~Underway(j)) \/ []<><<TRUE>>_(jobs[j])

Spec == Init /\ [][Next]_vars /\ Fairness

-----------------------------------------------------------------------------
(* Properties *)

(* Coins have names of their own, and what the mempool holds or dropped was accepted. *)
TypeOK ==
    /\ height \in Nat \ {0}
    /\ \A c, d \in coins : c.n = d.n => c = d
    /\ Names(coins) \subseteq 0..(NameBase * height - 1)
    /\ mempool \cup dropped \subseteq accepted

(* Whatever mix of coins a call has read while others spent and blocks came, the
   transactions of a send take every coin once and from one address each, balance, give
   change only at the end, and pay every payee exactly. *)
PlansAreSound ==
    \A j \in Jobs : jobs[j].kind = "send" /\ jobs[j].plan # << >> =>
        PlanIsSound(jobs[j].plan, jobs[j].payments)

(* Lost answers, repeated requests and calls that fail half way never make the wallet
   pay a payee more than all its calls asked for. *)
AskedFor(a) == SumFunction([j \in Jobs |-> TotalTo(jobs[j].payments, a)])
PaidOnChain(a) == SumFunction([tx \in accepted |-> TotalTo(tx.outputs, a)])
Payees == {Studio} \cup UNION {{request[i][1] : i \in DOMAIN request} : request \in Requests}
NobodyIsOverpaid == \A a \in Payees : PaidOnChain(a) <= AskedFor(a)

(* Of two transactions that the node took and that spend the same coin it has dropped one:
   whatever is repeated, evicted, lost in a restart or mined late from an old job, it never
   takes a second spend of a coin while it holds the first or the chain does. *)
CoinsAreSpentOnce ==
    /\ \A tx, other \in accepted :
        tx # other /\ tx.inputs \cap other.inputs # {} => tx \in dropped \/ other \in dropped
    /\ \A tx, other \in mempool : tx # other => tx.inputs \cap other.inputs = {}

(* Every call ends. *)
JobsEnd == \A j \in Jobs : Underway(j) ~> ~Underway(j)

(* gameStore.ts: "the (gameId, uploadId) unique key makes retries idempotent so they never
   double-charge": an upload is tipped once, however often it is sent again. *)
TipsFor(u) == {tx \in accepted : \E j \in Jobs : /\ jobs[j].upload = u
                                                /\ jobs[j].plan # << >>
                                                /\ TxOf(jobs[j].plan[1]) = tx}
RetriesNeverDoubleCharge == \A u \in UploadIds : Cardinality(TipsFor(u)) <= 1
=============================================================================
