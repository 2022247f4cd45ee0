-------------------------- MODULE TransactionPlanner --------------------------
(***************************************************************************)
(* How the wallet turns payments into transactions                         *)
(* (core/transactionPlanner.ts): every transaction is funded by one        *)
(* address, so the coins are taken group by group, and a payment may be    *)
(* spread over several transactions (chunks).                              *)
(*                                                                         *)
(* A coin is [n, address, amount, born]; n stands for its txid and index.  *)
(* A payment is <<address, amount>>.                                       *)
(***************************************************************************)
EXTENDS Integers, Sequences, FiniteSets, FiniteSetsExt, Functions

CONSTANTS
    WalletAddresses,    \* the wallet's addresses, in the order their coins are read
    MaxInputs           \* SPLIT_CHUNK_MAX_INPUTS

ASSUME PlannerAssumption ==
    MaxInputs \in Nat \ {0} /\ WalletAddresses \in Seq(Range(WalletAddresses))

Total(coins) == SumFunction([c \in coins |-> c.amount])
Amounts(payments) == [i \in DOMAIN payments |-> payments[i][2]]
TotalOf(payments) == SumFunction(Amounts(payments))
AddressRank(a) == CHOOSE i \in DOMAIN WalletAddresses : WalletAddresses[i] = a

(* The richest address first, and the oldest coin first within an address. *)
Older(c, d) == c.born < d.born \/ (c.born = d.born /\ c.n < d.n)
orderUtxosByAddress(coins, c, d) ==
    LET GroupTotal(a) == Total({u \in coins : u.address = a})
    IN  IF c.address = d.address THEN Older(c, d)
        ELSE \/ GroupTotal(c.address) > GroupTotal(d.address)
             \/ /\ GroupTotal(c.address) = GroupTotal(d.address)
                /\ AddressRank(c.address) < AddressRank(d.address)
LastOf(rest, coins) == CHOOSE c \in rest : \A d \in rest : ~orderUtxosByAddress(coins, c, d)

(* The payments laid end to end: where payment i starts on that line, and how much of it
   lies between two positions. *)
Smaller(m, n) == IF m <= n THEN m ELSE n
Larger(m, n) == IF m <= n THEN n ELSE m
StartOf(payments, i) == SumFunctionOnSet(Amounts(payments), 1..(i - 1))
Overlap(payments, i, from, to) ==
    Smaller(StartOf(payments, i) + payments[i][2], to) - Larger(StartOf(payments, i), from)

(* The outputs of a chunk: what the payments have between two positions. *)
PaidBetween(payments, from, to) ==
    LET touched == {i \in DOMAIN payments : Overlap(payments, i, from, to) > 0}
    IN  [k \in 1..Cardinality(touched) |->
            LET i == Min(touched) + k - 1
            IN  <<payments[i][1], Overlap(payments, i, from, to)>>]

(* A plan in the making: the chunks so far, what they pay, and the batch being selected. *)
NoPlan == [chunks |-> << >>, paid |-> 0, batch |-> {}, failed |-> FALSE]

(* A batch ends with everything it can pay. *)
Spendable(batch, fee) == Total(batch) - fee
Pays(plan, payments, fee, amount) ==
    [plan EXCEPT !.chunks = Append(@, [inputs  |-> plan.batch,
                                       outputs |-> PaidBetween(payments, plan.paid, plan.paid + amount),
                                       fee     |-> fee,
                                       change  |-> Spendable(plan.batch, fee) - amount]),
                 !.paid = @ + amount, !.batch = {}]
CloseBatch(plan, payments, fee) ==
    IF Spendable(plan.batch, fee) <= 0 THEN [plan EXCEPT !.failed = TRUE]
    ELSE Pays(plan, payments, fee, Smaller(Spendable(plan.batch, fee), TotalOf(payments) - plan.paid))

(* Mutant: the batch goes on into the next address. *)
IsFull_AnyAddress(batch, coin) == Cardinality(batch) = MaxInputs
(* The next coin is one too many, or another address's. *)
IsFull(batch, coin) ==
    \/ Cardinality(batch) = MaxInputs
    \/ \E c \in batch : c.address # coin.address

(* The batch takes a coin, and ends when it covers what is left to pay. *)
Add(plan, coin, payments, fee) ==
    IF plan.failed \/ plan.paid = TotalOf(payments) THEN plan
    ELSE IF Spendable(plan.batch \cup {coin}, fee) >= TotalOf(payments) - plan.paid
    THEN CloseBatch([plan EXCEPT !.batch = @ \cup {coin}], payments, fee)
    ELSE [plan EXCEPT !.batch = @ \cup {coin}]
Take(plan, coin, payments, fee) ==
    Add(IF plan.batch # {} /\ IsFull(plan.batch, coin) THEN CloseBatch(plan, payments, fee) ELSE plan,
        coin, payments, fee)
(* The bound p makes TLC evaluate a plan once, before it is read many times. *)
Taken(plan, coin, payments, fee) ==
    CHOOSE new \in {Take(p, coin, payments, fee) : p \in {plan}} : TRUE

(* The chunks, or none: not enough money, or a batch that cannot pay its own fee. *)
Close(plan, payments, fee) ==
    IF plan.batch = {} \/ plan.failed THEN plan ELSE CloseBatch(plan, payments, fee)
ChunksOf(plan, payments) ==
    IF plan.failed \/ plan.paid < TotalOf(payments) THEN << >> ELSE plan.chunks
planAddressChunks(coins, payments, fee) ==
    LET all == MapThenFoldSet(LAMBDA coin, plan : Taken(plan, coin, payments, fee), NoPlan,
                              LAMBDA coin : coin, LAMBDA rest : LastOf(rest, coins), coins)
    IN  IF Total(coins) < TotalOf(payments) + fee THEN << >>
        ELSE ChunksOf(Close(all, payments, fee), payments)

-----------------------------------------------------------------------------
(* What a plan promises *)

ChunkBalances(chunk) ==
    /\ chunk.inputs # {} /\ Cardinality(chunk.inputs) <= MaxInputs
    /\ \A c, d \in chunk.inputs : c.address = d.address
    /\ Total(chunk.inputs) = TotalOf(chunk.outputs) + chunk.change + chunk.fee
    /\ chunk.change >= 0 /\ \A i \in DOMAIN chunk.outputs : chunk.outputs[i][2] > 0

(* What goes to one address. *)
TotalTo(payments, address) ==
    SumFunctionOnSet(Amounts(payments), {i \in DOMAIN payments : payments[i][1] = address})
PaidTo(chunks, address) ==
    SumFunction([k \in DOMAIN chunks |-> TotalTo(chunks[k].outputs, address)])

PlanIsSound(chunks, payments) ==
    /\ \A k \in DOMAIN chunks : ChunkBalances(chunks[k])
    /\ \A k, m \in DOMAIN chunks : k # m => chunks[k].inputs \cap chunks[m].inputs = {}
    /\ \A k \in DOMAIN chunks : chunks[k].change > 0 => k = Len(chunks)
    /\ \A i \in DOMAIN payments :
           PaidTo(chunks, payments[i][1]) = TotalTo(payments, payments[i][1])
=============================================================================
