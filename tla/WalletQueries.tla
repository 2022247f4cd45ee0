----------------------------- MODULE WalletQueries -----------------------------
(***************************************************************************)
(* What a wallet reads off a node's chain and shows: the answers of        *)
(* /wallet/utxos, /wallet/history and /transactions (apps/node/src/rpc.ts, *)
(* service.ts) and what walletCore.ts and rpc/server.ts make of them, and  *)
(* the raw transactions that are signed from them.                         *)
(*                                                                         *)
(* Every operator is a query of the state of Chain and changes nothing.    *)
(* The wallet has caught up (see WalletSync), so its height and hash are   *)
(* the node's, and nothing is pending.  An item is what JSON makes of a    *)
(* transaction in history; own is the sequence of the wallet's addresses,  *)
(* the main one first.  Outputs are sets: their order is shown nowhere     *)
(* but in the windows of listunspent, which are left out.                  *)
(***************************************************************************)
EXTENDS Chain

CONSTANTS
  Wallets,              \* address sequences a wallet may have
  PageSizes,            \* counts and skips a caller may ask for
  RawFees,              \* fees a caller may put into a raw transaction
  Absent, Label         \* a parameter that is not there, and a label

ASSUME WalletsAssumption ==
  \A own \in Wallets : own # <<>> /\ own \in Seq(Addresses) /\ IsInjective(own)

ASSUME LabelAssumption == Label # Absent /\ Label \notin Nat

Height == bestHash.header.height
BestPath == ancestry(entries, bestHash)
BestState == entries[bestHash].state
SumAmounts(utxos) == SumFunction([utxo \in utxos |-> utxo.amount])

-----------------------------------------------------------------------------
\* The node.

\* GET /wallet/utxos: the confirmed outputs of an address.
utxosOf(address) ==
  {[outpoint |-> o, address |-> BestState.utxos[o].address, amount |-> BestState.utxos[o].amount,
    birthHeight |-> BestState.utxos[o].birthHeight, isCoinbase |-> BestState.utxos[o].isCoinbase,
    spendable |-> IsMature(BestState.utxos[o], Height)]
     : o \in {o \in DOMAIN BestState.utxos : BestState.utxos[o].address = address}}

coinbaseItem(block) ==
  LET output == block.coinbase.outputs[1]
  IN  [txid |-> coinbaseId(block), type |-> "mining", category |-> "receive",
       amount |-> output.amount, fee |-> 0,
       confirmations |-> Height - block.header.height + 1,
       matureAtHeight |-> block.header.height + COINBASE_MATURITY,
       height |-> block.header.height, time |-> block.header.timestampSeconds,
       from |-> NoHash, inputs |-> <<>>, outputs |-> block.coinbase.outputs]

AmountTo(outputs, IsCounted(_)) ==
  SumFunction([i \in DOMAIN outputs |->
                 IF IsCounted(outputs[i].address) THEN outputs[i].amount ELSE 0])

\* What depends on who asks is given.
TransferItem(block, tx, category, amount, from) ==
  LET utxos == entries[block.header.previousHash].state.utxos
  IN  [txid |-> tx, type |-> "transfer", category |-> category, amount |-> amount, fee |-> tx.fee,
       confirmations |-> Height - block.header.height + 1, matureAtHeight |-> 0,
       height |-> block.header.height, time |-> block.header.timestampSeconds, from |-> from,
       inputs |-> [i \in DOMAIN tx.inputs |->
                     [outpoint |-> tx.inputs[i], address |-> utxos[tx.inputs[i]].address,
                      amount |-> utxos[tx.inputs[i]].amount]],
       outputs |-> tx.outputs]

\* Defect: the change counts as sent.
transactionItem_WithChange(block, tx, queriedAddress) ==
  IF tx.sender = queriedAddress
  THEN TransferItem(block, tx, "send", AmountTo(tx.outputs, LAMBDA a : TRUE), NoHash)
  ELSE TransferItem(block, tx, "receive",
                    AmountTo(tx.outputs, LAMBDA a : a = queriedAddress), tx.sender)

\* A transfer as seen from an address: what it sends to others, or receives.
transactionItem(block, tx, queriedAddress) ==
  IF tx.sender = queriedAddress
  THEN TransferItem(block, tx, "send", AmountTo(tx.outputs, LAMBDA a : a # tx.sender), NoHash)
  ELSE TransferItem(block, tx, "receive",
                    AmountTo(tx.outputs, LAMBDA a : a = queriedAddress), tx.sender)

Involves(tx, address) ==
  tx.sender = address \/ \E i \in DOMAIN tx.outputs : tx.outputs[i].address = address

ItemsOf(block, address) ==
  (IF block.coinbase.outputs[1].address = address THEN <<coinbaseItem(block)>> ELSE <<>>)
    \o FlattenSeq([i \in DOMAIN block.transactions |->
                     IF Involves(block.transactions[i], address)
                     THEN <<transactionItem(block, block.transactions[i], address)>> ELSE <<>>])

\* The most items an answer holds, and listunspent's largest confirmations.
MostItems == 10000
MostConfirmations == 9999999

FirstOf(limit, seq) == SubSeq(seq, 1, IF limit < Len(seq) THEN limit ELSE Len(seq))

\* GET /wallet/history: from the tip down, until the limit.
history(address, limitValue) ==
  LET newest == Reverse(Tail(BestPath))
      limit  == IF limitValue < 1 THEN 1 ELSE IF limitValue > MostItems THEN MostItems ELSE limitValue
  IN  FirstOf(limit, FlattenSeq([i \in DOMAIN newest |-> ItemsOf(newest[i], address)]))

\* GET /transactions/<txid>: a set of one item, seen from its sender, or none.
findTransaction(txid) ==
  UNION {LET block == BestPath[i]
         IN  {coinbaseItem(block) : b \in {b \in {block} : coinbaseId(b) = txid}} \cup
             {transactionItem(block, tx, tx.sender) : tx \in Range(block.transactions) \cap {txid}}
           : i \in 2..Len(BestPath)}

-----------------------------------------------------------------------------
\* The wallet.

\* The answers of all addresses, without an output twice.
fetchWalletUtxos(own) == UNION {utxosOf(own[i]) : i \in DOMAIN own}

IsImmature(u) == ~u.spendable /\ u.isCoinbase /\ Height < u.birthHeight + COINBASE_MATURITY

fetchWalletBalance(own) ==
  LET utxos == fetchWalletUtxos(own)
  IN  [available |-> SumAmounts({u \in utxos : u.spendable}),
       immature  |-> SumAmounts({u \in utxos : IsImmature(u)})]

getBalanceDetail(own) ==
  LET utxos == fetchWalletUtxos(own)
  IN  [chain     |-> SumAmounts(utxos),
       available |-> SumAmounts({u \in utxos : u.spendable}),
       immature  |-> SumAmounts({u \in utxos : IsImmature(u)})]

getBalances(own) ==
  [trusted |-> getBalanceDetail(own).available, immature |-> getBalanceDetail(own).immature]

Confirmations(utxo) == Height - utxo.birthHeight + 1

\* Addresses of others are ignored; none asked for means all.
listUnspent(own, minconf, maxconf, addresses) ==
  LET requested == addresses \cap Range(own)
  IN  {u \in fetchWalletUtxos(own) :
         /\ addresses # {} => u.address \in requested
         /\ Confirmations(u) \in minconf..maxconf}

scanTxOutSet(scanobjects) ==
  LET unspents == UNION {utxosOf(address) : address \in scanobjects \cap Addresses}
  IN  [txouts |-> Cardinality(unspents), total_amount |-> SumAmounts(unspents)]

getTxOut(own, outpoint) == {u \in fetchWalletUtxos(own) : u.outpoint = outpoint}

\* The items of a page of every address, with where they come from.
Fetched(own, pageSize) ==
  UNION {LET items == history(own[i], pageSize)
         IN  {[from |-> <<i, k>>, item |-> items[k]] : k \in DOMAIN items} : i \in DOMAIN own}

ComesBefore(x, y) == x.from[1] < y.from[1] \/ (x.from[1] = y.from[1] /\ x.from[2] < y.from[2])

\* A transaction that was seen before is skipped.
NotSeen(fetched) ==
  {x \in fetched : \A y \in fetched : ComesBefore(y, x) => y.item.txid # x.item.txid}

\* The sort is stable: what is as new stays in the order it was fetched in.
SortsBefore(x, y) ==
  x.item.time > y.item.time \/ (x.item.time = y.item.time /\ ComesBefore(x, y))

Rank(all, x) == Cardinality({y \in all : SortsBefore(y, x)})

\* The pages of the addresses in turn, without a transaction twice, newest
\* first.
MergedHistory(own, pageSize) ==
  LET all == NotSeen(Fetched(own, pageSize))
  IN  [k \in 1..Cardinality(all) |-> (CHOOSE x \in all : Rank(all, x) = k - 1).item]

Window(items, limit, skip) == FirstOf(limit, SubSeq(items, skip + 1, Len(items)))

\* Defect: the pages of the addresses leave no room for what is skipped.
listTransactions_Short(own, limit, skip) ==
  Window(MergedHistory(own, 2 * (IF limit > 1 THEN limit ELSE 1)), limit, skip)

\* The pages are fetched larger than the window that is cut from their merge.
listTransactions(own, limit, skip) ==
  Window(MergedHistory(own, 2 * (IF limit > 1 THEN limit ELSE 1) + 2 * skip), limit, skip)

\* Arguments of a list: a count between 1 and 500 and a skip; an absent one has
\* a default, and anything else throws.
IsCount(raw) == raw = Absent \/ raw \in 1..500
parseCount(raw, fallback) == IF raw = Absent THEN fallback ELSE raw
IsSkip(raw) == raw = Absent \/ raw \in Nat
parseSkip(raw) == IF raw = Absent THEN 0 ELSE raw

\* The RPC call: a leading label is dropped.
Argument(params, i) == IF i \in DOMAIN params THEN params[i] ELSE Absent
listtransactions(own, params) ==
  LET first == IF Argument(params, 1) = Label THEN 2 ELSE 1
      count == parseCount(Argument(params, first), 20)
  IN  FirstOf(count, listTransactions(own, count, parseSkip(Argument(params, first + 1))))

\* Only what touches an address of the wallet is shown.
getTransaction(own, txid) ==
  {view \in findTransaction(txid) :
     \/ view.from \in Range(own)
     \/ \E i \in DOMAIN view.inputs : view.inputs[i].address \in Range(own)
     \/ \E i \in DOMAIN view.outputs : view.outputs[i].address \in Range(own)}

\* The RPC call: an error, no view, for everything else.
gettransaction(own, params) ==
  IF Len(params) = 1 THEN getTransaction(own, params[1]) ELSE {}

\* Any transaction of the chain, with the block the wallet has at its height.
getRawTransactionVerbose(txid) ==
  {Put(view, "blockhash", ancestor(entries, bestHash, view.height)) : view \in findTransaction(txid)}

-----------------------------------------------------------------------------
\* Raw transactions: hex of JSON, so a body is the record itself.

\* The wallet's own database keeps the address of every output it downloaded.
outputAddressOf(outpoint) ==
  LET minted == {coinbaseId(BestPath[i]) : i \in 2..Len(BestPath)}
      known  == minted \cup UNION {Range(BestPath[i].transactions) : i \in DOMAIN BestPath}
  IN  IF outpoint.txid \in known THEN outpoint.txid.outputs[outpoint.index].address ELSE NoHash

createrawtransaction(inputs, outputs) ==
  [inputs |-> inputs, outputs |-> outputs, fee |-> 0, sender |-> NoHash, signed |-> FALSE]

\* The key of a derived address, or the main one; an address stands for its key.
addressKey(own, address) == IF address \in Range(own) THEN address ELSE own[1]

\* Nothing is added: the body and its fee stay, and the first own output is named.
fundRawTransaction(own, body) ==
  LET ours == {i \in DOMAIN body.outputs : body.outputs[i].address \in Range(own)}
  IN  [body |-> body, changepos |-> IF ours = {} THEN -1 ELSE Min(ours) - 1]

\* Only a signed body has an id.
decodeRawTransaction(body) ==
  [txid |-> IF body.signed THEN {body} ELSE {}, inputs |-> body.inputs, outputs |-> body.outputs]

\* What the node knows of a transaction, without its key and signature.
getRawTransaction(txid) ==
  {[inputs |-> [i \in DOMAIN view.inputs |-> view.inputs[i].outpoint], outputs |-> view.outputs,
    fee |-> view.fee, sender |-> NoHash, signed |-> FALSE] : view \in findTransaction(txid)}

\* Defect: the main address signs everything.
signRawTransaction_Main(own, body) ==
  IF body.signed THEN body ELSE [body EXCEPT !.sender = own[1], !.signed = TRUE]

\* The owner of the first input signs, or else the main address.
signRawTransaction(own, body) ==
  LET owner == IF body.inputs = <<>> THEN NoHash ELSE outputAddressOf(body.inputs[1])
  IN  IF body.signed THEN body
      ELSE [body EXCEPT !.sender = addressKey(own, owner), !.signed = TRUE]

\* sendRawTransaction throws on an unsigned body; the mempool is empty.
sendRawTransaction(body) ==
  body.signed /\ TransactionApplies(BestState.utxos, body, Height)

testMempoolAccept(body) == body.signed /\ validateSignedTransactionShape(body)

-----------------------------------------------------------------------------
\* submitblock.

\* What decodeBlockHex checks beyond the presence and the types of the fields.
IsDecodable(block) == block.header.difficulty >= 1

\* The difficulty of a decoded block is a bigint, which JSON.stringify throws on:
\* no link sends the block, and a failed request reads as a rejection.
submitBlock(block) == "rejected"

submitblock(block) == IF IsDecodable(block) THEN submitBlock(block) ELSE "unknown"

-----------------------------------------------------------------------------
\* Properties.

\* What an address received less what it sent and burned.
Change(item) ==
  IF item.category = "receive" THEN item.amount ELSE -(item.amount + item.fee)

Explained(items) == SumFunction([i \in DOMAIN items |-> Change(items[i])])

\* One answer of /wallet/history holds the history of every address, and
\* listunspent's largest number of confirmations reaches down to genesis.
FitsOneAnswer(own) ==
  Height <= MostConfirmations /\ \A i \in DOMAIN own : Len(history(own[i], MostItems)) < MostItems

\* However a wallet adds up its coins, the sum is what its history explains:
\* the balance, its spendable and immature parts, listunspent and scantxoutset
\* come to the items of its addresses, through change, payments to oneself and
\* payments between own addresses, whatever reorganisation made the branch best.
HistoryExplainsBalance ==
  (\A i \in DOMAIN BestPath : ConflictFree(BestPath[i])) =>
    \A own \in {own \in Wallets : FitsOneAnswer(own)} :
      LET chain == getBalanceDetail(own).chain
      IN  /\ \A i \in DOMAIN own :
               SumAmounts(listUnspent(own, 0, MostConfirmations, {own[i]}))
                 = Explained(history(own[i], MostItems))
          /\ chain = SumAmounts(listUnspent(own, 0, MostConfirmations, {}))
          /\ chain = scanTxOutSet(Range(own)).total_amount
          /\ chain = fetchWalletBalance(own).available + getBalances(own).immature
          /\ chain = SumFunction([i \in DOMAIN own |-> Explained(history(own[i], MostItems))])

\* The timestamps of a branch may go back, as long as they pass the median.
TimesAdvance ==
  \A i \in DOMAIN BestPath : i # 1 =>
    BestPath[i - 1].header.timestampSeconds <= BestPath[i].header.timestampSeconds

\* While the times of the branch do not go back, the pages of listtransactions
\* are windows of one list, although each is cut from a merge of shorter pages
\* of every address; and what is on the list is found by its id, with the same
\* block, fee, inputs and outputs.
PagesShowOneHistory ==
  TimesAdvance => \A own \in Wallets :
    \E whole \in {MergedHistory(own, MostItems)} :
      /\ \A count \in {count \in PageSizes \cup {Absent} : IsCount(count)} :
         \A skip \in {skip \in PageSizes \cup {0, Absent} : IsSkip(skip)} :
           /\ listtransactions(own, <<Label, count, skip>>)
                = Window(whole, parseCount(count, 20), parseSkip(skip))
           /\ listtransactions(own, <<count, skip>>) = listtransactions(own, <<Label, count, skip>>)
      /\ \A i \in DOMAIN whole :
           \E view \in gettransaction(own, <<whole[i].txid>>) :
             /\ \A field \in {"type", "height", "time", "fee", "inputs", "outputs"} :
                  view[field] = whole[i][field]
             /\ \A raw \in getRawTransactionVerbose(whole[i].txid) :
                  view.txid \in Range(raw.blockhash.transactions) \cup {coinbaseId(raw.blockhash)}

\* The inputs of a raw transaction a caller may put together, in any order.
MatureInputs(own, address) ==
  LET mature == {o \in DOMAIN BestState.utxos :
                   \E u \in getTxOut(own, o) : u.address = address /\ u.spendable}
  IN  {inputs \in UNION {[1..n -> mature] : n \in 1..MAX_TX_INPUTS} : IsInjective(inputs)}

\* A body that pays all of its inputs, of one address, but a fee becomes a
\* transaction the node accepts: funding it loses nothing and the wallet finds
\* the key that owns its inputs.  The raw body of a transaction the wallet has
\* sent, signed again, is that transaction.
SignedRawIsAccepted ==
  \A own \in Wallets :
    /\ \A i \in DOMAIN own : \A inputs \in MatureInputs(own, own[i]), fee \in RawFees :
         LET total == SumFunction([k \in DOMAIN inputs |-> BestState.utxos[inputs[k]].amount])
             body  == [createrawtransaction(inputs, <<[address |-> own[1], amount |-> total - fee]>>)
                         EXCEPT !.fee = fee]
         IN  fee \in 1..(total - 1) =>
               \E funded \in {fundRawTransaction(own, body)} :
               \E signed \in {signRawTransaction(own, funded.body)} :
                 /\ signed.outputs[funded.changepos + 1].address \in Range(own)
                 /\ decodeRawTransaction(signed).txid = {signed}
                 /\ sendRawTransaction(signed) /\ testMempoolAccept(signed)
    /\ \A i \in DOMAIN BestPath : \A tx \in Range(BestPath[i].transactions) :
         tx.sender \in Range(own) =>
           {signRawTransaction(own, body) : body \in getRawTransaction(tx)} = {tx}

-----------------------------------------------------------------------------
\* What comments of the code say, and the code does not do.

\* walletCore.ts: the pages have no entries that fall between them.  They do
\* when the times of the branch go back: a page holds the highest blocks of an
\* address, and what it shows are the latest.
PagesMissNothing ==
  \A own \in Wallets, count \in PageSizes :
    \A item \in Range(MergedHistory(own, MostItems)) :
      \E page \in Nat : item \in Range(listTransactions(own, count, page * count))

\* rpcCore.ts: submitblock hands the block to the node's consensus pipeline.  It
\* never does: a block the chain would take is reported rejected.
SubmittedBlocksAreJudged ==
  \A block \in Blocks :
    addBlockResult(entries, bestHash, now, block) \in {"extended", "fork"} =>
      submitblock(block) # "rejected"

=============================================================================
