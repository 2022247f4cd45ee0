----------------------------- MODULE ChainStore -----------------------------
(***************************************************************************)
(* The wallet's chain database (core/walletDatabase.ts): the block rows,   *)
(* the index of transactions, outputs and spendings, the resident view of  *)
(* the wallet's own outputs, and the sealed segments.                      *)
(*                                                                         *)
(* A block is a value; its height, its parent and its transactions (the    *)
(* coinbase first) are constants.  An output is named <<txid, index>>.     *)
(* The tables of one database file form the record "tables"; amounts,      *)
(* encodings and file formats are left out.  Everything here is a function *)
(* of its arguments: WalletSync holds the state.                           *)
(***************************************************************************)
EXTENDS Integers, Sequences, FiniteSets, SequencesExt, Folds

CONSTANTS
    Blocks,         \* the blocks nodes may serve
    Height,         \* Height[b]: header.height
    Parent,         \* Parent[b]: header.previousHash, or NoBlock
    NoBlock,        \* the previousHash of a genesis block
    Transactions,   \* Transactions[b]: sequence of [id, type, inputs, outputs]
    OwnAddresses,   \* the wallet's derived addresses
    Nobody,         \* spent_txid IS NULL
    Unknown,        \* the address of an input whose output is not indexed
    Maturity,       \* COINBASE_MATURITY
    MinSealHeight   \* the tip height below which nothing is sealed (4)

ASSUME ChainStoreAssumption ==
    /\ NoBlock \notin Blocks
    /\ Height \in [Blocks -> Nat]
    /\ Parent \in [Blocks -> Blocks \cup {NoBlock}]
    /\ \A b \in Blocks : /\ Height[b] = 0 <=> Parent[b] = NoBlock
                         /\ Height[b] > 0 => Height[Parent[b]] = Height[b] - 1
    /\ Nobody \notin OwnAddresses /\ Unknown \notin OwnAddresses
    /\ MinSealHeight \in Nat

NoTables == [transactions |-> << >>,     \* txid -> height
             outputs      |-> << >>,     \* tx_outputs: outpoint -> row
             inputs       |-> {},        \* tx_inputs: <<txid, outpoint>>
             addressTxs   |-> {},        \* address_txs: <<address, txid, height>>
             ownTxs       |-> << >>,     \* own_txs
             ownOutputs   |-> << >>]     \* own_utxos

-----------------------------------------------------------------------------
(* Block rows: a set of blocks, one per height *)

Tips(rows) == {b \in rows : \A c \in rows : Height[c] <= Height[b]}
localTip(rows) == CHOOSE b \in Tips(rows) : TRUE
localHeight(rows) == IF rows = {} THEN -1 ELSE Height[localTip(rows)]
blockAt(rows, h) == {b \in rows : Height[b] = h}

(* integrityCheck: no gap from the first row on, every row extends the one below it.
   The genesis rows of one network are the same block. *)
chainLinkageHolds(rows) ==
    \A b \in rows : \/ \A c \in rows : Height[b] <= Height[c]
                    \/ Parent[b] \in rows

(* The blocks of an answer that are new, and whether each has its predecessor below it. *)
BatchOf(rows, page) == {b \in page : Height[b] > localHeight(rows)}
BatchAttaches(rows, page) ==
    \A b \in BatchOf(rows, page) : Height[b] = 0 \/ Parent[b] \in rows \cup BatchOf(rows, page)

-----------------------------------------------------------------------------
(* The index *)

OutpointsOf(tx) == {<<tx.id, i>> : i \in DOMAIN tx.outputs}
SpentBy(tx) == {tx.inputs[i] : i \in DOMAIN tx.inputs}

outputAddressOf(tables, outpoint) ==
    IF outpoint \in DOMAIN tables.outputs THEN tables.outputs[outpoint].address ELSE Unknown

(* An inserted output row keeps the spending mark of the row it replaces. *)
OutputRows(table, tx, height, outpoints) ==
    [o \in DOMAIN table \cup outpoints |->
        IF o \notin outpoints THEN table[o]
        ELSE [address |-> tx.outputs[o[2]].address,
              height  |-> height,
              mature  |-> IF tx.type = "mining" THEN height + Maturity ELSE 0,
              spent   |-> IF o \in DOMAIN table THEN table[o].spent ELSE Nobody]]

MarkSpent(table, outpoints, txid) ==
    [o \in DOMAIN table |-> IF o \in outpoints THEN [table[o] EXCEPT !.spent = txid] ELSE table[o]]

WithRow(table, key, value) ==
    [k \in DOMAIN table \cup {key} |-> IF k = key THEN value ELSE table[k]]

(* Input addresses come from the outputs indexed in the active file: an output that is
   not there has no address, and the own view does not see it spent. *)
upsertTxIndex(tables, tx, height) ==
    LET addressed == [o \in SpentBy(tx) |-> outputAddressOf(tables, o)]
        ownSpent  == {o \in SpentBy(tx) : addressed[o] \in OwnAddresses}
        ownMade   == {o \in OutpointsOf(tx) : tx.outputs[o[2]].address \in OwnAddresses}
        touched   == ({addressed[o] : o \in SpentBy(tx)} \ {Unknown})
                        \cup {tx.outputs[i].address : i \in DOMAIN tx.outputs}
        mapped    == {a \in touched : \A m \in tables.addressTxs : m[1] # a \/ m[2] # tx.id}
        unmarked  == {o \in ownSpent \cap DOMAIN tables.ownOutputs :
                        tables.ownOutputs[o].spent = Nobody}
        affected  == ownSpent # {} \/ ownMade # {}
    IN  [transactions |-> WithRow(tables.transactions, tx.id, height),
         outputs      |-> OutputRows(MarkSpent(tables.outputs, SpentBy(tx), tx.id),
                                     tx, height, OutpointsOf(tx)),
         inputs       |-> tables.inputs \cup {<<tx.id, o>> : o \in SpentBy(tx)},
         addressTxs   |-> tables.addressTxs \cup {<<a, tx.id, height>> : a \in mapped},
         ownTxs       |-> IF affected THEN WithRow(tables.ownTxs, tx.id, height) ELSE tables.ownTxs,
         ownOutputs   |-> IF affected
                          THEN OutputRows(MarkSpent(tables.ownOutputs, unmarked, tx.id),
                                          tx, height, ownMade)
                          ELSE tables.ownOutputs]

(* The bound t makes TLC evaluate a table once, before it is read many times. *)
Indexed(tables, tx, height) == CHOOSE new \in {upsertTxIndex(t, tx, height) : t \in {tables}} : TRUE
indexBlock(tables, b) ==
    FoldLeft(LAMBDA t, tx : Indexed(t, tx, Height[b]), tables, Transactions[b])

(* Lowest block first: the highest block of a batch is indexed after the rest. *)
indexBlocks(tables, batch) ==
    MapThenFoldSet(LAMBDA b, t : indexBlock(t, b), tables, LAMBDA b : b, localTip, batch)

-----------------------------------------------------------------------------
(* Roll-back *)

KeepKeys(table, Keep(_)) == [k \in {j \in DOMAIN table : Keep(j)} |-> table[k]]
Unspend(table, txids) ==
    [o \in DOMAIN table |->
        IF table[o].spent \in txids THEN [table[o] EXCEPT !.spent = Nobody] ELSE table[o]]

truncateRows(rows, height) == {b \in rows : Height[b] <= height}
(* Mutant: the outputs that rolled-back transactions spent stay spent in the own view. *)
truncateTables_KeepsSpent(tables, height) ==
    LET victims == {t \in DOMAIN tables.transactions : tables.transactions[t] > height}
        Made(o) == o[1] \notin victims
        Stays(t) == t \notin victims
    IN  [transactions |-> KeepKeys(tables.transactions, Stays),
         outputs      |-> KeepKeys(Unspend(tables.outputs, victims), Made),
         inputs       |-> {i \in tables.inputs : Stays(i[1])},
         addressTxs   |-> {m \in tables.addressTxs : Stays(m[2])},
         ownTxs       |-> KeepKeys(tables.ownTxs, Stays),
         ownOutputs   |-> KeepKeys(tables.ownOutputs, Made)]
truncateTables(tables, height) ==
    LET victims == {t \in DOMAIN tables.transactions : tables.transactions[t] > height}
        Made(o) == o[1] \notin victims
        Stays(t) == t \notin victims
    IN  [transactions |-> KeepKeys(tables.transactions, Stays),
         outputs      |-> KeepKeys(Unspend(tables.outputs, victims), Made),
         inputs       |-> {i \in tables.inputs : Stays(i[1])},
         addressTxs   |-> {m \in tables.addressTxs : Stays(m[2])},
         ownTxs       |-> KeepKeys(tables.ownTxs, Stays),
         ownOutputs   |-> KeepKeys(Unspend(tables.ownOutputs, victims), Made)]

-----------------------------------------------------------------------------
(* Sealed segments: a copy of the active file, registered with its range and its last
   block; then the active file is cleared below the last block, which stays as anchor.
   A seal that finds its range registered already returns before it clears: the range it
   would seal starts above the tip. *)

SealStart(segments) == IF segments = << >> THEN 0 ELSE Last(segments).end + 1
CanSeal(rows, segments) ==
    /\ localHeight(rows) >= MinSealHeight
    /\ localHeight(rows) >= SealStart(segments) + 1
BoundaryMatches(rows, segments) ==
    segments # << >> => \A b \in blockAt(rows, SealStart(segments)) : Parent[b] = Last(segments).endHash
(* Mutant: the copy is taken after the file has been cleared. *)
registerSegment_Cleared(segments, rows, tables) ==
    LET end == localHeight(rows)
        Recent(t) == tables.transactions[t] >= end
    IN  Append(segments, [start |-> SealStart(segments), end |-> end, endHash |-> localTip(rows),
                          rows |-> rows,
                          tables |-> [tables EXCEPT !.transactions = KeepKeys(@, Recent)]])
registerSegment(segments, rows, tables) ==
    Append(segments, [start |-> SealStart(segments), end |-> localHeight(rows),
                      endHash |-> localTip(rows), rows |-> rows, tables |-> tables])

clearedRows(rows) == {localTip(rows)}
clearedTables(tables, end) ==
    LET Kept(o) == tables.outputs[o].height >= end
        Recent(t) == tables.transactions[t] >= end
    IN  [tables EXCEPT !.outputs = KeepKeys(@, Kept),
                       !.transactions = KeepKeys(@, Recent),
                       !.addressTxs = {m \in @ : m[3] >= end}]

-----------------------------------------------------------------------------
(* Queries *)

addressUnspent(tables, address) ==
    {o \in DOMAIN tables.ownOutputs : /\ tables.ownOutputs[o].spent = Nobody
                                      /\ tables.ownOutputs[o].address = address}
addressUtxos(tables, address, height) ==
    {o \in addressUnspent(tables, address) : tables.ownOutputs[o].mature <= height}
addressImmature(tables, address, height) ==
    {o \in addressUnspent(tables, address) : tables.ownOutputs[o].mature > height}

(* A block is known by its row or as the tip a node reported; the transactions listed for
   it are those indexed at its height. *)
getBlockHeader(rows, reported, b) == b \in rows \/ b = reported
getBlock(rows, reported, tables, b) ==
    IF getBlockHeader(rows, reported, b)
    THEN {t \in DOMAIN tables.transactions : tables.transactions[t] = Height[b]} ELSE {}

(* Of an address that is not the wallet's: the outputs of every part that are not marked
   spent there and that no transaction indexed for the address spends. *)
allParts(tables, segments) == {tables} \cup {segments[k].tables : k \in DOMAIN segments}
spentRefsFor(parts, address) ==
    {i[2] : i \in UNION {{j \in t.inputs : \E m \in t.addressTxs : m[1] = address /\ m[2] = j[1]}
                          : t \in parts}}
foreignUnspent(tables, segments, address) ==
    UNION {{o \in DOMAIN t.outputs : /\ t.outputs[o].address = address
                                     /\ t.outputs[o].spent = Nobody
                                     /\ o \notin spentRefsFor(allParts(tables, segments), address)}
           : t \in allParts(tables, segments)}

findSegmentByHeight(segments, height) ==
    {k \in DOMAIN segments : segments[k].start <= height /\ height <= segments[k].end}
findSegmentForTxid(tables, segments, txid) ==
    LET byHeight == IF txid \in DOMAIN tables.ownTxs
                    THEN findSegmentByHeight(segments, tables.ownTxs[txid]) ELSE {}
    IN  IF byHeight # {} THEN byHeight
        ELSE {k \in DOMAIN segments : txid \in DOMAIN segments[k].tables.transactions}
getLocalTx(tables, segments, txid) ==
    \/ txid \in DOMAIN tables.transactions
    \/ \E k \in findSegmentForTxid(tables, segments, txid) :
           /\ \A j \in findSegmentForTxid(tables, segments, txid) : j <= k
           /\ txid \in DOMAIN segments[k].tables.transactions
=============================================================================
