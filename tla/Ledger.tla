------------------------------- MODULE Ledger -------------------------------
(***************************************************************************)
(* UtxoState of packages/core/src/state.ts and the intrinsic transaction   *)
(* rules of packages/shared/src/transaction.ts, as operators.              *)
(*                                                                         *)
(* Hashes are injective, so the id of a transaction is the transaction     *)
(* itself and the id of a coinbase is what coinbaseId hashes: the height   *)
(* and the outputs.  A transaction is a record                             *)
(*   [inputs, outputs, fee, sender, signed]                                *)
(* where inputs is a sequence of outpoints [txid, index], outputs one of   *)
(* [address, amount], sender the address of the public key and signed      *)
(* tells whether the signature verifies over everything else.  Amounts     *)
(* are Photons, parsed.  An address outside Addresses fails                *)
(* validateAddress.                                                        *)
(***************************************************************************)
EXTENDS Reward, Sequences, Functions

CONSTANTS
  Addresses,            \* well-formed addresses
  COINBASE_MATURITY,
  MAX_TX_INPUTS,
  MAX_TX_OUTPUTS

ASSUME LedgerAssumption ==
  /\ COINBASE_MATURITY \in Nat
  /\ MAX_TX_INPUTS \in Nat \ {0}
  /\ MAX_TX_OUTPUTS \in Nat \ {0}

\* The null coinbase of the genesis block.
NoCoinbase == <<>>

-----------------------------------------------------------------------------
\* A Map keyed by hashes or outpoints: its set method, and many sets at once.
Put(map, key, value) ==
  [k \in DOMAIN map \cup {key} |-> IF k = key THEN value ELSE map[k]]

PutAll(map, added) ==
  [k \in DOMAIN map \cup DOMAIN added |-> IF k \in DOMAIN added THEN added[k] ELSE map[k]]

\* A state maps outpoints to entries and carries what has been issued.

GenesisState == [utxos |-> <<>>, issued |-> GENESIS_ISSUED]

UtxoEntry == [address : Addresses, amount : Nat, isCoinbase : BOOLEAN, birthHeight : Nat]

SumOutputs(outputs) == SumFunction([i \in DOMAIN outputs |-> outputs[i].amount])

\* What every transaction is, valid or not: lists and parsed amounts.  Its id
\* commits to another domain than a coinbase id, so it is never one.
IsTransaction(tx) ==
  /\ tx = [inputs |-> tx.inputs, outputs |-> tx.outputs, fee |-> tx.fee,
            sender |-> tx.sender, signed |-> tx.signed]
  /\ tx.signed \in BOOLEAN
  /\ tx.inputs \in Seq(Range(tx.inputs))
  /\ tx.outputs \in Seq(Range(tx.outputs))
  /\ \A i \in DOMAIN tx.outputs : tx.outputs[i].amount \in Nat
  /\ tx.fee \in Nat

validateSignedTransactionShape(tx) ==
  /\ Len(tx.inputs) \in 1..MAX_TX_INPUTS
  /\ IsInjective(tx.inputs)
  /\ Len(tx.outputs) \in 1..MAX_TX_OUTPUTS
  /\ \A i \in DOMAIN tx.outputs :
       tx.outputs[i].address \in Addresses /\ tx.outputs[i].amount > 0
  /\ tx.fee > 0
  /\ tx.signed

Spends(tx) == Range(tx.inputs)
SpentBy(transactions) == UNION {Spends(tx) : tx \in Range(transactions)}

IsMature(entry, height) ==
  entry.isCoinbase => height >= entry.birthHeight + COINBASE_MATURITY

InputsAreSpendable(utxos, tx, height) ==
  \A outpoint \in Spends(tx) :
    /\ outpoint \in DOMAIN utxos
    /\ utxos[outpoint].address = tx.sender
    /\ IsMature(utxos[outpoint], height)

InputSum(utxos, tx) ==
  SumFunction([i \in DOMAIN tx.inputs |-> utxos[tx.inputs[i]].amount])

\* What a transaction has to satisfy against the state before the block.
TransactionApplies(utxos, tx, height) ==
  /\ validateSignedTransactionShape(tx)
  /\ InputsAreSpendable(utxos, tx, height)
  /\ InputSum(utxos, tx) = SumOutputs(tx.outputs) + tx.fee

CoinbaseApplies(issued, block) ==
  LET output == block.coinbase.outputs[1]
  IN  /\ block.coinbase # NoCoinbase
      /\ Len(block.coinbase.outputs) = 1
      /\ output.address \in Addresses
      /\ output.amount = rewardForBlock(block.header.height, issued)
      /\ Payable(block.header.height, issued)
      /\ block.header.payoutAddress = output.address

\* applyBlock throws unless this holds.  Every transaction is checked against
\* the entries as they were before the block.
BlockApplies(state, block) ==
  /\ block.header.height >= 1
  /\ CoinbaseApplies(state.issued, block)
  /\ IsInjective(block.transactions)
  /\ \A i \in DOMAIN block.transactions :
       TransactionApplies(state.utxos, block.transactions[i], block.header.height)

-----------------------------------------------------------------------------
\* The mutations, made only after the whole block is valid.

\* Defect: equal coinbases of different heights have one id.
coinbaseId_NoHeight(block) == [outputs |-> block.coinbase.outputs]

coinbaseId(block) == [height |-> block.header.height, outputs |-> block.coinbase.outputs]

OutpointsOf(tx) == {[txid |-> tx, index |-> i] : i \in DOMAIN tx.outputs}

OutputsCreated(block) ==
  [outpoint \in UNION {OutpointsOf(tx) : tx \in Range(block.transactions)} |->
    LET output == outpoint.txid.outputs[outpoint.index]
    IN  [address |-> output.address, amount |-> output.amount,
         isCoinbase |-> FALSE, birthHeight |-> block.header.height]]

CoinbaseOutpoint(block) == [txid |-> coinbaseId(block), index |-> 1]

CoinbaseEntry(block) ==
  LET output == block.coinbase.outputs[1]
  IN  [address |-> output.address, amount |-> output.amount,
       isCoinbase |-> TRUE, birthHeight |-> block.header.height]

\* Defect: the spent entries are not deleted.
applyBlock_KeepsSpent(state, block) ==
  [utxos  |-> Put(PutAll(state.utxos, OutputsCreated(block)),
                  CoinbaseOutpoint(block), CoinbaseEntry(block)),
   issued |-> state.issued + block.coinbase.outputs[1].amount]

applyBlock(state, block) ==
  LET kept == Restrict(state.utxos, DOMAIN state.utxos \ SpentBy(block.transactions))
  IN  [utxos  |-> Put(PutAll(kept, OutputsCreated(block)),
                      CoinbaseOutpoint(block), CoinbaseEntry(block)),
       issued |-> state.issued + block.coinbase.outputs[1].amount]

\* Fees are burned: no output receives them.
FeesBurned(transactions) ==
  SumFunction([i \in DOMAIN transactions |-> transactions[i].fee])

Circulating(state) ==
  SumFunction([outpoint \in DOMAIN state.utxos |-> state.utxos[outpoint].amount])

=============================================================================
