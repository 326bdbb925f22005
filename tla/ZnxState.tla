------------------------------ MODULE ZnxState ------------------------------
(***************************************************************************)
(* The state transition of znx-state and the validation of a whole block   *)
(* by znx-node: when a transaction, a coinbase and a block apply to a UTXO *)
(* set, and the changes they make.  A UTXO set is the set of its           *)
(* outpoints: the txid in an outpoint determines the output.               *)
(***************************************************************************)
EXTENDS ZnxTypes, ZnxConsensus

(* A target is 32 bytes.                                                   *)
ASSUME WidthAssumption == \A b \in Blocks : Header[b].target < HashSpace

(* Amounts are u128; a checked sum fails exactly when the total does not   *)
(* fit, the terms being non-negative.                                      *)
MaxAmount == Power(2, AmountBits) - 1

AmountOf(o) == TxBody[o[1]].outputs[o[2]]

TotalIn(t) ==
  SumFunction([i \in DOMAIN TxBody[t].inputs |-> AmountOf(TxBody[t].inputs[i])])

TotalOut(t) == SumFunction(TxBody[t].outputs)

Fee(t) == TotalIn(t) - TotalOut(t)

(* apply_transaction succeeds against a view of the UTXO set.              *)
Applies(t, view) ==
  LET tx == TxBody[t]
  IN  /\ ~tx.coinbase
      /\ tx.inputs # <<>>
      /\ tx.chainIdOk
      /\ \A i, j \in DOMAIN tx.inputs : tx.inputs[i] = tx.inputs[j] => i = j
      /\ Spends(t) \subseteq view
      /\ tx.witnessOk
      /\ TotalIn(t) <= MaxAmount
      /\ TotalOut(t) <= TotalIn(t)

(* Mutant: the amount of a coinbase is not checked.                        *)
CoinbaseApplies_AnyAmount(t, height, allowed) ==
  TxBody[t].coinbase /\ TxBody[t].claimedHeight = height

(* apply_coinbase succeeds in a block of this height that may create this  *)
(* much.                                                                   *)
CoinbaseApplies(t, height, allowed) ==
  /\ TxBody[t].coinbase
  /\ TxBody[t].claimedHeight = height
  /\ TotalOut(t) <= allowed

(* What an OverlayStore shows once some transactions are applied to it: an *)
(* outpoint they spent is gone even if they created it.                    *)
ViewAfter(base, txs) == (base \cup OutputsOf(txs)) \ SpendsOf(txs)

(* What the i-th transaction of a block sees, the coinbase being applied   *)
(* last.                                                                   *)
ViewBefore(base, b, i) == ViewAfter(base, {Body[b][j] : j \in 2..i - 1})

FeesOf(b) == SumFunction([i \in 2..Len(Body[b]) |-> Fee(Body[b][i])])

CoinbaseAllowance(b) == SubsidyForHeight(Height(b)) + FeesOf(b)

(* validate_full_block against a UTXO set, for a block that must declare   *)
(* this target.                                                            *)
BlockValid(base, b, target) ==
  /\ VerifyPow(Header[b].powHash, Header[b].target)
  /\ Header[b].target = target
  /\ Header[b].txRootOk
  /\ Body[b] # <<>>
  /\ \A i \in 2..Len(Body[b]) : Applies(Body[b][i], ViewBefore(base, b, i))
  /\ CoinbaseAllowance(b) <= MaxAmount
  /\ CoinbaseApplies(Body[b][1], Height(b), CoinbaseAllowance(b))

(* The diff that the overlay leaves, and the data to undo the block: the   *)
(* outputs that its transactions consumed.                                 *)
SpentBy(b)   == SpendsOf(TxsOf(b))
CreatedBy(b) == OutputsOf(TxsOf(b)) \ SpentBy(b)

(* Mutant: the undo data remember the last transaction only.               *)
UndoOf_LastOnly(b) == Spends(Body[b][Len(Body[b])])

UndoOf(b)    == SpentBy(b)
=============================================================================
