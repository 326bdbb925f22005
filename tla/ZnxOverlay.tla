----------------------------- MODULE ZnxOverlay -----------------------------
(***************************************************************************)
(* validate_full_block the way the code computes it: a loop that applies   *)
(* one transaction after the other to an OverlayStore, which collects what *)
(* is spent and created without touching the database.  ZnxState has what  *)
(* comes out of it in closed form.                                         *)
(***************************************************************************)
EXTENDS ZnxState, SequencesExt

(* An overlay, with the other variables of the loop: the fees so far, the  *)
(* data to undo the block, and whether no transaction was refused.         *)
Overlays ==
  [ok : BOOLEAN, spent : SUBSET OutPoint, created : SUBSET OutPoint,
   undo : SUBSET OutPoint, fees : Nat]

NewOverlay == [ok |-> TRUE, spent |-> {}, created |-> {}, undo |-> {}, fees |-> 0]

(* The outpoints that get_utxo finds: spent, then created, then the base.  *)
GetUtxos(base, o) == (base \cup o.created) \ o.spent

(* One round of the loop: apply_transaction, whose changes reach the       *)
(* overlay, then the fee and the outputs consumed.                         *)
ApplyNext(base, o, t) ==
  IF o.ok /\ Applies(t, GetUtxos(base, o)) /\ o.fees + Fee(t) <= MaxAmount
  THEN [ok      |-> TRUE,
        spent   |-> o.spent \cup Spends(t),
        created |-> (o.created \ Spends(t)) \cup Outputs(t),
        undo    |-> o.undo \cup Spends(t),
        fees    |-> o.fees + Fee(t)]
  ELSE [o EXCEPT !.ok = FALSE]

ApplyRest(base, b) ==
  FoldLeft(LAMBDA o, t : ApplyNext(base, o, t), NewOverlay, Tail(Body[b]))

(* What is left of the validation when the loop ends with this overlay.    *)
Accepted(b, target, o) ==
  /\ VerifyPow(Header[b].powHash, Header[b].target)
  /\ Header[b].target = target
  /\ Header[b].txRootOk
  /\ o.ok
  /\ SubsidyForHeight(Height(b)) + o.fees <= MaxAmount
  /\ CoinbaseApplies(Body[b][1], Height(b), SubsidyForHeight(Height(b)) + o.fees)

(* The diff and the undo data, or a refusal.                               *)
ValidateFullBlock(base, b, target) ==
  IF Body[b] # <<>> /\ Accepted(b, target, ApplyRest(base, b))
  THEN [ApplyRest(base, b) EXCEPT !.created = @ \cup Outputs(Body[b][1])]
  ELSE [NewOverlay EXCEPT !.ok = FALSE]
=============================================================================
