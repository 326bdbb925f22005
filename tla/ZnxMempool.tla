----------------------------- MODULE ZnxMempool -----------------------------
(***************************************************************************)
(* The pending transactions of znx-mempool: a bounded queue that admits a  *)
(* transaction if it applies to the UTXO set of the moment and competes    *)
(* with no other pending one, and that never looks at the chain again.     *)
(***************************************************************************)
EXTENDS ZnxState, SequencesExt

CONSTANT MaxMempoolSize   \* MAX_MEMPOOL_SIZE

ASSUME MempoolAssumption == MaxMempoolSize \in Nat

VARIABLE mempool   \* order: the queue; claimedBy: outpoint -> pending txid

EmptyMempool == [order |-> <<>>, claimedBy |-> [o \in {} |-> {}]]

PendingIn(pool) == ToSet(pool.order)
Pending         == PendingIn(mempool)

(* Mutant: one transaction too many.                                       *)
Admits_OneMore(pool, view, t) ==
  /\ Len(pool.order) <= MaxMempoolSize
  /\ t \notin PendingIn(pool)
  /\ Spends(t) \cap DOMAIN pool.claimedBy = {}
  /\ Applies(t, view)

(* insert succeeds against a UTXO set.  The map from txid to transaction   *)
(* holds what the queue names, so it is not modelled apart.                *)
Admits(pool, view, t) ==
  /\ Len(pool.order) < MaxMempoolSize
  /\ t \notin PendingIn(pool)
  /\ Spends(t) \cap DOMAIN pool.claimedBy = {}
  /\ Applies(t, view)

(* Mutant: what comes last goes first.                                     *)
Insert_First(pool, view, t) ==
  IF ~Admits(pool, view, t) THEN pool
  ELSE [order     |-> <<t>> \o pool.order,
        claimedBy |-> [o \in DOMAIN pool.claimedBy \cup Spends(t) |->
                         IF o \in Spends(t) THEN t ELSE pool.claimedBy[o]]]

Insert(pool, view, t) ==
  IF ~Admits(pool, view, t) THEN pool
  ELSE [order     |-> Append(pool.order, t),
        claimedBy |-> [o \in DOMAIN pool.claimedBy \cup Spends(t) |->
                         IF o \in Spends(t) THEN t ELSE pool.claimedBy[o]]]

(* next_batch hands out the front of the queue and frees its claims.       *)
Batch(pool, max) == SubSeq(pool.order, 1, AtMost(max, Len(pool.order)))

(* Mutant: the claims of the transactions handed out stay.                 *)
AfterBatch_KeepsClaims(pool, max) ==
  [pool EXCEPT !.order = SubSeq(@, AtMost(max, Len(@)) + 1, Len(@))]

AfterBatch(pool, max) ==
  LET freed == SpendsOf(ToSet(Batch(pool, max)))
  IN  [order     |-> SubSeq(pool.order, AtMost(max, Len(pool.order)) + 1, Len(pool.order)),
       claimedBy |-> [o \in DOMAIN pool.claimedBy \ freed |-> pool.claimedBy[o]]]

-----------------------------------------------------------------------------
MempoolTypeOK ==
  /\ DOMAIN mempool = {"order", "claimedBy"}
  /\ mempool.order \in Seq(Txs) /\ Len(mempool.order) <= MaxMempoolSize
  /\ DOMAIN mempool.claimedBy \subseteq OutPoint

(* The claims are those of the pending transactions, neither more (a coin  *)
(* nobody could ever spend again through this node) nor fewer (two pending *)
(* transactions that spend the same coin), and nothing is queued twice.    *)
ClaimsExact ==
  /\ IsInjective(mempool.order)
  /\ DOMAIN mempool.claimedBy = SpendsOf(Pending)
  /\ \A t \in Pending : \A o \in Spends(t) : mempool.claimedBy[o] = t
=============================================================================
