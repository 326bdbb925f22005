------------------------------ MODULE ZnxNode ------------------------------
(***************************************************************************)
(* One znx-node: its chain, its mempool and its miner, which interleave at *)
(* the storage lock.  The miner takes transactions out of the mempool when *)
(* it builds a candidate, looks for a nonce without any lock, and then     *)
(* finds the chain where the other tasks have brought it.                  *)
(***************************************************************************)
EXTENDS ZnxChain, ZnxMempool

CONSTANT MaxTxsPerBlock   \* MAX_TXS_PER_BLOCK

ASSUME NodeAssumption == MaxTxsPerBlock \in Nat \ {0}

VARIABLE candidate   \* what the miner is hashing, or NoCandidate

nodeVars == <<vars, mempool, candidate>>

NoCandidate == [txs |-> <<>>]

NodeInit ==
  /\ Init
  /\ mempool = EmptyMempool
  /\ candidate = NoCandidate

(* A transaction from the RPC or from gossip.                              *)
Submit(t) ==
  /\ LockFree
  /\ Admits(mempool, utxos, t)
  /\ mempool' = Insert(mempool, utxos, t)
  /\ UNCHANGED <<vars, candidate>>

(* Mutant: what the mempool admitted goes into the block unchecked.        *)
Included_Unchecked(batch) == batch

(* The transactions of the batch that apply, each after those before it;   *)
(* the others are dropped.                                                 *)
Included(batch) ==
  FoldLeft(LAMBDA txs, t : IF Applies(t, ViewAfter(utxos, ToSet(txs)))
                           THEN Append(txs, t) ELSE txs,
           <<>>, batch)

BuildCandidate ==
  LET txs  == Included(Batch(mempool, MaxTxsPerBlock))
      fees == SumFunction([i \in DOMAIN txs |-> Fee(txs[i])])
  IN  /\ LockFree /\ candidate = NoCandidate
      /\ mempool' = AfterBatch(mempool, MaxTxsPerBlock)
      /\ candidate' = [parent |-> blocks[latest], height |-> latest + 1,
                       target |-> TargetAtTip, txs |-> txs,
                       reward |-> AtMost(SubsidyForHeight(latest + 1) + fees, MaxAmount)]
      /\ UNCHANGED vars

(* A block is the candidate with a nonce that meets its target.            *)
Mined(b) ==
  /\ Parent(b) = candidate.parent /\ Height(b) = candidate.height
  /\ Header[b].target = candidate.target /\ VerifyPow(Header[b].powHash, candidate.target)
  /\ Header[b].txRootOk
  /\ Body[b] # <<>> /\ Tail(Body[b]) = candidate.txs
  /\ LET coinbase == TxBody[Body[b][1]]
     IN  /\ coinbase.coinbase /\ coinbase.claimedHeight = candidate.height
         /\ coinbase.outputs = <<candidate.reward>>

(* The miner found a nonce and takes the lock again.  If the block is late *)
(* it is dropped, with its transactions.                                   *)
SubmitOwnBlock(b) ==
  /\ LockFree /\ candidate # NoCandidate
  /\ Mined(b)
  /\ IF NewTipOk(b) THEN CommitTip(b) ELSE UNCHANGED storage
  /\ candidate' = NoCandidate
  /\ UNCHANGED <<phase, found, reorg, faults, mempool>>

(* The miner ran out of nonces: its transactions are inserted again, as if *)
(* they were new.                                                          *)
Requeued == FoldLeft(LAMBDA pool, t : Insert(pool, utxos, t), mempool, candidate.txs)

RequeueCandidate ==
  /\ LockFree /\ candidate # NoCandidate
  /\ mempool' = Requeued
  /\ candidate' = NoCandidate
  /\ UNCHANGED vars

(* The chain moves, or the process dies with all it had in memory.         *)
ChainStep ==
  /\ Next
  /\ IF Crash THEN mempool' = EmptyMempool /\ candidate' = NoCandidate
     ELSE UNCHANGED <<mempool, candidate>>

MinerDone == RequeueCandidate \/ \E b \in Blocks : SubmitOwnBlock(b)

NodeNext ==
  \/ ChainStep
  \/ \E t \in Txs : Submit(t)
  \/ BuildCandidate
  \/ MinerDone

NodeSpec == NodeInit /\ [][NodeNext]_nodeVars

(* A reorg runs on; the storage lock is a fair queue, so the miner gets it *)
(* however often other tasks take it; a search for a nonce is bounded.     *)
NodeFairSpec ==
  /\ NodeSpec
  /\ WF_nodeVars(ReorgStep /\ UNCHANGED <<mempool, candidate>>)
  /\ SF_nodeVars(BuildCandidate) /\ SF_nodeVars(MinerDone)

-----------------------------------------------------------------------------
(* Properties.                                                             *)

NodeTypeOK ==
  /\ TypeOK /\ MempoolTypeOK
  /\ candidate # NoCandidate =>
       /\ candidate.parent \in Blocks /\ candidate.txs \in Seq(Txs)
       /\ Len(candidate.txs) <= MaxTxsPerBlock
       /\ candidate.reward \in 0..MaxAmount

(* The miner never wastes its work but in a race: while the tip is still   *)
(* the one that it built on, the block that it finds commits, although the *)
(* chain may have moved away and back, and whatever the mempool let in.    *)
OwnBlockLosesOnlyRaces ==
  LockFree /\ candidate # NoCandidate /\ blocks[latest] = candidate.parent
    => \A b \in Blocks : Mined(b) => NewTipOk(b)

(* The queue is fair: what is pending is put into a candidate or dropped,  *)
(* no transaction is passed over for ever by those requeued behind it.     *)
PendingIsTried ==
  \A t \in {t \in Txs : ~TxBody[t].coinbase} : t \in Pending ~> t \notin Pending

HeldByMiner == ToSet(candidate.txs)

(* The transactions that next_batch took out of the mempool are not lost   *)
(* in silence: one that could still go into a block, and that no other has *)
(* replaced, stays in the mempool, in a candidate or in the chain.         *)
TxsNotLost ==
  [][ \A t \in Pending \cup HeldByMiner :
        \/ t \in (Pending \cup HeldByMiner)' \/ t \in ChainTxs'
        \/ ~Applies(t, utxos')
        \/ Spends(t) \cap DOMAIN mempool'.claimedBy # {} ]_nodeVars
=============================================================================
