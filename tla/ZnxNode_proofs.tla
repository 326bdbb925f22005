--------------------------- MODULE ZnxNode_proofs ---------------------------
(***************************************************************************)
(* Theorems about one node.  Of its database: its columns agree, the coins *)
(* and the transaction index are those of the stored chain, a failed reorg *)
(* is restored, RPC answers agree with the tip, and the loop that          *)
(* validates a block computes what the model says.  Of its ledger: it      *)
(* implements the abstract one, and no coins exist but the scheduled ones. *)
(* Of the whole node: the claims of its mempool are exact, and the blocks  *)
(* that its miner builds are valid unless the chain moved meanwhile.       *)
(***************************************************************************)
EXTENDS ZnxNode, ZnxRpc, ZnxOverlay, ZnxSums_proofs, SequenceTheorems, TLAPS

(* What a transaction takes and makes is a set of outpoints.               *)
LEMMA TxTypes ==
  \A t \in Txs : Spends(t) \subseteq OutPoint /\ Outputs(t) \subseteq OutPoint
<1> SUFFICES ASSUME NEW t \in Txs
             PROVE  Spends(t) \subseteq OutPoint /\ Outputs(t) \subseteq OutPoint
  OBVIOUS
<1>1. TxBody[t] \in Transaction
  BY TypesAssumption
<1>2. TxBody[t].inputs \in Seq(OutPoint) /\ TxBody[t].outputs \in Seq(Nat)
  BY <1>1 DEF Transaction
<1>3. Spends(t) \subseteq OutPoint
  BY <1>2 DEF Spends
<1>4. DOMAIN TxBody[t].outputs \subseteq Nat
  <2>1. PICK s \in Seq(Nat) : s = TxBody[t].outputs
    BY <1>2
  <2>2. DOMAIN s \subseteq Nat
    OBVIOUS
  <2> QED
    BY <2>1, <2>2
<1>5. Outputs(t) \subseteq OutPoint
  BY <1>4 DEF Outputs, OutPoint
<1> QED
  BY <1>3, <1>5

LEMMA BlockTypes ==
  \A b \in Blocks :
    /\ Height(b) \in Nat /\ Parent(b) \in Blocks
    /\ TxsOf(b) \subseteq Txs
    /\ SpendsOf(TxsOf(b)) \subseteq OutPoint
    /\ OutputsOf(TxsOf(b)) \subseteq OutPoint
<1> SUFFICES ASSUME NEW b \in Blocks
             PROVE  /\ Height(b) \in Nat /\ Parent(b) \in Blocks
                    /\ TxsOf(b) \subseteq Txs
                    /\ SpendsOf(TxsOf(b)) \subseteq OutPoint
                    /\ OutputsOf(TxsOf(b)) \subseteq OutPoint
  OBVIOUS
<1>1. Height(b) \in Nat /\ Parent(b) \in Blocks
  BY TypesAssumption DEF Height, Parent, BlockHeader
<1>2. Body[b] \in Seq(Txs)
  BY TypesAssumption
<1>3. TxsOf(b) \subseteq Txs
  BY <1>2 DEF TxsOf
<1> QED
  BY <1>1, <1>3, TxTypes DEF SpendsOf, OutputsOf

(* A commit that links to the tip adds one block on top of the chain that  *)
(* the indexes describe.                                                   *)
LEMMA CommitKeepsIndexes ==
  ASSUME StorageTypeOK, IndexesAgree, latest \in Nat,
         NEW b \in Blocks, LinksToTip(b), CommitTip(b)
  PROVE  StorageTypeOK' /\ IndexesAgree' /\ latest' = latest + 1
<1> USE DEF LinksToTip, CommitTip, CommitBlock, Put
<1>1. latest' = latest + 1 /\ Height(b) = latest + 1
  OBVIOUS
<1>2. utxos' \subseteq OutPoint
  BY BlockTypes DEF StorageTypeOK, CreatedBy, SpentBy
<1>3. DOMAIN blocks' = 0..latest' /\ DOMAIN undo' = 1..latest'
  BY <1>1 DEF IndexesAgree
<1>4. \A h \in 0..latest' : blocks'[h] = IF h = latest + 1 THEN b ELSE blocks[h]
  BY <1>1, <1>3
<1>5. \A h \in 0..latest : blocks[h] \in Blocks /\ blocks[h] # b
  BY <1>1 DEF IndexesAgree, StorageTypeOK
<1>6. DOMAIN hashIndex' = {blocks'[h] : h \in 0..latest'}
  <2>1. DOMAIN hashIndex' = {blocks[h] : h \in 0..latest} \cup {b}
    BY DEF IndexesAgree
  <2> HIDE DEF LinksToTip, CommitTip, CommitBlock, Put
  <2>2. \A h \in 0..latest : h \in 0..latest' /\ blocks'[h] = blocks[h]
    <3>1. \A h \in 0..latest : h \in 0..latest' /\ h # latest + 1
      BY <1>1
    <3> QED
      BY <1>4, <3>1
  <2>3. latest + 1 \in 0..latest' /\ blocks'[latest + 1] = b
    BY <1>1, <1>4
  <2>4. \A h \in 0..latest' : h \in 0..latest \/ h = latest + 1
    BY <1>1
  <2>5. {blocks[h] : h \in 0..latest} \cup {b} \subseteq {blocks'[h] : h \in 0..latest'}
    BY <2>2, <2>3
  <2>6. {blocks'[h] : h \in 0..latest'} \subseteq {blocks[h] : h \in 0..latest} \cup {b}
    BY <2>2, <2>3, <2>4
  <2> QED
    BY <2>1, <2>5, <2>6
<1>7. \A h \in 0..latest' :
        /\ Height(blocks'[h]) = h
        /\ hashIndex'[blocks'[h]] = h
        /\ h > 0 => Parent(blocks'[h]) = blocks'[h - 1]
  BY <1>1, <1>4, <1>5 DEF IndexesAgree
<1>8. StorageTypeOK'
  <2>1. \A h \in DOMAIN undo' : undo'[h] \subseteq OutPoint
    BY BlockTypes DEF StorageTypeOK, UndoOf, SpentBy
  <2>2. DOMAIN txIndex' \subseteq Txs /\ \A t \in DOMAIN txIndex' : txIndex'[t] \in Nat
    BY BlockTypes, <1>1 DEF StorageTypeOK
  <2>3. \A h \in DOMAIN blocks' : blocks'[h] \in Blocks
    BY <1>3, <1>4, <1>5
  <2>4. DOMAIN hashIndex' \subseteq Blocks /\ \A c \in DOMAIN hashIndex' : hashIndex'[c] \in Nat
    BY <1>1 DEF StorageTypeOK
  <2> QED
    BY <1>1, <1>2, <1>3, <2>1, <2>2, <2>3, <2>4 DEF StorageTypeOK
<1>9. IndexesAgree'
  BY <1>3, <1>6, <1>7 DEF IndexesAgree
<1> QED
  BY <1>1, <1>8, <1>9

(* Undoing takes the top block off and leaves the indexes of the rest.     *)
LEMMA UndoKeepsIndexes ==
  ASSUME StorageTypeOK, IndexesAgree, latest \in Nat \ {0}, UndoLatestBlock
  PROVE  StorageTypeOK' /\ IndexesAgree' /\ latest' = latest - 1
<1> USE DEF UndoLatestBlock, Delete
<1>1. latest' = latest - 1 /\ latest' \in Nat
  OBVIOUS
<1>2. blocks[latest] \in Blocks /\ latest \in DOMAIN blocks
  BY DEF IndexesAgree, StorageTypeOK
<1>3. utxos' \subseteq OutPoint
  BY <1>2 DEF StorageTypeOK, GetUndo
<1>4. DOMAIN blocks' = 0..latest' /\ DOMAIN undo' = 1..latest'
  BY <1>1 DEF IndexesAgree
<1>5. \A h \in 0..latest' : blocks'[h] = blocks[h] /\ blocks[h] # blocks[latest]
  BY <1>1, <1>4 DEF IndexesAgree
<1>6. DOMAIN hashIndex' = {blocks'[h] : h \in 0..latest'}
  <2>1. DOMAIN hashIndex' = {blocks[h] : h \in 0..latest} \ {blocks[latest]}
    BY DEF IndexesAgree
  <2>2. \A h \in 0..latest : h = latest \/ h \in 0..latest'
    BY <1>1
  <2>3. \A h \in 0..latest' : h \in 0..latest
    BY <1>1
  <2> HIDE DEF UndoLatestBlock, Delete
  <2>4. {blocks[h] : h \in 0..latest} \ {blocks[latest]} \subseteq {blocks'[h] : h \in 0..latest'}
    BY <1>5, <2>2
  <2>5. {blocks'[h] : h \in 0..latest'} \subseteq {blocks[h] : h \in 0..latest} \ {blocks[latest]}
    BY <1>5, <2>3
  <2> QED
    BY <2>1, <2>4, <2>5
<1>7. \A h \in 0..latest' :
        /\ Height(blocks'[h]) = h
        /\ hashIndex'[blocks'[h]] = h
        /\ h > 0 => Parent(blocks'[h]) = blocks'[h - 1]
  <2> SUFFICES ASSUME NEW h \in 0..latest'
               PROVE  /\ Height(blocks'[h]) = h
                      /\ hashIndex'[blocks'[h]] = h
                      /\ h > 0 => Parent(blocks'[h]) = blocks'[h - 1]
    OBVIOUS
  <2>1. h \in 0..latest /\ (h > 0 => h - 1 \in 0..latest')
    BY <1>1
  <2>2. blocks'[h] \in DOMAIN hashIndex'
    BY <1>6
  <2> QED
    BY <1>5, <2>1, <2>2 DEF IndexesAgree
<1>8. StorageTypeOK'
  <2>1. /\ \A h \in DOMAIN undo' : undo'[h] \subseteq OutPoint
        /\ DOMAIN txIndex' \subseteq Txs /\ \A t \in DOMAIN txIndex' : txIndex'[t] \in Nat
        /\ DOMAIN hashIndex' \subseteq Blocks /\ \A c \in DOMAIN hashIndex' : hashIndex'[c] \in Nat
    BY DEF StorageTypeOK
  <2>2. \A h \in DOMAIN blocks' : blocks'[h] \in Blocks
    BY DEF StorageTypeOK
  <2> QED
    BY <1>1, <1>3, <1>4, <2>1, <2>2 DEF StorageTypeOK
<1>9. IndexesAgree'
  BY <1>4, <1>6, <1>7 DEF IndexesAgree
<1> QED
  BY <1>1, <1>8, <1>9

-----------------------------------------------------------------------------
(* Where a reorg stands: it never undoes at or below its fork, and it has  *)
(* a next block whenever it is to commit one.                              *)
ReorgOK ==
  /\ phase # "boot" => latest \in Nat
  /\ reorg.stage # "idle" => phase = "running" /\ reorg.fork <= latest
  /\ reorg.stage \in {"undo", "rollback"} => reorg.fork < latest
  /\ reorg.stage \in {"undo", "commit"} => reorg.done < Len(reorg.chain)
  /\ reorg.stage = "restore" => reorg.done < Len(reorg.undone)

IndexInv == TypeOK /\ IndexesAgree /\ ReorgOK

(* A backfill hands over a non-empty sequence of blocks.                   *)
LEMMA CandidatesAreSequences ==
  \A c \in CandidateChains : c \in Seq(Blocks) /\ Len(c) > 0 /\ c[1] \in Blocks
<1> SUFFICES ASSUME NEW c \in CandidateChains
             PROVE  c \in Seq(Blocks) /\ Len(c) > 0 /\ c[1] \in Blocks
  OBVIOUS
<1>1. PICK n \in 1..MaxBackfillDepth : c \in [1..n -> Blocks]
  BY DEF CandidateChains
<1>2. n \in Nat \ {0}
  BY ChainAssumption
<1>3. c \in Seq(Blocks) /\ Len(c) = n
  BY <1>1, <1>2
<1> QED
  BY <1>1, <1>2, <1>3

LEMMA IdleIsNoReorg == Idle \in Reorgs /\ Idle.stage = "idle"
<1>1. <<>> \in Seq(Blocks)
  OBVIOUS
<1> QED
  BY <1>1 DEF Idle, Reorgs

(* The state in which try_reorg_to_chain starts.                           *)
LEMMA TryReorgStarts ==
  ASSUME TypeOK, phase = "running", latest \in Nat, latest' = latest, phase' = phase,
         NEW fork \in Nat, fork <= latest,
         NEW c \in Seq(Blocks), Len(c) > 0,
         TryReorg(fork, c) \/ reorg' = Idle
  PROVE  reorg' \in Reorgs /\ ReorgOK'
<1>1. CASE reorg' = Idle
  BY <1>1 DEF Idle, Reorgs, ReorgOK
<1>2. CASE reorg' = [Idle EXCEPT !.stage = IF latest = fork THEN "commit" ELSE "undo",
                                 !.fork = fork, !.chain = c]
  <2>1. reorg' = [stage |-> IF latest = fork THEN "commit" ELSE "undo", fork |-> fork,
                  chain |-> c, undone |-> <<>>, done |-> 0]
    BY <1>2 DEF Idle
  <2> QED
    BY <2>1 DEF Reorgs, ReorgOK
<1> QED
  BY <1>1, <1>2 DEF TryReorg

(* What a failed commit leads to.                                          *)
LEMMA RestoreOrEndOK ==
  ASSUME TypeOK, phase = "running", phase' = phase, latest' \in Nat,
         reorg.fork <= latest', reorg' = RestoreOrEnd
  PROVE  reorg' \in Reorgs /\ ReorgOK'
<1>1. CASE reorg.undone = <<>>
  BY <1>1 DEF RestoreOrEnd, Idle, Reorgs, ReorgOK
<1>2. CASE reorg.undone # <<>>
  <2>1. reorg' = [reorg EXCEPT !.stage = "restore", !.done = 0]
    BY <1>2 DEF RestoreOrEnd
  <2>2. reorg.undone \in Seq(Blocks) /\ Len(reorg.undone) > 0
    BY <1>2 DEF TypeOK, Reorgs
  <2>3. reorg' \in Reorgs
    <3>1. reorg' = [stage |-> "restore", fork |-> reorg.fork, chain |-> reorg.chain,
                    undone |-> reorg.undone, done |-> 0]
      BY <2>1 DEF TypeOK, Reorgs
    <3>2. reorg.fork \in Nat /\ reorg.chain \in Seq(Blocks)
      BY DEF TypeOK, Reorgs
    <3> QED
      BY <2>2, <3>1, <3>2 DEF Reorgs
  <2>4. /\ reorg'.stage = "restore" /\ reorg'.done = 0
        /\ reorg'.fork = reorg.fork /\ reorg'.undone = reorg.undone
    BY <2>1 DEF TypeOK
  <2>5. ReorgOK'
    BY <2>2, <2>4 DEF ReorgOK
  <2> QED
    BY <2>3, <2>5
<1> QED
  BY <1>1, <1>2

LEMMA GiveUpOK ==
  ASSUME TypeOK, ReorgOK, phase = "running", phase' = phase, latest' = latest,
         reorg.stage = "commit", GiveUp
  PROVE  reorg' \in Reorgs /\ ReorgOK'
<1>1. latest \in Nat /\ reorg.fork <= latest
  BY DEF ReorgOK
<1>2. CASE latest > reorg.fork
  <2>1. reorg' = [reorg EXCEPT !.stage = "rollback"]
    BY <1>2 DEF GiveUp
  <2> QED
    BY <1>1, <1>2, <2>1 DEF TypeOK, Reorgs, ReorgOK
<1>3. CASE ~(latest > reorg.fork)
  BY <1>1, <1>3, RestoreOrEndOK DEF GiveUp
<1> QED
  BY <1>2, <1>3

LEMMA InitIndexes == Init => IndexInv
<1> SUFFICES ASSUME Init PROVE IndexInv
  OBVIOUS
<1> USE DEF Init, StorageInit, Empty, NoHeight
<1>1. StorageTypeOK
  BY DEF StorageTypeOK
<1>2. TypeOK
  BY <1>1, ChainAssumption DEF TypeOK, Idle, Reorgs
<1>3. IndexesAgree
  BY DEF IndexesAgree
<1>4. ReorgOK
  BY DEF ReorgOK, Idle
<1> QED
  BY <1>2, <1>3, <1>4 DEF IndexInv

(* A step that leaves the database alone leaves it correct.                *)
LEMMA UnchangedStorage ==
  ASSUME StorageTypeOK, IndexesAgree, UNCHANGED storage
  PROVE  StorageTypeOK' /\ IndexesAgree' /\ latest' = latest
<1>1. /\ utxos' = utxos /\ blocks' = blocks /\ hashIndex' = hashIndex
      /\ latest' = latest /\ undo' = undo /\ txIndex' = txIndex
  BY DEF storage
<1>2. StorageTypeOK'
  BY <1>1 DEF StorageTypeOK
<1>3. IndexesAgree'
  BY <1>1 DEF IndexesAgree
<1> QED
  BY <1>1, <1>2, <1>3

LEMMA NextIndexes == IndexInv /\ [Next]_vars => IndexInv'
<1> SUFFICES ASSUME IndexInv, [Next]_vars
             PROVE  IndexInv'
  OBVIOUS
<1> USE DEF IndexInv
<1>0. StorageTypeOK /\ IndexesAgree
  BY DEF TypeOK
<1>1. CASE PutGenesis
  <2> USE <1>1 DEF PutGenesis, PutBlock, Put
  <2>1. GenesisBlock \in Blocks /\ Height(GenesisBlock) = 0 /\ latest' = 0
    BY TypesAssumption DEF Height
  <2>2. DOMAIN blocks = {} /\ DOMAIN hashIndex = {} /\ DOMAIN undo = {}
    BY DEF IndexesAgree, NoHeight
  <2>3. /\ DOMAIN blocks' = {0} /\ blocks'[0] = GenesisBlock
        /\ DOMAIN hashIndex' = {GenesisBlock} /\ hashIndex'[GenesisBlock] = 0
    BY <2>1, <2>2
  <2>4. StorageTypeOK'
    BY <1>0, <2>1, <2>3 DEF StorageTypeOK
  <2>5. IndexesAgree'
    <3>1. 0..latest' = {0} /\ 1..latest' = {}
      BY <2>1
    <3> QED
      BY <2>1, <2>2, <2>3, <3>1 DEF IndexesAgree
  <2>6. reorg.stage = "idle"
    BY DEF ReorgOK
  <2>7. TypeOK' /\ ReorgOK'
    BY <2>1, <2>4, <2>6 DEF TypeOK, ReorgOK
  <2> QED
    BY <2>5, <2>7
<1>2. CASE ApplyPremine
  <2> USE <1>2 DEF ApplyPremine, ApplyChanges
  <2>1. GenesisBlock \in Blocks
    BY TypesAssumption
  <2>2. StorageTypeOK'
    BY <1>0, <2>1, BlockTypes DEF StorageTypeOK
  <2>3. IndexesAgree'
    BY DEF IndexesAgree
  <2> QED
    BY <2>2, <2>3 DEF TypeOK, ReorgOK
<1>3. CASE Restart
  <2> USE <1>3 DEF Restart
  <2>1. StorageTypeOK' /\ IndexesAgree' /\ latest' = latest
    BY <1>0, UnchangedStorage
  <2>2. latest \in Nat
    BY <1>0 DEF StorageTypeOK
  <2> QED
    BY <2>1, <2>2 DEF TypeOK, ReorgOK
<1>4. ASSUME NEW b \in Blocks, CommitNewTip(b)
      PROVE  IndexInv'
  <2> USE <1>4 DEF CommitNewTip, LockFree, NewTipOk
  <2>1. latest \in Nat
    BY DEF ReorgOK
  <2>2. StorageTypeOK' /\ IndexesAgree' /\ latest' = latest + 1
    BY <1>0, <2>1, CommitKeepsIndexes
  <2>3. TypeOK'
    BY <2>2 DEF TypeOK
  <2>4. ReorgOK'
    BY <2>1, <2>2 DEF ReorgOK, Idle
  <2> QED
    BY <2>2, <2>3, <2>4
<1>5. ASSUME NEW b \in Blocks, SiblingReorg(b)
      PROVE  IndexInv'
  <2> USE <1>5 DEF SiblingReorg, LockFree
  <2> DEFINE fork == IF latest = 0 THEN 0 ELSE latest - 1
  <2>1. latest \in Nat /\ fork \in Nat /\ fork <= latest
    BY DEF ReorgOK
  <2>2. StorageTypeOK' /\ IndexesAgree' /\ latest' = latest /\ phase' = phase
    BY <1>0, UnchangedStorage
  <2>3. <<b>> \in Seq(Blocks) /\ Len(<<b>>) > 0
    OBVIOUS
  <2>4. TryReorg(fork, <<b>>)
    OBVIOUS
  <2> HIDE DEF fork
  <2>5. reorg' \in Reorgs /\ ReorgOK'
    BY <2>1, <2>2, <2>3, <2>4, TryReorgStarts
  <2> QED
    BY <2>2, <2>5 DEF TypeOK
<1>6. ASSUME NEW c \in CandidateChains, FindAncestor(c)
      PROVE  IndexInv'
  <2> USE <1>6 DEF FindAncestor
  <2>1. StorageTypeOK' /\ IndexesAgree'
    BY <1>0, UnchangedStorage
  <2> QED
    BY <2>1 DEF TypeOK, ReorgOK, storage
<1>7. ASSUME NEW c \in CandidateChains, BackfillReorg(c)
      PROVE  IndexInv'
  <2> USE <1>7 DEF BackfillReorg, LockFree
  <2>1. StorageTypeOK' /\ IndexesAgree' /\ latest' = latest /\ phase' = phase
    BY <1>0, UnchangedStorage
  <2>2. latest \in Nat
    BY DEF ReorgOK
  <2>3. c \in Seq(Blocks) /\ Len(c) > 0 /\ Height(Parent(c[1])) \in Nat
    BY CandidatesAreSequences, BlockTypes
  <2>4. reorg' \in Reorgs /\ ReorgOK'
    <3>1. CASE Height(Parent(c[1])) <= latest
      BY <2>1, <2>2, <2>3, <3>1, TryReorgStarts
    <3>2. CASE ~(Height(Parent(c[1])) <= latest)
      BY <2>1, <2>2, <3>2, IdleIsNoReorg DEF ReorgOK
    <3> QED
      BY <3>1, <3>2
  <2> QED
    BY <2>1, <2>4 DEF TypeOK
<1>8. CASE ReorgUndo
  <2> USE <1>8 DEF ReorgUndo
  <2>1. latest \in Nat \ {0} /\ reorg.fork \in Nat /\ reorg.fork < latest
    BY DEF TypeOK, Reorgs, ReorgOK
  <2>2. StorageTypeOK' /\ IndexesAgree' /\ latest' = latest - 1
    BY <1>0, <2>1, UndoKeepsIndexes
  <2>3. blocks[latest] \in Blocks
    BY <1>0, <2>1 DEF StorageTypeOK, IndexesAgree
  <2>4. /\ reorg'.stage = (IF latest' = reorg.fork THEN "commit" ELSE "undo")
        /\ reorg'.fork = reorg.fork /\ reorg'.chain = reorg.chain
        /\ reorg'.done = reorg.done
    BY DEF TypeOK
  <2>5. reorg' \in Reorgs
    <3>1. <<blocks[latest]>> \o reorg.undone \in Seq(Blocks)
      BY <2>3 DEF TypeOK, Reorgs
    <3> QED
      BY <3>1 DEF TypeOK, Reorgs
  <2>6. ReorgOK'
    BY <2>1, <2>2, <2>4 DEF ReorgOK, TypeOK
  <2> QED
    BY <2>2, <2>5, <2>6 DEF TypeOK
<1>9. CASE ReorgCommit
  <2> USE <1>9 DEF ReorgCommit, NewTipOk
  <2>1. latest \in Nat /\ phase = "running" /\ reorg.fork <= latest
    BY DEF ReorgOK
  <2>2. NextCandidate \in Blocks /\ reorg.done + 1 \in 1..Len(reorg.chain)
    BY DEF TypeOK, Reorgs, ReorgOK, NextCandidate
  <2>3. StorageTypeOK' /\ IndexesAgree' /\ latest' = latest + 1
    BY <1>0, <2>1, <2>2, CommitKeepsIndexes
  <2>4. reorg' \in Reorgs /\ ReorgOK'
    <3>1. CASE reorg' = Idle
      BY <2>1, <2>3, <3>1 DEF Idle, Reorgs, ReorgOK
    <3>2. CASE /\ reorg' = [reorg EXCEPT !.done = @ + 1]
               /\ reorg.done + 1 # Len(reorg.chain)
      <4>1. /\ reorg' \in Reorgs
            /\ reorg'.stage = "commit" /\ reorg'.fork = reorg.fork
            /\ reorg'.chain = reorg.chain /\ reorg'.done = reorg.done + 1
        BY <3>2 DEF TypeOK, Reorgs
      <4>2. reorg.done + 1 < Len(reorg.chain)
        BY <2>2, <3>2 DEF TypeOK
      <4> QED
        BY <2>1, <2>3, <4>1, <4>2 DEF ReorgOK, TypeOK, Reorgs
    <3> QED
      BY <3>1, <3>2
  <2> QED
    BY <2>3, <2>4 DEF TypeOK
<1>10. CASE ReorgReject
  <2> USE <1>10 DEF ReorgReject
  <2>1. StorageTypeOK' /\ IndexesAgree' /\ latest' = latest /\ phase' = phase
    BY <1>0, UnchangedStorage
  <2>2. reorg' \in Reorgs /\ ReorgOK'
    BY <2>1, GiveUpOK DEF ReorgOK
  <2> QED
    BY <2>1, <2>2 DEF TypeOK
<1>11. CASE ReorgRollback
  <2> USE <1>11 DEF ReorgRollback
  <2>1. /\ latest \in Nat \ {0} /\ reorg.fork \in Nat /\ reorg.fork < latest
        /\ phase = "running"
    BY DEF TypeOK, Reorgs, ReorgOK
  <2>2. StorageTypeOK' /\ IndexesAgree' /\ latest' = latest - 1
    BY <1>0, <2>1, UndoKeepsIndexes
  <2>3. reorg' \in Reorgs /\ ReorgOK'
    <3>1. CASE latest' > reorg.fork
      BY <2>1, <2>2, <3>1 DEF TypeOK, ReorgOK
    <3>2. CASE ~(latest' > reorg.fork)
      BY <2>1, <2>2, <3>2, RestoreOrEndOK
    <3> QED
      BY <3>1, <3>2
  <2> QED
    BY <2>2, <2>3 DEF TypeOK
<1>12. CASE ReorgRestore
  <2> USE <1>12 DEF ReorgRestore, NewTipOk
  <2>1. latest \in Nat /\ phase = "running" /\ reorg.fork <= latest
    BY DEF ReorgOK
  <2>2. NextOriginal \in Blocks /\ reorg.done + 1 \in 1..Len(reorg.undone)
    BY DEF TypeOK, Reorgs, ReorgOK, NextOriginal
  <2>3. StorageTypeOK' /\ IndexesAgree' /\ latest' = latest + 1
    BY <1>0, <2>1, <2>2, CommitKeepsIndexes
  <2>4. reorg' \in Reorgs /\ ReorgOK'
    <3>1. CASE reorg' = Idle
      BY <2>1, <2>3, <3>1 DEF Idle, Reorgs, ReorgOK
    <3>2. CASE /\ reorg' = [reorg EXCEPT !.done = @ + 1]
               /\ reorg.done + 1 # Len(reorg.undone)
      <4>1. /\ reorg' \in Reorgs
            /\ reorg'.stage = "restore" /\ reorg'.fork = reorg.fork
            /\ reorg'.undone = reorg.undone /\ reorg'.done = reorg.done + 1
        BY <3>2 DEF TypeOK, Reorgs
      <4>2. reorg.done + 1 < Len(reorg.undone)
        BY <2>2, <3>2 DEF TypeOK
      <4> QED
        BY <2>1, <2>3, <4>1, <4>2 DEF ReorgOK, TypeOK, Reorgs
    <3> QED
      BY <3>1, <3>2
  <2> QED
    BY <2>3, <2>4 DEF TypeOK
<1>13. CASE Crash
  <2> USE <1>13 DEF Crash
  <2>1. StorageTypeOK' /\ IndexesAgree'
    BY <1>0, UnchangedStorage
  <2>2. reorg' \in Reorgs
    BY DEF Idle, Reorgs
  <2>3. faults' \in 0..MaxFaults
    BY ChainAssumption DEF TypeOK
  <2> QED
    BY <2>1, <2>2, <2>3 DEF TypeOK, ReorgOK, Idle
<1>14. CASE WriteFails
  <2> USE <1>14 DEF WriteFails
  <2>1. StorageTypeOK' /\ IndexesAgree' /\ latest' = latest /\ phase' = phase
    BY <1>0, UnchangedStorage
  <2>2. faults' \in 0..MaxFaults
    BY ChainAssumption DEF TypeOK
  <2>3. reorg' \in Reorgs /\ ReorgOK'
    <3>1. CASE reorg.stage = "commit"
      BY <2>1, <3>1, GiveUpOK DEF ReorgOK
    <3>2. CASE reorg.stage # "commit"
      BY <2>1, <3>2, IdleIsNoReorg DEF ReorgOK
    <3> QED
      BY <3>1, <3>2
  <2> QED
    BY <2>1, <2>2, <2>3 DEF TypeOK
<1>15. CASE UNCHANGED vars
  <2>1. StorageTypeOK' /\ IndexesAgree' /\ latest' = latest
    BY <1>0, <1>15, UnchangedStorage DEF vars
  <2>2. phase' = phase /\ found' = found /\ reorg' = reorg /\ faults' = faults
    BY <1>15 DEF vars
  <2> QED
    BY <2>1, <2>2 DEF TypeOK, ReorgOK
<1> QED
  BY <1>1, <1>2, <1>3, <1>4, <1>5, <1>6, <1>7, <1>8, <1>9, <1>10, <1>11, <1>12,
     <1>13, <1>14, <1>15 DEF Next, ReorgStep

LEMMA IndexInvariant == Spec => []IndexInv
  BY InitIndexes, NextIndexes, PTL DEF Spec

(* Every state of the node is well typed: the database holds blocks and    *)
(* outpoints of the universe, a reorg in progress is one of its stages.    *)
THEOREM TypeCorrect == Spec => []TypeOK
  BY IndexInvariant, PTL DEF IndexInv

(* The indexes of the database describe one linked chain in every state,   *)
(* in the middle of a reorg and after any crash too.                       *)
THEOREM IndexesAlwaysAgree == Spec => []IndexesAgree
  BY IndexInvariant, PTL DEF IndexInv

-----------------------------------------------------------------------------
(* The coins: as long as no block is undone that spends an output of its   *)
(* own, the UTXO set is what replaying the local chain leaves, through     *)
(* every commit, undo, failed reorg, failed write and crash. MCPhantom     *)
(* shows that the hypothesis is needed; it says nothing of the blocks that *)
(* are committed.                                                          *)
UndoIsClean ==
  ReorgUndo \/ ReorgRollback => ~SpendsWithinBlock(blocks[latest])

UndosAreClean == [][UndoIsClean]_vars

CoinsOf(txs) == OutputsOf(txs) \ SpendsOf(txs)

(* The transactions confirmed under a height.                              *)
Below(k) == UNION {TxsOf(blocks[h]) : h \in 0..k - 1}

(* The block at a height spends what the blocks under it left and what it  *)
(* makes itself, confirms nothing that they confirmed, and has undo data.  *)
Sound(k) ==
  /\ undo[k] = SpendsOf(TxsOf(blocks[k]))
  /\ SpendsOf(TxsOf(blocks[k]))
       \subseteq CoinsOf(Below(k)) \cup OutputsOf(TxsOf(blocks[k]))
  /\ TxsOf(blocks[k]) \cap Below(k) = {}

BlocksSound ==
  /\ \A k \in 1..latest : Sound(k)
  /\ \A h \in 0..latest : \A t \in TxsOf(blocks[h]) :
       TxBody[t].coinbase => TxBody[t].claimedHeight = h
  /\ latest \in Nat => blocks[0] = GenesisBlock

CoinsInv ==
  /\ BlocksSound
  /\ phase = "premine" => latest = 0 /\ utxos = {}
  /\ phase # "premine" => utxos = CoinsOf(Below(latest + 1))
  /\ DOMAIN txIndex = Below(latest + 1) \ TxsOf(GenesisBlock)
  /\ \A t \in DOMAIN txIndex :
       txIndex[t] \in 0..latest /\ t \in TxsOf(blocks[txIndex[t]])

(* Different transactions have different outputs.                          *)
LEMMA OutputsApart ==
  ASSUME NEW S, NEW T, S \cap T = {}
  PROVE  OutputsOf(S) \cap OutputsOf(T) = {}
<1> SUFFICES ASSUME NEW x \in OutputsOf(S), x \in OutputsOf(T)
             PROVE  FALSE
  OBVIOUS
<1>1. PICK s \in S : x \in Outputs(s)
  BY DEF OutputsOf
<1>2. PICK t \in T : x \in Outputs(t)
  BY DEF OutputsOf
<1>3. x[1] = s /\ x[1] = t
  BY <1>1, <1>2 DEF Outputs
<1> QED
  BY <1>3

LEMMA UnionsOfTxs ==
  ASSUME NEW S, NEW T
  PROVE  /\ SpendsOf(S \cup T) = SpendsOf(S) \cup SpendsOf(T)
         /\ OutputsOf(S \cup T) = OutputsOf(S) \cup OutputsOf(T)
BY DEF SpendsOf, OutputsOf

(* Applying new transactions to the coins of the old ones.                 *)
LEMMA CoinsGrow ==
  ASSUME NEW S, NEW T, S \cap T = {}, SpendsOf(S) \subseteq OutputsOf(S)
  PROVE  (CoinsOf(S) \ SpendsOf(T)) \cup (OutputsOf(T) \ SpendsOf(T)) = CoinsOf(S \cup T)
BY OutputsApart, UnionsOfTxs DEF CoinsOf

(* And taking them back, the way undo_latest_block does: outputs that the  *)
(* block made and spent come to life.                                      *)
LEMMA CoinsShrink ==
  ASSUME NEW S, NEW T, S \cap T = {},
         SpendsOf(T) \subseteq CoinsOf(S) \cup OutputsOf(T)
  PROVE  (CoinsOf(S \cup T) \ OutputsOf(T)) \cup SpendsOf(T)
           = CoinsOf(S) \cup (SpendsOf(T) \cap OutputsOf(T))
BY OutputsApart, UnionsOfTxs DEF CoinsOf

(* What validate_full_block has seen of a transaction: a coinbase is for   *)
(* the height of the block, any other spends something, each output out of *)
(* the UTXO set or of a transaction before it in the block.                *)
LEMMA ValidBlockSpends ==
  ASSUME NEW b \in Blocks, NEW target, BlockValid(utxos, b, target),
         NEW i \in 1..Len(Body[b])
  PROVE  /\ Body[b][i] \in TxsOf(b)
         /\ IF TxBody[Body[b][i]].coinbase
            THEN TxBody[Body[b][i]].claimedHeight = Height(b)
            ELSE /\ Spends(Body[b][i]) # {}
                 /\ \A x \in Spends(Body[b][i]) :
                      \/ x \in utxos
                      \/ \E j \in 1..i - 1 : x \in Outputs(Body[b][j])
<1> DEFINE t == Body[b][i]
<1>1. Body[b] \in Seq(Txs) /\ i \in Nat
  BY TypesAssumption
<1>2. t \in TxsOf(b) /\ t \in Txs /\ TxBody[t] \in Transaction
  BY <1>1, TypesAssumption DEF TxsOf
<1>3. CASE i = 1
  <2>1. TxBody[t].coinbase /\ TxBody[t].claimedHeight = Height(b)
    BY <1>3 DEF BlockValid, CoinbaseApplies
  <2> QED
    BY <1>2, <2>1
<1>4. CASE i # 1
  <2>1. i \in 2..Len(Body[b])
    BY <1>1, <1>4
  <2>2. Applies(t, ViewBefore(utxos, b, i))
    BY <2>1 DEF BlockValid
  <2>3. ~TxBody[t].coinbase /\ TxBody[t].inputs # <<>>
    BY <2>2 DEF Applies
  <2>4. TxBody[t].inputs \in Seq(OutPoint)
    BY <1>2 DEF Transaction
  <2>5. Spends(t) # {}
    <3>1. 1 \in DOMAIN TxBody[t].inputs
      BY <2>3, <2>4
    <3> QED
      BY <2>3, <3>1 DEF Spends
  <2>6. ASSUME NEW x \in Spends(t), x \notin utxos
        PROVE  \E j \in 1..i - 1 : x \in Outputs(Body[b][j])
    <3> DEFINE before == {Body[b][j] : j \in 2..i - 1}
    <3>1. Spends(t) \subseteq utxos \cup OutputsOf(before)
      BY <2>2 DEF Applies, ViewBefore, ViewAfter
    <3>2. x \in OutputsOf(before)
      <4> HIDE DEF t, before
      <4> QED
        BY <2>6, <3>1
    <3>3. PICK j \in 2..i - 1 : x \in Outputs(Body[b][j])
      BY <3>2 DEF OutputsOf
    <3>4. j \in 1..i - 1
      BY <1>1
    <3> QED
      BY <3>3, <3>4
  <2> HIDE DEF t
  <2>7. \A x \in Spends(t) : x \in utxos \/ \E j \in 1..i - 1 : x \in Outputs(Body[b][j])
    BY <2>6
  <2> QED
    BY <1>2, <2>3, <2>5, <2>7 DEF t
<1> QED
  BY <1>3, <1>4

(* A valid block confirms nothing that the chain has confirmed: a coinbase *)
(* names its height, and the first other transaction to come again would   *)
(* spend an output that is spent, and that nothing before it makes anew.   *)
LEMMA ValidBlockIsNew ==
  ASSUME NEW b \in Blocks, NEW target, BlockValid(utxos, b, target),
         NEW C, utxos = CoinsOf(C), SpendsOf(C) \subseteq OutputsOf(C),
         \A t \in C : TxBody[t].coinbase => TxBody[t].claimedHeight # Height(b)
  PROVE  TxsOf(b) \cap C = {}
<1> SUFFICES ASSUME NEW t \in TxsOf(b), t \in C
             PROVE  FALSE
  OBVIOUS
<1>1. Body[b] \in Seq(Txs)
  BY TypesAssumption
<1>2. PICK again : again = {i \in 1..Len(Body[b]) : Body[b][i] \in C}
  OBVIOUS
<1>3. again \in SUBSET Nat /\ again # {}
  BY <1>1, <1>2 DEF TxsOf
<1>4. PICK i \in again : \A j \in again : i <= j
  BY <1>3, LeastNumber
<1>5. i \in 1..Len(Body[b]) /\ i \in Nat /\ Body[b][i] \in C
  BY <1>2, <1>3
<1>6. PICK u : u = Body[b][i]
  OBVIOUS
<1>7. /\ IF TxBody[u].coinbase THEN TxBody[u].claimedHeight = Height(b)
         ELSE Spends(u) # {}
      /\ ~TxBody[u].coinbase =>
           \A x \in Spends(u) : x \in utxos \/ \E j \in 1..i - 1 : x \in Outputs(Body[b][j])
  BY <1>5, <1>6, ValidBlockSpends
<1>8. ~TxBody[u].coinbase
  BY <1>5, <1>6, <1>7
<1>9. PICK x \in Spends(u) : x \in SpendsOf(C)
  BY <1>5, <1>6, <1>7, <1>8 DEF SpendsOf
<1>10. PICK j \in 1..i - 1 : x \in Outputs(Body[b][j])
  BY <1>7, <1>8, <1>9 DEF CoinsOf
<1>11. PICK v \in C : x \in Outputs(v)
  BY <1>9 DEF OutputsOf
<1>12. Body[b][j] = v
  BY <1>10, <1>11 DEF Outputs
<1>13. j \in again /\ j < i
  BY <1>1, <1>2, <1>5, <1>11, <1>12
<1> QED
  BY <1>4, <1>5, <1>13

(* The genesis block spends nothing, every other block spends what is      *)
(* under it.                                                               *)
LEMMA SpendsAreOutputs ==
  ASSUME BlocksSound, latest \in Nat
  PROVE  SpendsOf(Below(latest + 1)) \subseteq OutputsOf(Below(latest + 1))
<1> SUFFICES ASSUME NEW t \in Below(latest + 1), NEW x \in Spends(t)
             PROVE  x \in OutputsOf(Below(latest + 1))
  BY DEF SpendsOf
<1>1. PICK h \in 0..latest : t \in TxsOf(blocks[h])
  BY DEF Below
<1>2. h # 0
  BY <1>1, GenesisAssumption DEF BlocksSound, Spends
<1>3. x \in OutputsOf(Below(h)) \cup OutputsOf(TxsOf(blocks[h]))
  BY <1>1, <1>2 DEF BlocksSound, Sound, CoinsOf, SpendsOf
<1>4. Below(h) \subseteq Below(latest + 1) /\ TxsOf(blocks[h]) \subseteq Below(latest + 1)
  BY <1>1 DEF Below
<1> QED
  BY <1>3, <1>4 DEF OutputsOf

-----------------------------------------------------------------------------
LEMMA CommitKeepsCoins ==
  ASSUME StorageTypeOK, IndexesAgree, CoinsInv,
         latest \in Nat, phase # "premine", phase' = phase,
         NEW b \in Blocks, NewTipOk(b), CommitTip(b)
  PROVE  CoinsInv'
<1> DEFINE C == Below(latest + 1)
           T == TxsOf(b)
<1>1. latest' = latest + 1 /\ Height(b) = latest + 1
  BY DEF NewTipOk, LinksToTip, CommitTip, CommitBlock
<1>2. /\ \A h \in 0..latest : blocks'[h] = blocks[h]
      /\ \A h \in 1..latest : undo'[h] = undo[h]
      /\ blocks'[latest + 1] = b
      /\ undo'[latest + 1] = SpendsOf(T)
  BY <1>1 DEF CommitTip, CommitBlock, Put, IndexesAgree, UndoOf, SpentBy
<1>3. \A k \in 0..latest + 1 : (Below(k))' = Below(k)
  <2> SUFFICES ASSUME NEW k \in 0..latest + 1
               PROVE  (Below(k))' = Below(k)
    OBVIOUS
  <2>1. \A h \in 0..k - 1 : blocks'[h] = blocks[h]
    BY <1>2
  <2> QED
    BY <2>1 DEF Below
<1>4. (Below(latest + 1))' = C \cup T
  <2>1. (Below(latest + 1))' = UNION {TxsOf(blocks'[h]) : h \in 0..latest + 1}
    BY <1>1 DEF Below
  <2>2. \A h \in 0..latest + 1 : h \in 0..latest \/ h = latest + 1
    OBVIOUS
  <2>3. C = UNION {TxsOf(blocks[h]) : h \in 0..latest}
    BY DEF Below
  <2>4. \A h \in 0..latest : h \in 0..latest + 1
    OBVIOUS
  <2>5. latest + 1 \in 0..latest + 1
    OBVIOUS
  <2> QED
    BY <1>2, <2>1, <2>2, <2>3, <2>4, <2>5
<1>5. utxos = CoinsOf(C) /\ SpendsOf(C) \subseteq OutputsOf(C)
  BY SpendsAreOutputs DEF CoinsInv
<1>6. BlockValid(utxos, b, TargetAtTip) /\ Body[b] \in Seq(Txs)
  BY TypesAssumption DEF NewTipOk
<1>7. SpendsOf(T) \subseteq CoinsOf(C) \cup OutputsOf(T)
  <2> SUFFICES ASSUME NEW t \in T, NEW x \in Spends(t), x \notin utxos
               PROVE  x \in OutputsOf(T)
    BY <1>5 DEF SpendsOf
  <2>1. PICK i \in 1..Len(Body[b]) : t = Body[b][i]
    BY <1>6 DEF TxsOf
  <2>2. ~TxBody[t].coinbase
    BY DEF Spends
  <2>3. PICK j \in 1..i - 1 : x \in Outputs(Body[b][j])
    BY <1>6, <2>1, <2>2, ValidBlockSpends
  <2>4. Body[b][j] \in T
    <3>1. j \in 1..Len(Body[b])
      BY <1>6
    <3> QED
      BY <1>6, <3>1 DEF TxsOf
  <2> QED
    BY <2>3, <2>4 DEF OutputsOf
<1>8. T \cap C = {}
  <2>1. \A t \in C : TxBody[t].coinbase => TxBody[t].claimedHeight # Height(b)
    <3> SUFFICES ASSUME NEW t \in C, TxBody[t].coinbase
                 PROVE  TxBody[t].claimedHeight # Height(b)
      OBVIOUS
    <3>1. PICK h \in 0..latest : t \in TxsOf(blocks[h])
      BY DEF Below
    <3>2. TxBody[t].claimedHeight = h
      BY <3>1 DEF CoinsInv, BlocksSound
    <3> QED
      BY <1>1, <3>2
  <2> HIDE DEF C
  <2> QED
    BY <1>5, <1>6, <2>1, ValidBlockIsNew
<1>9. utxos' = CoinsOf(C \cup T)
  <2>1. utxos' = (CoinsOf(C) \ SpendsOf(T)) \cup (OutputsOf(T) \ SpendsOf(T))
    BY <1>5 DEF CommitTip, CommitBlock, SpentBy, CreatedBy
  <2> HIDE DEF C, T
  <2> QED
    BY <1>5, <1>8, <2>1, CoinsGrow
<1>10. BlocksSound'
  <2>1. ASSUME NEW k \in 1..latest'
        PROVE  Sound(k)'
    <3>1. CASE k = latest + 1
      BY <1>2, <1>3, <1>7, <1>8, <3>1 DEF Sound
    <3>2. CASE k # latest + 1
      <4>1. k \in 1..latest /\ k \in 0..latest /\ k \in 0..latest + 1
        BY <1>1, <3>2
      <4>2. Sound(k)
        BY <4>1 DEF CoinsInv, BlocksSound
      <4> QED
        BY <1>2, <1>3, <4>1, <4>2 DEF Sound
    <3> QED
      BY <3>1, <3>2
  <2>2. ASSUME NEW h \in 0..latest', NEW t \in TxsOf(blocks'[h]), TxBody[t].coinbase
        PROVE  TxBody[t].claimedHeight = h
    <3>1. CASE h = latest + 1
      <4>1. PICK i \in 1..Len(Body[b]) : t = Body[b][i]
        BY <1>2, <1>6, <3>1 DEF TxsOf
      <4> QED
        BY <1>1, <1>6, <2>2, <3>1, <4>1, ValidBlockSpends
    <3>2. CASE h # latest + 1
      <4>1. h \in 0..latest
        BY <1>1, <3>2
      <4> QED
        BY <1>2, <2>2, <4>1 DEF CoinsInv, BlocksSound
    <3> QED
      BY <3>1, <3>2
  <2>3. blocks'[0] = GenesisBlock
    BY <1>2 DEF CoinsInv, BlocksSound
  <2> QED
    BY <2>1, <2>2, <2>3 DEF BlocksSound
<1>11. /\ DOMAIN txIndex' = (C \cup T) \ TxsOf(GenesisBlock)
       /\ \A t \in DOMAIN txIndex' :
            txIndex'[t] \in 0..latest' /\ t \in TxsOf(blocks'[txIndex'[t]])
  <2>1. /\ DOMAIN txIndex' = DOMAIN txIndex \cup T
        /\ \A t \in DOMAIN txIndex' : txIndex'[t] = IF t \in T THEN latest + 1 ELSE txIndex[t]
    BY <1>1 DEF CommitTip, CommitBlock, Put
  <2>2. TxsOf(GenesisBlock) \subseteq C
    BY DEF Below, CoinsInv, BlocksSound
  <2>3. DOMAIN txIndex' = (C \cup T) \ TxsOf(GenesisBlock)
    BY <1>8, <2>1, <2>2 DEF CoinsInv
  <2>4. ASSUME NEW t \in DOMAIN txIndex'
        PROVE  txIndex'[t] \in 0..latest' /\ t \in TxsOf(blocks'[txIndex'[t]])
    <3>1. CASE t \in T
      BY <1>1, <1>2, <2>1, <3>1
    <3>2. CASE t \notin T
      <4>1. t \in DOMAIN txIndex /\ txIndex'[t] = txIndex[t]
        BY <2>1, <3>2
      <4>2. txIndex[t] \in 0..latest /\ t \in TxsOf(blocks[txIndex[t]])
        BY <4>1 DEF CoinsInv
      <4> QED
        BY <1>1, <1>2, <4>1, <4>2
    <3> QED
      BY <3>1, <3>2
  <2> QED
    BY <2>3, <2>4
<1> QED
  BY <1>4, <1>9, <1>10, <1>11 DEF CoinsInv

LEMMA UndoTakesBack ==
  ASSUME StorageTypeOK, IndexesAgree, CoinsInv,
         latest \in Nat \ {0}, phase # "premine", phase' = phase,
         UndoLatestBlock
  PROVE  /\ utxos' = CoinsOf(Below(latest)) \cup
                       (SpendsOf(TxsOf(blocks[latest])) \cap OutputsOf(TxsOf(blocks[latest])))
         /\ (Below(latest + 1))' = Below(latest)
         /\ ~SpendsWithinBlock(blocks[latest]) => CoinsInv'
<1> DEFINE C == Below(latest)
           T == TxsOf(blocks[latest])
<1>1. latest' = latest - 1 /\ latest' \in Nat
  BY DEF UndoLatestBlock
<1>2. /\ \A h \in 0..latest' : blocks'[h] = blocks[h]
      /\ \A h \in 1..latest' : undo'[h] = undo[h]
  BY <1>1 DEF UndoLatestBlock, Delete, IndexesAgree
<1>3. \A k \in 0..latest : (Below(k))' = Below(k)
  <2> SUFFICES ASSUME NEW k \in 0..latest
               PROVE  (Below(k))' = Below(k)
    OBVIOUS
  <2>1. \A h \in 0..k - 1 : blocks'[h] = blocks[h]
    BY <1>1, <1>2
  <2> QED
    BY <2>1 DEF Below
<1>4. Below(latest + 1) = C \cup T
  <2>1. Below(latest + 1) = UNION {TxsOf(blocks[h]) : h \in 0..latest}
    BY DEF Below
  <2>2. \A h \in 0..latest : h \in 0..latest - 1 \/ h = latest
    OBVIOUS
  <2>3. latest \in 0..latest /\ \A h \in 0..latest - 1 : h \in 0..latest
    OBVIOUS
  <2> QED
    BY <2>1, <2>2, <2>3 DEF Below
<1>5. Sound(latest)
  BY DEF CoinsInv, BlocksSound
<1>6. /\ T \cap C = {} /\ undo[latest] = SpendsOf(T)
      /\ SpendsOf(T) \subseteq CoinsOf(C) \cup OutputsOf(T)
  BY <1>5 DEF Sound
<1>7. utxos' = CoinsOf(C) \cup (SpendsOf(T) \cap OutputsOf(T))
  <2>1. GetUndo(latest) = SpendsOf(T)
    BY <1>6 DEF GetUndo, IndexesAgree
  <2>2. utxos' = (CoinsOf(C \cup T) \ OutputsOf(T)) \cup SpendsOf(T)
    BY <1>4, <2>1 DEF UndoLatestBlock, CoinsInv
  <2> HIDE DEF C, T
  <2> QED
    BY <1>6, <2>2, CoinsShrink
<1>8. (Below(latest + 1))' = C
  <2>1. (Below(latest + 1))' = UNION {TxsOf(blocks'[h]) : h \in 0..latest - 1}
    BY <1>1 DEF Below
  <2> QED
    BY <1>1, <1>2, <2>1 DEF Below
<1>9. BlocksSound'
  <2>1. ASSUME NEW k \in 1..latest'
        PROVE  Sound(k)'
    <3>1. k \in 1..latest /\ k \in 0..latest' /\ k \in 0..latest
      BY <1>1
    <3>2. Sound(k)
      BY <3>1 DEF CoinsInv, BlocksSound
    <3> QED
      BY <1>2, <1>3, <3>1, <3>2 DEF Sound
  <2>2. ASSUME NEW h \in 0..latest', NEW t \in TxsOf(blocks'[h]), TxBody[t].coinbase
        PROVE  TxBody[t].claimedHeight = h
    BY <1>1, <1>2, <2>2 DEF CoinsInv, BlocksSound
  <2>3. blocks'[0] = GenesisBlock
    BY <1>1, <1>2 DEF CoinsInv, BlocksSound
  <2> QED
    BY <2>1, <2>2, <2>3 DEF BlocksSound
<1>10. /\ DOMAIN txIndex' = C \ TxsOf(GenesisBlock)
       /\ \A t \in DOMAIN txIndex' :
            txIndex'[t] \in 0..latest' /\ t \in TxsOf(blocks'[txIndex'[t]])
  <2>1. /\ DOMAIN txIndex' = DOMAIN txIndex \ T
        /\ \A t \in DOMAIN txIndex' : txIndex'[t] = txIndex[t]
    BY DEF UndoLatestBlock, Delete
  <2>2. DOMAIN txIndex' = C \ TxsOf(GenesisBlock)
    BY <1>4, <1>6, <2>1 DEF CoinsInv
  <2>3. ASSUME NEW t \in DOMAIN txIndex'
        PROVE  txIndex'[t] \in 0..latest' /\ t \in TxsOf(blocks'[txIndex'[t]])
    <3>1. txIndex[t] \in 0..latest /\ t \in TxsOf(blocks[txIndex[t]])
      BY <2>1 DEF CoinsInv
    <3>2. txIndex[t] # latest
      BY <2>1, <3>1
    <3>3. txIndex[t] \in 0..latest'
      BY <1>1, <3>1, <3>2
    <3> QED
      BY <1>2, <2>1, <3>1, <3>3
  <2> QED
    BY <2>2, <2>3
<1>11. ASSUME ~SpendsWithinBlock(blocks[latest])
       PROVE  CoinsInv'
  <2>1. utxos' = CoinsOf(C)
    BY <1>7, <1>11 DEF SpendsWithinBlock
  <2> QED
    BY <1>8, <1>9, <1>10, <2>1 DEF CoinsInv
<1> HIDE DEF C, T
<1> QED
  BY <1>7, <1>8, <1>11 DEF C, T

LEMMA InitCoins == Init => CoinsInv
<1> SUFFICES ASSUME Init PROVE CoinsInv
  OBVIOUS
<1> USE DEF Init, StorageInit, NoHeight, Empty
<1>1. Below(latest + 1) = {}
  BY DEF Below
<1>2. CoinsOf({}) = {}
  BY DEF CoinsOf, OutputsOf
<1>3. BlocksSound
  BY DEF BlocksSound
<1> QED
  BY <1>1, <1>2, <1>3 DEF CoinsInv

(* CoinsInv depends on the database and on whether the premine is due.     *)
LEMMA UnchangedCoins ==
  ASSUME CoinsInv, UNCHANGED storage,
         phase' = phase \/ (phase # "premine" /\ phase' # "premine")
  PROVE  CoinsInv'
BY DEF CoinsInv, BlocksSound, Sound, Below, CoinsOf, storage

LEMMA NextCoins ==
  ASSUME IndexInv, CoinsInv, [Next]_vars, [UndoIsClean]_vars
  PROVE  CoinsInv'
<1>0. StorageTypeOK /\ IndexesAgree /\ ReorgOK
  BY DEF IndexInv, TypeOK
<1>1. CASE PutGenesis
  <2> USE <1>1 DEF PutGenesis, PutBlock, Put, NoHeight
  <2>1. latest' = 0 /\ DOMAIN blocks = {} /\ blocks'[0] = GenesisBlock
    BY <1>0, TypesAssumption DEF IndexesAgree, Height
  <2>2. Below(latest + 1) = {}
    BY DEF Below
  <2>3. utxos' = {} /\ DOMAIN txIndex' = {}
    BY <2>2 DEF CoinsInv, CoinsOf, OutputsOf
  <2>4. (Below(latest + 1))' = TxsOf(GenesisBlock)
    BY <2>1 DEF Below
  <2>5. BlocksSound'
    BY <2>1, GenesisAssumption DEF BlocksSound
  <2> QED
    BY <2>1, <2>3, <2>4, <2>5 DEF CoinsInv
<1>2. CASE ApplyPremine
  <2> USE <1>2 DEF ApplyPremine, ApplyChanges
  <2>1. latest = 0 /\ utxos = {} /\ blocks[0] = GenesisBlock
    BY DEF CoinsInv, BlocksSound
  <2>2. Below(latest + 1) = TxsOf(GenesisBlock)
    BY <2>1 DEF Below
  <2>3. SpendsOf(TxsOf(GenesisBlock)) = {}
    BY GenesisAssumption DEF SpendsOf, Spends
  <2>4. utxos' = CoinsOf(Below(latest + 1))
    BY <2>1, <2>2, <2>3 DEF CoinsOf
  <2>5. (Below(latest + 1))' = Below(latest + 1)
    BY DEF Below
  <2>6. BlocksSound'
    BY DEF CoinsInv, BlocksSound, Sound, Below
  <2> QED
    BY <2>4, <2>5, <2>6 DEF CoinsInv
<1>3. CASE Restart
  BY <1>3, UnchangedCoins DEF Restart
<1>4. ASSUME NEW b \in Blocks, CommitNewTip(b)
      PROVE  CoinsInv'
  <2>1. latest \in Nat /\ phase = "running" /\ phase' = phase
    BY <1>0, <1>4 DEF CommitNewTip, LockFree, ReorgOK
  <2> QED
    BY <1>0, <1>4, <2>1, CommitKeepsCoins DEF CommitNewTip
<1>5. ASSUME NEW b \in Blocks, SiblingReorg(b)
      PROVE  CoinsInv'
  BY <1>5, UnchangedCoins DEF SiblingReorg, LockFree
<1>6. ASSUME NEW c \in CandidateChains, FindAncestor(c) \/ BackfillReorg(c)
      PROVE  CoinsInv'
  BY <1>6, UnchangedCoins DEF FindAncestor, BackfillReorg, LockFree
<1>7. CASE ReorgUndo \/ ReorgRollback
  <2>1. latest \in Nat \ {0} /\ phase = "running" /\ phase' = phase
    BY <1>0, <1>7 DEF ReorgUndo, ReorgRollback, ReorgOK, IndexInv, TypeOK, Reorgs
  <2> QED
    <3>1. CASE ~SpendsWithinBlock(blocks[latest])
      BY <1>0, <1>7, <2>1, <3>1, UndoTakesBack DEF ReorgUndo, ReorgRollback
    <3>2. CASE UNCHANGED vars
      BY <3>2, UnchangedCoins DEF vars
    <3> QED
      BY <1>7, <3>1, <3>2 DEF UndoIsClean
<1>8. CASE ReorgCommit
  <2>1. latest \in Nat /\ phase = "running" /\ phase' = phase
    BY <1>0, <1>8 DEF ReorgCommit, ReorgOK
  <2>2. NextCandidate \in Blocks
    BY <1>0, <1>8 DEF ReorgCommit, ReorgOK, NextCandidate, IndexInv, TypeOK, Reorgs
  <2> QED
    BY <1>0, <1>8, <2>1, <2>2, CommitKeepsCoins DEF ReorgCommit
<1>9. CASE ReorgRestore
  <2>1. latest \in Nat /\ phase = "running" /\ phase' = phase
    BY <1>0, <1>9 DEF ReorgRestore, ReorgOK
  <2>2. NextOriginal \in Blocks
    BY <1>0, <1>9 DEF ReorgRestore, ReorgOK, NextOriginal, IndexInv, TypeOK, Reorgs
  <2> QED
    BY <1>0, <1>9, <2>1, <2>2, CommitKeepsCoins DEF ReorgRestore
<1>10. CASE ReorgReject \/ WriteFails
  BY <1>10, UnchangedCoins DEF ReorgReject, WriteFails
<1>11. CASE Crash
  BY <1>11, UnchangedCoins DEF Crash
<1>12. CASE UNCHANGED vars
  BY <1>12 DEF vars, storage, CoinsInv, BlocksSound, Sound, Below, CoinsOf
<1> QED
  BY <1>1, <1>2, <1>3, <1>4, <1>5, <1>6, <1>7, <1>8, <1>9, <1>10, <1>11, <1>12
     DEF Next, ReorgStep

LEMMA CoinsInvariant == Spec /\ UndosAreClean => [](IndexInv /\ CoinsInv)
<1>1. Init => IndexInv /\ CoinsInv
  BY InitIndexes, InitCoins
<1>2. IndexInv /\ CoinsInv /\ [Next]_vars /\ [UndoIsClean]_vars
        => (IndexInv /\ CoinsInv)'
  BY NextIndexes, NextCoins
<1> QED
  BY <1>1, <1>2, PTL DEF Spec, UndosAreClean

(* Unless a block is undone that spends an output of its own, the UTXO set *)
(* is what replaying the local chain leaves, whatever its blocks spend: no *)
(* mix of commits, undos, failed reorgs and crashes loses or makes a coin. *)
THEOREM CoinsMatchChain == Spec /\ UndosAreClean => []UtxosReplayChain
<1>1. IndexInv /\ CoinsInv => UtxosReplayChain
  <2> SUFFICES ASSUME IndexInv, CoinsInv
               PROVE  UtxosReplayChain
    OBVIOUS
  <2>1. CASE phase = "running"
    <3>1. latest \in Nat /\ DOMAIN blocks = 0..latest
      BY <2>1 DEF IndexInv, ReorgOK, IndexesAgree
    <3>2. ChainTxs = Below(latest + 1)
      BY <3>1 DEF ChainTxs, Below
    <3> QED
      BY <2>1, <3>2 DEF UtxosReplayChain, CoinsInv, CoinsOf
  <2> QED
    BY <2>1 DEF UtxosReplayChain
<1> QED
  BY <1>1, CoinsInvariant, PTL

(* On the same condition the transaction index names the confirmed         *)
(* transactions, each at a height whose block holds it, so that the lookup *)
(* of get_transaction by position in the block cannot fail.                *)
THEOREM TxIndexMatchesChain == Spec /\ UndosAreClean => []TxIndexAgrees
<1>1. IndexInv /\ CoinsInv => TxIndexAgrees
  <2> SUFFICES ASSUME IndexInv, CoinsInv
               PROVE  TxIndexAgrees
    OBVIOUS
  <2>1. DOMAIN blocks = 0..latest /\ latest \in Nat \cup {NoHeight}
    BY DEF IndexInv, IndexesAgree, TypeOK, StorageTypeOK
  <2>2. ChainTxs = Below(latest + 1)
    BY <2>1 DEF ChainTxs, Below, NoHeight
  <2> QED
    BY <2>2 DEF CoinsInv, TxIndexAgrees
<1> QED
  BY <1>1, CoinsInvariant, PTL

(* The worst that undo_latest_block does, for any block: the outputs that  *)
(* the block made and spent itself come to life, since the undo data name  *)
(* them and they are put back after the outputs of the block are deleted.  *)
(* No other coin is lost or made.                                          *)
THEOREM UndoMakesPhantoms ==
  ASSUME IndexInv, CoinsInv, ReorgUndo \/ ReorgRollback
  PROVE  utxos' = CoinsOf((Below(latest + 1))')
                    \cup (SpendsOf(TxsOf(blocks[latest])) \cap OutputsOf(TxsOf(blocks[latest])))
<1>1. StorageTypeOK /\ IndexesAgree /\ ReorgOK
  BY DEF IndexInv, TypeOK
<1>2. latest \in Nat \ {0} /\ phase = "running" /\ phase' = phase
  BY <1>1 DEF ReorgUndo, ReorgRollback, ReorgOK, IndexInv, TypeOK, Reorgs
<1>3. UndoLatestBlock
  BY DEF ReorgUndo, ReorgRollback
<1> QED
  BY <1>1, <1>2, <1>3, UndoTakesBack

-----------------------------------------------------------------------------
(* A reorganisation that fails puts the local chain back: each block that  *)
(* it took off is still valid where it was.                                *)
TxsBelow(f, k) == UNION {TxsOf(f[h]) : h \in 0..k - 1}

TargetAt(f, k) ==
  ExpectedTarget([h \in 0..k - 1 |-> Header[f[h]].target],
                 [h \in 0..k - 1 |-> Header[f[h]].timestamp], k)

(* The block at a height of a chain was a valid tip on those under it.     *)
Fits(f, k) ==
  /\ Height(f[k]) = k /\ Parent(f[k]) = f[k - 1]
  /\ BlockValid(CoinsOf(TxsBelow(f, k)), f[k], TargetAt(f, k))

(* The chain that the reorganisation started from: the part of it that is  *)
(* still, or again, in the database up to Base, and then the blocks that   *)
(* were taken off.                                                         *)
Base == IF reorg.stage = "undo" THEN latest ELSE reorg.fork

Original ==
  [h \in 0..Base + Len(reorg.undone) |->
     IF h <= Base THEN blocks[h] ELSE reorg.undone[h - Base]]

LocalFits == \A k \in 1..latest : Fits(blocks, k)

RestoreInv ==
  /\ LocalFits
  /\ reorg.stage # "idle" => \A k \in 1..Base + Len(reorg.undone) : Fits(Original, k)
  /\ reorg.stage = "restore" =>
       /\ latest = reorg.fork + reorg.done
       /\ \A h \in 0..latest : blocks[h] = Original[h]

-----------------------------------------------------------------------------
LEMMA FitsAlike ==
  ASSUME NEW f, NEW g, NEW k \in Nat \ {0}, \A h \in 0..k : f[h] = g[h], Fits(f, k)
  PROVE  Fits(g, k)
<1>1. k \in 0..k /\ k - 1 \in 0..k /\ \A h \in 0..k - 1 : h \in 0..k
  OBVIOUS
<1>2. \A h \in 0..k - 1 : f[h] = g[h]
  BY <1>1
<1>3. TxsBelow(f, k) = TxsBelow(g, k)
  BY <1>2 DEF TxsBelow
<1>4. TargetAt(f, k) = TargetAt(g, k)
  <2>1. [h \in 0..k - 1 |-> Header[f[h]].target] = [h \in 0..k - 1 |-> Header[g[h]].target]
    BY <1>2
  <2>2. [h \in 0..k - 1 |-> Header[f[h]].timestamp] = [h \in 0..k - 1 |-> Header[g[h]].timestamp]
    BY <1>2
  <2> QED
    BY <2>1, <2>2 DEF TargetAt
<1>5. f[k] = g[k] /\ f[k - 1] = g[k - 1]
  BY <1>1
<1> QED
  BY <1>3, <1>4, <1>5 DEF Fits

(* commit_new_tip succeeds exactly with a block that fits.                 *)
LEMMA NewTipFits ==
  ASSUME IndexInv, CoinsInv, latest \in Nat, phase # "premine",
         NEW b, NEW f, \A h \in 0..latest : f[h] = blocks[h], f[latest + 1] = b
  PROVE  NewTipOk(b) <=> Fits(f, latest + 1)
<1> DEFINE k == latest + 1
<1>1. k - 1 = latest /\ k \in Nat /\ latest \in 0..latest
  OBVIOUS
<1>2. DOMAIN blocks = 0..latest
  BY DEF IndexInv, IndexesAgree
<1>3. utxos = CoinsOf(TxsBelow(f, k))
  <2>1. TxsBelow(f, k) = Below(latest + 1)
    BY <1>1 DEF TxsBelow, Below
  <2> QED
    BY <2>1 DEF CoinsInv
<1>4. TargetAtTip = TargetAt(f, k)
  <2>1. [h \in DOMAIN blocks |-> Header[blocks[h]].target] = [h \in 0..k - 1 |-> Header[f[h]].target]
    BY <1>1, <1>2
  <2>2. [h \in DOMAIN blocks |-> Header[blocks[h]].timestamp]
          = [h \in 0..k - 1 |-> Header[f[h]].timestamp]
    BY <1>1, <1>2
  <2> QED
    BY <2>1, <2>2 DEF TargetAtTip, TargetAt
<1>5. f[k - 1] = blocks[latest] /\ f[k] = b
  BY <1>1
<1> QED
  BY <1>3, <1>4, <1>5 DEF NewTipOk, LinksToTip, Fits

LEMMA CommitKeepsFits ==
  ASSUME IndexInv, CoinsInv, LocalFits, latest \in Nat, phase # "premine",
         NEW b \in Blocks, NewTipOk(b), CommitTip(b)
  PROVE  /\ latest' = latest + 1 /\ blocks'[latest + 1] = b
         /\ \A h \in 0..latest : blocks'[h] = blocks[h]
         /\ LocalFits'
<1>1. latest' = latest + 1 /\ Height(b) = latest + 1
  BY DEF NewTipOk, LinksToTip, CommitTip, CommitBlock
<1>2. DOMAIN blocks = 0..latest
  BY DEF IndexInv, IndexesAgree
<1>3. blocks' = [h \in 0..latest \cup {latest + 1} |-> IF h = latest + 1 THEN b ELSE blocks[h]]
  BY <1>1, <1>2 DEF CommitTip, CommitBlock, Put
<1>4. blocks'[latest + 1] = b /\ \A h \in 0..latest : blocks'[h] = blocks[h]
  BY <1>3
<1>5. Fits(blocks', latest + 1)
  BY <1>4, NewTipFits
<1>6. ASSUME NEW k \in 1..latest
      PROVE  Fits(blocks', k)
  <2>1. Fits(blocks, k) /\ k \in Nat \ {0} /\ \A h \in 0..k : blocks[h] = blocks'[h]
    BY <1>4 DEF LocalFits
  <2> QED
    BY <2>1, FitsAlike
<1>7. \A k \in 1..latest' : k = latest + 1 \/ k \in 1..latest
  BY <1>1
<1> QED
  BY <1>1, <1>4, <1>5, <1>6, <1>7 DEF LocalFits

LEMMA UndoKeepsFits ==
  ASSUME IndexInv, LocalFits, latest \in Nat \ {0}, UndoLatestBlock
  PROVE  /\ latest' = latest - 1
         /\ \A h \in 0..latest' : blocks'[h] = blocks[h]
         /\ LocalFits'
<1>1. latest' = latest - 1 /\ DOMAIN blocks = 0..latest
  BY DEF IndexInv, IndexesAgree, UndoLatestBlock
<1>2. blocks' = [h \in 0..latest \ {latest} |-> blocks[h]]
  BY <1>1 DEF UndoLatestBlock, Delete
<1>3. \A h \in 0..latest' : blocks'[h] = blocks[h]
  BY <1>1, <1>2
<1>4. ASSUME NEW k \in 1..latest'
      PROVE  Fits(blocks', k)
  <2>1. Fits(blocks, k) /\ k \in Nat \ {0} /\ \A h \in 0..k : blocks[h] = blocks'[h]
    BY <1>1, <1>3 DEF LocalFits
  <2> QED
    BY <2>1, FitsAlike
<1> QED
  BY <1>1, <1>3, <1>4 DEF LocalFits

(* A step that moves neither Base nor what is on either side of it.        *)
LEMMA SameOriginal ==
  ASSUME IndexInv, RestoreInv, reorg.stage # "idle", Base' = Base,
         Len(reorg'.undone) = Len(reorg.undone), Base \in Nat, Len(reorg.undone) \in Nat,
         reorg'.undone = reorg.undone, \A h \in 0..Base : blocks'[h] = blocks[h]
  PROVE  Original' = Original /\ \A k \in 1..Base' + Len(reorg'.undone) : Fits(Original', k)
<1>1. Original' = Original
  BY DEF Original
<1> QED
  BY <1>1 DEF RestoreInv

LEMMA IdleKeeps ==
  ASSUME LocalFits', reorg' = Idle
  PROVE  RestoreInv'
BY IdleIsNoReorg DEF RestoreInv

(* A reorganisation starts from the local chain.                           *)
LEMMA TryReorgKeeps ==
  ASSUME IndexInv, RestoreInv, latest \in Nat, UNCHANGED storage, NEW fork \in Nat, NEW c,
         TryReorg(fork, c) \/ reorg' = Idle
  PROVE  RestoreInv'
<1>1. latest' = latest /\ blocks' = blocks /\ LocalFits'
  BY DEF storage, RestoreInv, LocalFits
<1>2. CASE reorg' = Idle
  BY <1>1, <1>2, IdleKeeps
<1>3. CASE reorg' = [Idle EXCEPT !.stage = IF latest = fork THEN "commit" ELSE "undo",
                                 !.fork = fork, !.chain = c]
  <2>1. /\ reorg'.stage = (IF latest = fork THEN "commit" ELSE "undo")
        /\ reorg'.fork = fork /\ reorg'.undone = <<>>
    BY <1>3 DEF Idle
  <2>2. Base' = latest /\ Len(reorg'.undone) = 0
    BY <1>1, <2>1 DEF Base
  <2>3. \A h \in 0..latest : Original'[h] = blocks[h]
    BY <1>1, <2>2 DEF Original
  <2>4. ASSUME NEW k \in 1..latest
        PROVE  Fits(Original', k)
    <3>1. Fits(blocks, k) /\ k \in Nat \ {0} /\ \A h \in 0..k : blocks[h] = Original'[h]
      BY <2>3 DEF RestoreInv, LocalFits
    <3> QED
      BY <3>1, FitsAlike
  <2> QED
    BY <1>1, <2>1, <2>2, <2>4 DEF RestoreInv
<1> QED
  BY <1>2, <1>3 DEF TryReorg

(* The rollback is over: the blocks that were taken off go back.           *)
LEMMA RestoreOrEndKeeps ==
  ASSUME IndexInv, RestoreInv, reorg.stage \in {"commit", "rollback"},
         LocalFits', latest' = reorg.fork, reorg' = RestoreOrEnd,
         \A h \in 0..reorg.fork : blocks'[h] = blocks[h]
  PROVE  RestoreInv'
<1>1. reorg \in Reorgs /\ reorg.fork \in Nat /\ Len(reorg.undone) \in Nat /\ Base = reorg.fork
  BY DEF IndexInv, TypeOK, Reorgs, Base
<1>2. CASE reorg.undone = <<>>
  BY <1>2, IdleKeeps DEF RestoreOrEnd
<1>3. CASE reorg.undone # <<>>
  <2>1. /\ reorg'.stage = "restore" /\ reorg'.done = 0
        /\ reorg'.fork = reorg.fork /\ reorg'.undone = reorg.undone
    BY <1>1, <1>3 DEF RestoreOrEnd, Reorgs
  <2>2. Base' = Base
    BY <1>1, <2>1 DEF Base
  <2>3. /\ Original' = Original
        /\ \A k \in 1..Base' + Len(reorg'.undone) : Fits(Original', k)
    BY <1>1, <2>1, <2>2, SameOriginal
  <2>4. \A h \in 0..latest' : blocks'[h] = Original'[h]
    BY <1>1, <2>1, <2>2 DEF Original
  <2> QED
    BY <1>1, <2>1, <2>3, <2>4 DEF RestoreInv
<1> QED
  BY <1>2, <1>3

LEMMA GiveUpKeeps ==
  ASSUME IndexInv, RestoreInv, reorg.stage = "commit", UNCHANGED storage, GiveUp
  PROVE  RestoreInv'
<1>1. latest' = latest /\ blocks' = blocks /\ LocalFits'
  BY DEF storage, RestoreInv, LocalFits
<1>2. /\ reorg \in Reorgs /\ reorg.fork \in Nat /\ Len(reorg.undone) \in Nat /\ Base = reorg.fork
      /\ latest \in Nat /\ reorg.fork <= latest
  BY DEF IndexInv, TypeOK, Reorgs, ReorgOK, Base
<1>3. CASE latest > reorg.fork
  <2>1. reorg'.stage = "rollback" /\ reorg'.fork = reorg.fork /\ reorg'.undone = reorg.undone
    BY <1>2, <1>3 DEF GiveUp, Reorgs
  <2>2. Base' = Base
    BY <1>2, <2>1 DEF Base
  <2>3. \A k \in 1..Base' + Len(reorg'.undone) : Fits(Original', k)
    BY <1>1, <1>2, <2>1, <2>2, SameOriginal
  <2> QED
    BY <1>1, <2>1, <2>3 DEF RestoreInv
<1>4. CASE ~(latest > reorg.fork)
  <2>1. reorg' = RestoreOrEnd /\ latest' = reorg.fork
    BY <1>1, <1>2, <1>4 DEF GiveUp
  <2> QED
    BY <1>1, <2>1, RestoreOrEndKeeps
<1> QED
  BY <1>3, <1>4

-----------------------------------------------------------------------------
(* Each step of a reorganisation.                                          *)

(* Undoing a block moves it from one side of Base to the other.            *)
LEMMA ReorgUndoOriginal ==
  ASSUME IndexInv, RestoreInv, ReorgUndo
  PROVE  /\ Base' + Len(reorg'.undone) = Base + Len(reorg.undone)
         /\ Base + Len(reorg.undone) \in Nat /\ latest' = latest - 1 /\ LocalFits'
         /\ \A h \in 0..Base + Len(reorg.undone) : Original'[h] = Original[h]
<1>1. /\ reorg \in Reorgs /\ reorg.fork \in Nat /\ reorg.undone \in Seq(Blocks)
      /\ latest \in Nat \ {0} /\ reorg.fork < latest /\ Base = latest
  BY DEF IndexInv, TypeOK, Reorgs, ReorgOK, Base, ReorgUndo
<1>2. /\ latest' = latest - 1 /\ \A h \in 0..latest' : blocks'[h] = blocks[h]
      /\ LocalFits'
  BY <1>1, UndoKeepsFits DEF ReorgUndo, RestoreInv
<1>3. /\ reorg'.undone = <<blocks[latest]>> \o reorg.undone
      /\ reorg'.stage = (IF latest' = reorg.fork THEN "commit" ELSE "undo")
      /\ reorg'.fork = reorg.fork
  BY <1>1 DEF ReorgUndo, Reorgs
<1>4. blocks[latest] \in Blocks
  BY <1>1 DEF IndexInv, TypeOK, StorageTypeOK, IndexesAgree
<1>5. /\ Len(reorg'.undone) = Len(reorg.undone) + 1 /\ Len(reorg.undone) \in Nat
      /\ reorg'.undone[1] = blocks[latest]
      /\ \A i \in 1..Len(reorg.undone) : reorg'.undone[i + 1] = reorg.undone[i]
  BY <1>1, <1>3, <1>4
<1>6. Base' = latest - 1
  BY <1>1, <1>2, <1>3 DEF Base
<1>7. ASSUME NEW h \in 0..latest + Len(reorg.undone)
      PROVE  Original'[h] = Original[h]
  <2>1. h \in 0..Base' + Len(reorg'.undone) /\ h \in 0..Base + Len(reorg.undone)
    BY <1>1, <1>5, <1>6
  <2>2. Original'[h] = IF h <= latest - 1 THEN blocks'[h] ELSE reorg'.undone[h - (latest - 1)]
    BY <1>6, <2>1 DEF Original
  <2>3. Original[h] = IF h <= latest THEN blocks[h] ELSE reorg.undone[h - latest]
    BY <1>1, <2>1 DEF Original
  <2>4. CASE h <= latest - 1
    BY <1>1, <1>2, <2>2, <2>3, <2>4
  <2>5. CASE h = latest
    <3>1. h - (latest - 1) = 1
      BY <1>1, <2>5
    <3> QED
      BY <1>1, <1>5, <2>2, <2>3, <2>5, <3>1
  <2>6. CASE h > latest
    <3>1. h - latest \in 1..Len(reorg.undone) /\ h - (latest - 1) = (h - latest) + 1
      BY <1>1, <1>5, <2>6
    <3>2. reorg'.undone[h - (latest - 1)] = reorg.undone[h - latest]
      BY <1>5, <3>1
    <3> QED
      BY <1>1, <2>2, <2>3, <2>6, <3>2
  <2> QED
    BY <1>1, <2>4, <2>5, <2>6
<1> QED
  BY <1>1, <1>2, <1>5, <1>6, <1>7

LEMMA ReorgUndoKeeps ==
  ASSUME IndexInv, RestoreInv, ReorgUndo
  PROVE  RestoreInv'
<1>1. PICK n : /\ n = Base + Len(reorg.undone) /\ n \in Nat
               /\ n = Base' + Len(reorg'.undone) /\ LocalFits'
               /\ \A h \in 0..n : Original'[h] = Original[h]
  BY ReorgUndoOriginal
<1>2. reorg'.stage \in {"undo", "commit"}
  BY DEF ReorgUndo, IndexInv, TypeOK, Reorgs
<1>3. ASSUME NEW k \in 1..n
      PROVE  Fits(Original', k)
  <2>1. k \in Nat \ {0} /\ \A h \in 0..k : h \in 0..n
    BY <1>1
  <2>2. Fits(Original, k) /\ \A h \in 0..k : Original[h] = Original'[h]
    BY <1>1, <2>1 DEF RestoreInv, ReorgUndo
  <2> QED
    BY <2>1, <2>2, FitsAlike
<1> QED
  BY <1>1, <1>2, <1>3 DEF RestoreInv

LEMMA ReorgCommitKeeps ==
  ASSUME IndexInv, CoinsInv, RestoreInv, ReorgCommit
  PROVE  RestoreInv'
<1>1. /\ reorg \in Reorgs /\ reorg.fork \in Nat /\ Len(reorg.undone) \in Nat
      /\ latest \in Nat /\ reorg.fork <= latest /\ Base = reorg.fork /\ phase = "running"
      /\ reorg.stage = "commit"
  BY DEF IndexInv, TypeOK, Reorgs, ReorgOK, Base, ReorgCommit
<1>2. NextCandidate \in Blocks
  BY DEF IndexInv, TypeOK, Reorgs, ReorgOK, NextCandidate, ReorgCommit
<1>3. (\A h \in 0..latest : blocks'[h] = blocks[h]) /\ LocalFits'
  BY <1>1, <1>2, CommitKeepsFits DEF ReorgCommit, RestoreInv
<1>4. CASE reorg' = Idle
  BY <1>3, <1>4, IdleKeeps
<1>5. CASE reorg' = [reorg EXCEPT !.done = @ + 1]
  <2>1. reorg'.stage = "commit" /\ reorg'.fork = reorg.fork /\ reorg'.undone = reorg.undone
    BY <1>1, <1>5 DEF Reorgs
  <2>2. Base' = Base /\ \A h \in 0..Base : blocks'[h] = blocks[h]
    BY <1>1, <1>3, <2>1 DEF Base
  <2>3. \A k \in 1..Base' + Len(reorg'.undone) : Fits(Original', k)
    BY <1>1, <2>1, <2>2, SameOriginal
  <2> QED
    BY <1>3, <2>1, <2>3 DEF RestoreInv
<1> QED
  BY <1>4, <1>5 DEF ReorgCommit

LEMMA ReorgRollbackKeeps ==
  ASSUME IndexInv, RestoreInv, ReorgRollback
  PROVE  RestoreInv'
<1>1. /\ reorg \in Reorgs /\ reorg.fork \in Nat /\ Len(reorg.undone) \in Nat
      /\ latest \in Nat \ {0} /\ reorg.fork < latest /\ Base = reorg.fork
      /\ reorg.stage = "rollback"
  BY DEF IndexInv, TypeOK, Reorgs, ReorgOK, Base, ReorgRollback
<1>2. /\ latest' = latest - 1 /\ \A h \in 0..latest' : blocks'[h] = blocks[h]
      /\ LocalFits'
  BY <1>1, UndoKeepsFits DEF ReorgRollback, RestoreInv
<1>3. \A h \in 0..reorg.fork : blocks'[h] = blocks[h]
  BY <1>1, <1>2
<1>4. CASE latest' > reorg.fork
  <2>1. reorg' = reorg
    BY <1>4 DEF ReorgRollback
  <2>2. Base' = Base
    BY <1>1, <2>1 DEF Base
  <2>3. \A k \in 1..Base' + Len(reorg'.undone) : Fits(Original', k)
    BY <1>1, <1>3, <2>1, <2>2, SameOriginal
  <2> QED
    BY <1>1, <1>2, <2>1, <2>3 DEF RestoreInv
<1>5. CASE ~(latest' > reorg.fork)
  <2>1. reorg' = RestoreOrEnd /\ latest' = reorg.fork
    BY <1>1, <1>2, <1>5 DEF ReorgRollback
  <2> QED
    BY <1>1, <1>2, <1>3, <2>1, RestoreOrEndKeeps
<1> QED
  BY <1>4, <1>5

(* The next of the blocks that were taken off fits on the tip.             *)
LEMMA NextOriginalFits ==
  ASSUME IndexInv, CoinsInv, RestoreInv, reorg.stage = "restore"
  PROVE  /\ NextOriginal = Original[latest + 1] /\ NewTipOk(NextOriginal)
         /\ latest + 1 \in 1..Base + Len(reorg.undone)
<1>1. /\ reorg.fork \in Nat /\ reorg.done \in Nat /\ Len(reorg.undone) \in Nat
      /\ latest = reorg.fork + reorg.done /\ reorg.done < Len(reorg.undone)
      /\ latest \in Nat /\ Base = reorg.fork /\ phase = "running"
  BY DEF IndexInv, TypeOK, Reorgs, ReorgOK, Base, RestoreInv
<1>2. /\ latest + 1 \in 1..Base + Len(reorg.undone) /\ ~(latest + 1 <= Base)
      /\ latest + 1 \in 0..Base + Len(reorg.undone) /\ (latest + 1) - Base = reorg.done + 1
  BY <1>1
<1>3. Original[latest + 1] = NextOriginal
  <2>1. Original[latest + 1] = reorg.undone[(latest + 1) - Base]
    BY <1>2 DEF Original
  <2> QED
    BY <1>2, <2>1 DEF NextOriginal
<1>4. Fits(Original, latest + 1) /\ \A h \in 0..latest : Original[h] = blocks[h]
  BY <1>2 DEF RestoreInv
<1> QED
  BY <1>1, <1>2, <1>3, <1>4, NewTipFits

LEMMA ReorgRestoreKeeps ==
  ASSUME IndexInv, CoinsInv, RestoreInv, ReorgRestore
  PROVE  RestoreInv'
<1>1. /\ reorg \in Reorgs /\ reorg.fork \in Nat /\ reorg.done \in Nat /\ Len(reorg.undone) \in Nat
      /\ latest \in Nat /\ latest = reorg.fork + reorg.done
      /\ Base = reorg.fork /\ phase = "running" /\ reorg.stage = "restore"
  BY DEF IndexInv, TypeOK, Reorgs, ReorgOK, Base, ReorgRestore, RestoreInv
<1>2. NextOriginal \in Blocks
  BY DEF IndexInv, TypeOK, Reorgs, ReorgOK, NextOriginal, ReorgRestore
<1>3. /\ latest' = latest + 1 /\ blocks'[latest + 1] = NextOriginal
      /\ \A h \in 0..latest : blocks'[h] = blocks[h]
      /\ LocalFits'
  BY <1>1, <1>2, CommitKeepsFits DEF ReorgRestore, RestoreInv
<1>4. CASE reorg' = Idle
  BY <1>3, <1>4, IdleKeeps
<1>5. CASE reorg' = [reorg EXCEPT !.done = @ + 1]
  <2>1. /\ reorg'.stage = "restore" /\ reorg'.fork = reorg.fork /\ reorg'.undone = reorg.undone
        /\ reorg'.done = reorg.done + 1
    BY <1>1, <1>5 DEF Reorgs
  <2>2. Base' = Base /\ \A h \in 0..Base : blocks'[h] = blocks[h]
    BY <1>1, <1>3, <2>1 DEF Base
  <2>3. /\ Original' = Original
        /\ \A k \in 1..Base' + Len(reorg'.undone) : Fits(Original', k)
    BY <1>1, <2>1, <2>2, SameOriginal
  <2>4. ASSUME NEW h \in 0..latest'
        PROVE  blocks'[h] = Original'[h]
    <3>1. h \in 0..latest \/ h = latest + 1
      BY <1>1, <1>3
    <3> QED
      BY <1>1, <1>3, <2>3, <3>1, NextOriginalFits DEF RestoreInv
  <2> QED
    BY <1>1, <1>3, <2>1, <2>3, <2>4 DEF RestoreInv
<1> QED
  BY <1>4, <1>5 DEF ReorgRestore

-----------------------------------------------------------------------------
LEMMA InitRestore == Init => RestoreInv
BY IdleIsNoReorg DEF Init, StorageInit, NoHeight, RestoreInv, LocalFits

(* A step that leaves the database and the reorganisation alone.           *)
LEMMA UnchangedRestore ==
  ASSUME RestoreInv, blocks' = blocks, latest' = latest, reorg' = reorg
  PROVE  RestoreInv'
<1>1. Base' = Base
  BY DEF Base
<1>2. Original' = Original
  BY <1>1 DEF Original
<1> QED
  BY <1>1, <1>2 DEF RestoreInv, LocalFits

LEMMA NextRestore ==
  ASSUME IndexInv, CoinsInv, RestoreInv, [Next]_vars
  PROVE  RestoreInv'
<1>1. CASE PutGenesis
  <2>1. latest' = 0 /\ reorg' = reorg /\ reorg.stage = "idle"
    BY <1>1, TypesAssumption DEF PutGenesis, PutBlock, Height, IndexInv, ReorgOK
  <2> QED
    BY <2>1 DEF RestoreInv, LocalFits
<1>2. CASE ApplyPremine \/ Restart \/ UNCHANGED vars
  BY <1>2, UnchangedRestore DEF ApplyPremine, ApplyChanges, Restart, vars, storage
<1>3. ASSUME NEW b \in Blocks, CommitNewTip(b)
      PROVE  RestoreInv'
  <2>1. latest \in Nat /\ phase # "premine" /\ NewTipOk(b) /\ CommitTip(b)
        /\ reorg' = Idle
    BY <1>3 DEF CommitNewTip, LockFree, IndexInv, ReorgOK
  <2>2. LocalFits'
    BY <2>1, CommitKeepsFits DEF RestoreInv
  <2> QED
    BY <2>1, <2>2, IdleKeeps
<1>4. ASSUME NEW b \in Blocks, SiblingReorg(b)
      PROVE  RestoreInv'
  <2> DEFINE fork == IF latest = 0 THEN 0 ELSE latest - 1
  <2>1. latest \in Nat /\ fork \in Nat /\ UNCHANGED storage /\ TryReorg(fork, <<b>>)
    BY <1>4 DEF SiblingReorg, LockFree, IndexInv, ReorgOK
  <2> HIDE DEF fork
  <2> QED
    BY <2>1, TryReorgKeeps
<1>5. ASSUME NEW c \in CandidateChains, FindAncestor(c)
      PROVE  RestoreInv'
  BY <1>5, UnchangedRestore DEF FindAncestor, storage
<1>6. ASSUME NEW c \in CandidateChains, BackfillReorg(c)
      PROVE  RestoreInv'
  <2>1. /\ latest \in Nat /\ Height(Parent(c[1])) \in Nat /\ UNCHANGED storage
        /\ TryReorg(Height(Parent(c[1])), c) \/ reorg' = Idle
    BY <1>6, CandidatesAreSequences, BlockTypes DEF BackfillReorg, LockFree, IndexInv, ReorgOK
  <2> QED
    BY <2>1, TryReorgKeeps
<1>7. CASE ReorgStep
  <2>1. CASE ReorgReject
    BY <2>1, GiveUpKeeps DEF ReorgReject
  <2> QED
    BY <1>7, <2>1, ReorgUndoKeeps, ReorgCommitKeeps, ReorgRollbackKeeps, ReorgRestoreKeeps
    DEF ReorgStep
<1>8. CASE Crash
  <2>1. LocalFits' /\ reorg' = Idle
    BY <1>8 DEF Crash, storage, RestoreInv, LocalFits
  <2> QED
    BY <2>1, IdleKeeps
<1>9. CASE WriteFails
  <2>1. UNCHANGED storage /\ LocalFits'
    BY <1>9 DEF WriteFails, storage, RestoreInv, LocalFits
  <2>2. CASE reorg.stage = "commit"
    BY <1>9, <2>1, <2>2, GiveUpKeeps DEF WriteFails
  <2>3. CASE reorg.stage # "commit"
    BY <1>9, <2>1, <2>3, IdleKeeps DEF WriteFails
  <2> QED
    BY <2>2, <2>3
<1> QED
  BY <1>1, <1>2, <1>3, <1>4, <1>5, <1>6, <1>7, <1>8, <1>9 DEF Next

(* A local block that a failed reorganisation took off validates again     *)
(* when it is put back, after whatever candidates were tried and undone in *)
(* between: the expect in try_reorg_to_chain never panics.                 *)
THEOREM RestoreIsSafe == Spec /\ UndosAreClean => []RestoreNeverPanics
<1>1. Init => RestoreInv
  BY InitRestore
<1>2. IndexInv /\ CoinsInv /\ RestoreInv /\ [Next]_vars => RestoreInv'
  BY NextRestore
<1>3. IndexInv /\ CoinsInv /\ RestoreInv => RestoreNeverPanics
  BY NextOriginalFits DEF RestoreNeverPanics
<1> QED
  BY <1>1, <1>2, <1>3, CoinsInvariant, PTL DEF Spec

-----------------------------------------------------------------------------
(* The answers of the RPC.                                                 *)
(* The two reads that get_transaction unwraps find what they look for.     *)
LEMMA ConfirmedIsFound ==
  ASSUME StorageTypeOK, IndexesAgree, CoinsInv, latest \in Nat, phase = "running",
         NEW o \in utxos, o[1] \notin TxsOf(GenesisBlock)
  PROVE  /\ o[2] \in DOMAIN TxBody[o[1]].outputs
         /\ \E h \in 0..latest :
              /\ GetBlock(h) \in Blocks /\ GetBlock(h) = blocks[h]
              /\ GetBlockByHash(blocks[h]) = blocks[h] /\ Height(blocks[h]) = h
              /\ GetTransaction(o[1]) = [height |-> h, block |-> blocks[h]]
              /\ o[1] \in TxsOf(blocks[h])
<1>1. PICK t \in Below(latest + 1) : o \in Outputs(t)
  BY DEF CoinsInv, CoinsOf, OutputsOf
<1>2. o[1] = t /\ o[2] \in DOMAIN TxBody[t].outputs
  BY <1>1 DEF Outputs
<1>3. t \in DOMAIN txIndex
  BY <1>2 DEF CoinsInv
<1>4. PICK h \in 0..latest : h = txIndex[t] /\ t \in TxsOf(blocks[h])
  BY <1>3 DEF CoinsInv
<1>5. h \in DOMAIN blocks /\ blocks[h] \in DOMAIN hashIndex /\ hashIndex[blocks[h]] = h
  BY DEF IndexesAgree
<1>6. GetBlock(h) = blocks[h] /\ blocks[h] \in Blocks /\ GetBlockByHash(blocks[h]) = blocks[h]
  BY <1>5 DEF GetBlock, GetBlockByHash, StorageTypeOK
<1>7. GetTransaction(o[1]) = [height |-> h, block |-> blocks[h]]
  BY <1>2, <1>3, <1>4, <1>6 DEF GetTransaction
<1>8. Height(blocks[h]) = h
  BY DEF IndexesAgree
<1> QED
  BY <1>2, <1>4, <1>6, <1>7, <1>8

(* A record with a height is not the record that stands for no answer.     *)
LEMMA HeightIsAnAnswer ==
  /\ \A h, b, t : [height |-> h, block_hash |-> b, transaction |-> t] # None
  /\ \A h, b, p, g, ts : [height |-> h, hash |-> b, parent_hash |-> p, target |-> g,
                          transactions |-> ts] # None
<1>1. DOMAIN None = {"none"}
  BY DEF None
<1> QED
  BY <1>1

LEMMA CoinIsAnswered ==
  ASSUME StorageTypeOK, IndexesAgree, CoinsInv, latest \in Nat, phase = "running",
         NEW owner \in Addresses, NEW coin \in ListUnspent(owner),
         coin.txid \notin TxsOf(GenesisBlock)
  PROVE  LET answer == TransactionAnswer(coin.txid)
             block  == BlockAnswer(answer.height)
         IN  /\ answer # None
             /\ block # None /\ answer.height <= MiningInfo.height
             /\ block = HashAnswer(answer.block_hash)
             /\ \E i \in DOMAIN block.transactions :
                  /\ block.transactions[i] = answer.transaction
                  /\ answer.transaction.outputs[coin.vout] =
                       [amount |-> coin.amount, pubkey_hash |-> owner]
<1>1. PICK o \in utxos :
        /\ OutputOwner[o[1]][o[2]] = owner
        /\ coin = [txid |-> o[1], vout |-> o[2], amount |-> AmountOf(o)]
  BY DEF ListUnspent, ListUtxosFor
<1>2. coin.txid = o[1] /\ coin.vout = o[2] /\ coin.amount = AmountOf(o)
  BY <1>1
<1>3. o[2] \in DOMAIN TxBody[o[1]].outputs
  BY <1>2, ConfirmedIsFound
<1>4. PICK h \in 0..latest :
        /\ GetBlock(h) \in Blocks /\ GetBlock(h) = blocks[h]
        /\ GetBlockByHash(blocks[h]) = blocks[h] /\ Height(blocks[h]) = h
        /\ GetTransaction(o[1]) = [height |-> h, block |-> blocks[h]]
        /\ o[1] \in TxsOf(blocks[h])
  BY <1>2, ConfirmedIsFound
<1> DEFINE answer == TransactionAnswer(coin.txid)
           block  == BlockResult(blocks[h])
<1>5. [height |-> h, block |-> blocks[h]] # NotFound
  <2>1. NotFound.height = -1 /\ h # -1
    BY DEF NotFound, NoHeight
  <2> QED
    BY <2>1
<1>6. answer = [height |-> h, block_hash |-> blocks[h], transaction |-> TransactionResult(o[1])]
  BY <1>2, <1>4, <1>5 DEF TransactionAnswer
<1>7. answer.height = h /\ answer.block_hash = blocks[h]
      /\ answer.transaction = TransactionResult(o[1])
  BY <1>6
<1>8. blocks[h] # NoBlock
  BY <1>4, TypesAssumption DEF NoBlock
<1>9. block = [height       |-> Height(blocks[h]),
               hash         |-> blocks[h],
               parent_hash  |-> Parent(blocks[h]),
               target       |-> Header[blocks[h]].target,
               transactions |-> [i \in DOMAIN Body[blocks[h]] |-> TransactionResult(Body[blocks[h]][i])]]
  BY <1>8 DEF BlockResult
<1>10. BlockAnswer(answer.height) = block /\ HashAnswer(answer.block_hash) = block
  BY <1>4, <1>7 DEF BlockAnswer, HashAnswer
<1>11. answer # None /\ block # None
  BY <1>6, <1>9, HeightIsAnAnswer
<1>12. MiningInfo.height = latest /\ h <= latest
  BY DEF MiningInfo
<1>13. PICK i \in DOMAIN Body[blocks[h]] : Body[blocks[h]][i] = o[1]
  BY <1>4 DEF TxsOf
<1>14. i \in DOMAIN block.transactions /\ block.transactions[i] = TransactionResult(o[1])
  BY <1>9, <1>13
<1>15. TransactionResult(o[1]).outputs[o[2]] = [amount |-> AmountOf(o), pubkey_hash |-> owner]
  BY <1>1, <1>3 DEF TransactionResult, AmountOf
<1> HIDE DEF answer, block
<1>16. answer.height <= MiningInfo.height
  BY <1>7, <1>12
<1>17. \E j \in DOMAIN block.transactions :
         /\ block.transactions[j] = answer.transaction
         /\ answer.transaction.outputs[coin.vout] =
              [amount |-> coin.amount, pubkey_hash |-> owner]
  BY <1>2, <1>7, <1>14, <1>15
<1> QED
  BY <1>10, <1>11, <1>16, <1>17 DEF answer

(* What list_unspent, get_transaction, get_block, get_block_by_hash and    *)
(* get_latest_height answer about one coin agree, whatever reorganisations,*)
(* failed writes and crashes came before.                                  *)
THEOREM AnswersAlwaysAgree == Spec /\ UndosAreClean => []AnswersAgree
<1>1. IndexInv /\ CoinsInv => AnswersAgree
  <2> SUFFICES ASSUME IndexInv, CoinsInv, LockFree
               PROVE  AnswersAgree
    BY DEF AnswersAgree
  <2>1. StorageTypeOK /\ IndexesAgree /\ phase = "running" /\ latest \in Nat
    BY DEF IndexInv, TypeOK, ReorgOK, LockFree
  <2> QED
    BY <2>1, CoinIsAnswered DEF AnswersAgree
<1> QED
  BY <1>1, IndexInvariant, CoinsInvariant, PTL

-----------------------------------------------------------------------------
(* The ledger module brings its own copy of what it extends: the same      *)
(* definitions of the same constants.                                      *)
LEMMA SameTxs ==
  /\ \A b : Ledger!Height(b) = Height(b) /\ Ledger!Parent(b) = Parent(b)
            /\ Ledger!TxsOf(b) = TxsOf(b)
  /\ \A t : Ledger!Spends(t) = Spends(t) /\ Ledger!Outputs(t) = Outputs(t)
  /\ \A s : Ledger!SpendsOf(s) = SpendsOf(s) /\ Ledger!OutputsOf(s) = OutputsOf(s)
  BY DEF Ledger!Height, Height, Ledger!Parent, Parent, Ledger!TxsOf, TxsOf,
         Ledger!Spends, Spends, Ledger!Outputs, Outputs, Ledger!SpendsOf, SpendsOf,
         Ledger!OutputsOf, OutputsOf

LEMMA SameReplay == \A c : Ledger!Replay(c) = Replay(c)
  BY SameTxs DEF Ledger!Replay, Replay, Ledger!TxsIn, TxsIn

LEMMA SameSums == ASSUME NEW f PROVE Ledger!SumFunction(f) = SumFunction(f)
  BY DEF Ledger!SumFunction, SumFunction, Ledger!SumFunctionOnSet, SumFunctionOnSet,
         Ledger!FoldFunctionOnSet, FoldFunctionOnSet, Ledger!MapThenFoldSet, MapThenFoldSet

LEMMA SamePowers == \A b, n : Ledger!Power(b, n) = Power(b, n)
  BY DEF Ledger!Power, Power

LEMMA SameFees ==
  /\ \A t : Ledger!TotalIn(t) = TotalIn(t) /\ Ledger!TotalOut(t) = TotalOut(t)
            /\ Ledger!Fee(t) = Fee(t)
  /\ \A b : Ledger!FeesOf(b) = FeesOf(b)
<1>1. ASSUME NEW t
      PROVE  /\ Ledger!TotalIn(t) = TotalIn(t) /\ Ledger!TotalOut(t) = TotalOut(t)
             /\ Ledger!Fee(t) = Fee(t)
  <2>1. Ledger!TotalIn(t) = TotalIn(t)
    BY SameSums DEF Ledger!TotalIn, TotalIn, Ledger!AmountOf, AmountOf
  <2>2. Ledger!TotalOut(t) = TotalOut(t)
    BY SameSums DEF Ledger!TotalOut, TotalOut
  <2> QED
    BY <2>1, <2>2 DEF Ledger!Fee, Fee
<1>2. ASSUME NEW b
      PROVE  Ledger!FeesOf(b) = FeesOf(b)
  <2>1. [i \in 2..Len(Body[b]) |-> Ledger!Fee(Body[b][i])] = [i \in 2..Len(Body[b]) |-> Fee(Body[b][i])]
    BY <1>1
  <2> QED
    BY <2>1, SameSums DEF Ledger!FeesOf, FeesOf
<1> QED
  BY <1>1, <1>2

LEMMA SameConsensus ==
  /\ \A h : Ledger!SubsidyForHeight(h) = SubsidyForHeight(h)
  /\ \A p, t : Ledger!VerifyPow(p, t) = VerifyPow(p, t)
  /\ \A f, g, h : Ledger!ExpectedTarget(f, g, h) = ExpectedTarget(f, g, h)
  /\ \A f : Ledger!CumulativeWork(f) = CumulativeWork(f)
<1>1. \A h : Ledger!SubsidyForHeight(h) = SubsidyForHeight(h)
  BY SamePowers DEF Ledger!SubsidyForHeight, SubsidyForHeight
<1>2. \A p, t : Ledger!VerifyPow(p, t) = VerifyPow(p, t)
  BY DEF Ledger!VerifyPow, VerifyPow
<1>3. \A f, g, h : Ledger!ExpectedTarget(f, g, h) = ExpectedTarget(f, g, h)
  <2>1. /\ \A x, y : Ledger!AtMost(x, y) = AtMost(x, y) /\ Ledger!AtLeast(x, y) = AtLeast(x, y)
        /\ Ledger!ExpectedTimespan = ExpectedTimespan
        /\ \A h : Ledger!IsBoundary(h) <=> IsBoundary(h)
    BY DEF Ledger!AtLeast, AtLeast, Ledger!AtMost, AtMost, Ledger!ExpectedTimespan,
           ExpectedTimespan, Ledger!IsBoundary, IsBoundary
  <2>2. \A p, a, e : Ledger!Retarget(p, a, e) = Retarget(p, a, e)
    BY <2>1 DEF Ledger!Retarget, Retarget, Ledger!MaxAdjustmentFactor, MaxAdjustmentFactor
  <2> QED
    BY <2>1, <2>2 DEF Ledger!ExpectedTarget, ExpectedTarget
<1>4. \A f : Ledger!CumulativeWork(f) = CumulativeWork(f)
  BY SameSums DEF Ledger!CumulativeWork, CumulativeWork, Ledger!BlockWork, BlockWork
<1> QED
  BY <1>1, <1>2, <1>3, <1>4

LEMMA SameValidity ==
  ASSUME NEW base, NEW b, NEW target
  PROVE  Ledger!BlockValid(base, b, target) <=> BlockValid(base, b, target)
<1>1. \A t, view : Ledger!Applies(t, view) <=> Applies(t, view)
  BY SameTxs, SameFees, SamePowers DEF Ledger!Applies, Applies, Ledger!MaxAmount, MaxAmount
<1>2. \A i : Ledger!ViewBefore(base, b, i) = ViewBefore(base, b, i)
  BY SameTxs DEF Ledger!ViewBefore, ViewBefore, Ledger!ViewAfter, ViewAfter
<1>3. Ledger!CoinbaseAllowance(b) = CoinbaseAllowance(b)
  BY SameTxs, SameFees, SameConsensus DEF Ledger!CoinbaseAllowance, CoinbaseAllowance
<1>4. \A t, h, a : Ledger!CoinbaseApplies(t, h, a) <=> CoinbaseApplies(t, h, a)
  BY SameFees DEF Ledger!CoinbaseApplies, CoinbaseApplies
<1> QED
  BY <1>1, <1>2, <1>3, <1>4, SameTxs, SameConsensus, SamePowers
  DEF Ledger!BlockValid, BlockValid, Ledger!MaxAmount, MaxAmount

-----------------------------------------------------------------------------
(* The weight of a chain: of its blocks from one height to another.        *)

WorkOf(b) == BlockWork(Header[b].target)

LEMMA WorkOfBlocks ==
  ASSUME NEW b \in Blocks
  PROVE  WorkOf(b) \in Nat /\ WorkOf(b) > 0
<1>1. PICK t : t = Header[b].target
  OBVIOUS
<1>2. t \in Nat /\ t + 1 <= HashSpace /\ HashSpace \in Nat
  BY <1>1, TypesAssumption, WidthAssumption, ConsensusAssumption DEF BlockHeader
<1>3. PICK q, r : q = HashSpace \div (t + 1) /\ r = HashSpace % (t + 1)
  OBVIOUS
<1>4. q \in Int /\ r \in 0..t /\ HashSpace = (t + 1) * q + r
  BY <1>2, <1>3
<1>5. q > 0
  <2> SUFFICES ASSUME q <= 0 PROVE FALSE
    BY <1>4
  <2>1. (t + 1) * q <= 0
    BY <1>2, <1>4
  <2> QED
    BY <1>2, <1>4, <2>1
<1> QED
  BY <1>1, <1>3, <1>4, <1>5 DEF WorkOf, BlockWork

LEMMA WorkAsSum ==
  ASSUME NEW S, NEW f
  PROVE  CumulativeWork([h \in S |-> Header[f[h]].target]) = SumFunction([h \in S |-> WorkOf(f[h])])
<1>1. PICK g : g = [h \in S |-> Header[f[h]].target]
  OBVIOUS
<1>2. [i \in DOMAIN g |-> BlockWork(g[i])] = [h \in S |-> WorkOf(f[h])]
  BY <1>1 DEF WorkOf
<1> QED
  BY <1>1, <1>2 DEF CumulativeWork

(* The work of the blocks of a chain above a height.                       *)
WorkAbove(f, low, high) == CumulativeWork([h \in low + 1..high |-> Header[f[h]].target])

LEMMA WorkAboveSum ==
  ASSUME NEW low, NEW high, NEW f
  PROVE  WorkAbove(f, low, high) = SumFunction([h \in low + 1..high |-> WorkOf(f[h])])
<1>1. PICK S : S = low + 1..high
  OBVIOUS
<1>2. CumulativeWork([h \in S |-> Header[f[h]].target]) = SumFunction([h \in S |-> WorkOf(f[h])])
  BY WorkAsSum
<1> QED
  BY <1>1, <1>2 DEF WorkAbove

LEMMA WorkAboveType ==
  ASSUME NEW low \in Int, NEW high \in Int, NEW f, \A h \in low + 1..high : f[h] \in Blocks
  PROVE  /\ WorkAbove(f, low, high) \in Nat
         /\ low < high => WorkAbove(f, low, high) > 0
<1>1. PICK g : g = [h \in low + 1..high |-> WorkOf(f[h])]
  OBVIOUS
<1>2. g \in [low + 1..high -> Nat] /\ IsFiniteSet(low + 1..high)
  <2>1. IsFiniteSet(low + 1..high)
    BY FS_Interval
  <2> QED
    BY <1>1, <2>1, WorkOfBlocks
<1>3. WorkAbove(f, low, high) = SumFunction(g)
  BY <1>1, WorkAboveSum
<1>4. SumFunction(g) \in Nat
  BY <1>2, SumNatural
<1>5. ASSUME low < high
      PROVE  SumFunction(g) > 0
  <2>1. PICK D : D = low + 1..high
    OBVIOUS
  <2>2. high \in D /\ g \in [D -> Int] /\ IsFiniteSet(D) /\ g \in [D -> Nat]
    BY <1>2, <1>5, <2>1
  <2>3. SumFunction(g) = g[high] + SumFunction(Part(g, D \ {high}))
    BY <2>2, SumWithout
  <2>4. SumFunction(Part(g, D \ {high})) \in Nat
    <3>1. IsFiniteSet(D \ {high}) /\ Part(g, D \ {high}) \in [D \ {high} -> Nat]
      BY <2>2, FS_Subset DEF Part
    <3> QED
      BY <3>1, SumNatural
  <2>5. g[high] > 0 /\ g[high] \in Nat
    BY <1>1, <2>1, <2>2, WorkOfBlocks
  <2> QED
    BY <2>3, <2>4, <2>5
<1> QED
  BY <1>3, <1>4, <1>5

LEMMA WorkAboveSplits ==
  ASSUME NEW low \in Int, NEW high \in Int, NEW mid \in low..high, NEW f,
         \A h \in low + 1..high : f[h] \in Blocks
  PROVE  WorkAbove(f, low, high) = WorkAbove(f, low, mid) + WorkAbove(f, mid, high)
<1>1. PICK g, D, S : g = [h \in low + 1..high |-> WorkOf(f[h])] /\ D = low + 1..high /\ S = low + 1..mid
  OBVIOUS
<1>2. g \in [D -> Int] /\ IsFiniteSet(D) /\ S \in SUBSET D
  BY <1>1, WorkOfBlocks, FS_Interval
<1>3. SumFunction(g) = SumFunction(Part(g, S)) + SumFunction(Part(g, D \ S))
  BY <1>2, SumSplit
<1>4. D \ S = mid + 1..high
  BY <1>1
<1>5. Part(g, S) = [h \in low + 1..mid |-> WorkOf(f[h])]
  BY <1>1 DEF Part
<1>6. Part(g, D \ S) = [h \in mid + 1..high |-> WorkOf(f[h])]
  BY <1>1, <1>4 DEF Part
<1>7. /\ WorkAbove(f, low, high) = SumFunction(g)
      /\ WorkAbove(f, low, mid) = SumFunction(Part(g, S))
      /\ WorkAbove(f, mid, high) = SumFunction(Part(g, D \ S))
  BY <1>1, <1>5, <1>6, WorkAboveSum
<1> QED
  BY <1>3, <1>7

LEMMA WorkAboveAlike ==
  ASSUME NEW low \in Int, NEW high \in Int, NEW f, NEW g,
         \A h \in low + 1..high : f[h] = g[h]
  PROVE  WorkAbove(f, low, high) = WorkAbove(g, low, high)
<1>1. [h \in low + 1..high |-> Header[f[h]].target] = [h \in low + 1..high |-> Header[g[h]].target]
  OBVIOUS
<1> QED
  BY <1>1 DEF WorkAbove

(* The same blocks at other indexes.                                       *)
LEMMA WorkShifted ==
  ASSUME NEW f, NEW g, NEW n \in Nat, NEW low \in Int,
         \A i \in 1..n : f[low + i] = g[i] /\ g[i] \in Blocks
  PROVE  WorkAbove(f, low, low + n) = WorkAbove(g, 0, n)
<1>1. PICK D, E, d, e, b : /\ D = 1..n /\ E = low + 1..low + n
                           /\ e = [h \in E |-> WorkOf(f[h])] /\ d = [i \in D |-> WorkOf(g[i])]
                           /\ b = [i \in D |-> low + i]
  OBVIOUS
<1>2. IsFiniteSet(D) /\ IsFiniteSet(E)
  BY <1>1, FS_Interval
<1>3. b \in [D -> E] /\ \A x, y \in D : b[x] = b[y] => x = y
  BY <1>1
<1>4. \A h \in E : h - low \in D /\ b[h - low] = h
  BY <1>1
<1>5. \A h \in E : \E x \in D : b[x] = h
  BY <1>4
<1>6. e \in [E -> Int]
  <2>1. ASSUME NEW h \in E
        PROVE  f[h] \in Blocks
    <3>1. h - low \in 1..n /\ low + (h - low) = h
      BY <1>1, <1>4
    <3> QED
      BY <3>1
  <2> QED
    BY <1>1, <2>1, WorkOfBlocks
<1>7. SumFunction(e) = SumFunction([x \in D |-> e[b[x]]])
  BY <1>2, <1>3, <1>5, <1>6, SumRenamed
<1>8. [x \in D |-> e[b[x]]] = d
  BY <1>1, <1>3
<1>9. WorkAbove(f, low, low + n) = SumFunction(e)
  BY <1>1, WorkAboveSum
<1>10. WorkAbove(g, 0, n) = SumFunction(d)
  <2>1. 0 + 1 = 1
    OBVIOUS
  <2> QED
    BY <1>1, <2>1, WorkAboveSum
<1> QED
  BY <1>7, <1>8, <1>9, <1>10

-----------------------------------------------------------------------------
(* A backfill collects at most MAX_BACKFILL_DEPTH blocks.                  *)
LEMMA CandidatesAreShort ==
  ASSUME NEW c \in CandidateChains
  PROVE  /\ Len(c) <= MaxBackfillDepth
         /\ c \in UNION {[1..n -> Blocks] : n \in 1..MaxBackfillDepth}
<1>1. PICK n \in 1..MaxBackfillDepth : c \in [1..n -> Blocks]
  BY DEF CandidateChains
<1>2. n \in Nat \ {0}
  BY ChainAssumption
<1>3. Len(c) = n
  BY <1>1, <1>2
<1> QED
  BY <1>1, <1>3, ChainAssumption

(* The chain that others see: the local one, or the one that a running     *)
(* reorganisation started from.                                            *)

ChainOf(f, n) == [i \in 1..n + 1 |-> f[i - 1]]

Top == Base + Len(reorg.undone)

(* What makes the candidate the winner when it is complete.                *)
CandidateBetter ==
  LET local     == WorkAbove(Original, reorg.fork, Top)
      offered == WorkAbove(reorg.chain, 0, Len(reorg.chain))
  IN  \/ offered > local
      \/ offered = local /\ reorg.chain[Len(reorg.chain)] < Original[Top]

(* A candidate of more than one block comes from a backfill.               *)
CandidateShort == Len(reorg.chain) = 1 \/ Len(reorg.chain) <= MaxBackfillDepth

(* Above the fork the database has the first blocks of the candidate.      *)
CandidateBegun ==
  /\ latest - reorg.fork < Len(reorg.chain)
  /\ \A i \in 1..latest - reorg.fork : blocks[reorg.fork + i] = reorg.chain[i]

WinnerInv ==
  /\ reorg.stage = "idle" => reorg = Idle
  /\ reorg.stage \in {"undo", "commit", "rollback"} => CandidateBetter /\ CandidateShort
  /\ reorg.stage = "rollback" => CandidateBegun
  /\ reorg.stage = "undo" => reorg.done = 0
  /\ reorg.stage = "commit" =>
       /\ latest = reorg.fork + reorg.done
       /\ \A i \in 1..reorg.done : blocks[reorg.fork + i] = reorg.chain[i]

NodeInv == IndexInv /\ CoinsInv /\ RestoreInv /\ WinnerInv

LEMMA ChainOfType ==
  ASSUME NEW f, NEW n \in Nat \cup {-1}, \A h \in 0..n : f[h] \in Blocks
  PROVE  /\ ChainOf(f, n) \in Seq(Blocks) /\ Len(ChainOf(f, n)) = n + 1
         /\ \A i \in 1..n + 1 : ChainOf(f, n)[i] = f[i - 1]
<1>1. \A i \in 1..n + 1 : f[i - 1] \in Blocks
  <2> SUFFICES ASSUME NEW i \in 1..n + 1 PROVE f[i - 1] \in Blocks
    OBVIOUS
  <2>1. i - 1 \in 0..n
    OBVIOUS
  <2> QED
    BY <2>1
<1>2. PICK m : m = n + 1 /\ m \in Nat
  OBVIOUS
<1>3. ChainOf(f, n) \in [1..m -> Blocks]
  BY <1>1, <1>2 DEF ChainOf
<1> QED
  BY <1>2, <1>3 DEF ChainOf

LEMMA ChainsAlike ==
  ASSUME NEW f, NEW g, NEW n \in Int, \A h \in 0..n : f[h] = g[h]
  PROVE  ChainOf(f, n) = ChainOf(g, n)
<1>1. \A i \in 1..n + 1 : i - 1 \in 0..n
  OBVIOUS
<1> QED
  BY <1>1 DEF ChainOf

LEMMA ReplayOfChain ==
  ASSUME NEW f, NEW n \in Int
  PROVE  Replay(ChainOf(f, n)) = CoinsOf(TxsBelow(f, n + 1))
<1>1. \A i \in 1..n + 1 : i - 1 \in 0..(n + 1) - 1
  OBVIOUS
<1>2. \A h \in 0..(n + 1) - 1 : h + 1 \in 1..n + 1 /\ (h + 1) - 1 = h
  OBVIOUS
<1>3. TxsIn(ChainOf(f, n)) = TxsBelow(f, n + 1)
  BY <1>1, <1>2 DEF TxsIn, TxsBelow, ChainOf
<1> QED
  BY <1>3 DEF Replay, CoinsOf

(* Blocks that fit one on the other make a valid chain.                    *)
LEMMA FitsAreValid ==
  ASSUME NEW f, NEW n \in Nat, \A h \in 0..n : f[h] \in Blocks,
         f[0] = GenesisBlock, \A k \in 1..n : Fits(f, k)
  PROVE  Ledger!ValidChain(ChainOf(f, n))
<1>1. PICK c : c = ChainOf(f, n)
  OBVIOUS
<1>2. c \in Seq(Blocks) /\ Len(c) = n + 1 /\ \A i \in 1..n + 1 : c[i] = f[i - 1]
  BY <1>1, ChainOfType
<1>3. c # <<>> /\ c[1] = GenesisBlock
  <2>1. 1 \in 1..n + 1 /\ 1 - 1 = 0
    OBVIOUS
  <2> QED
    BY <1>2, <2>1
<1>4. ASSUME NEW i \in 2..Len(c)
      PROVE  /\ Height(c[i]) = i - 1 /\ Parent(c[i]) = c[i - 1]
             /\ Ledger!BlockValid(Ledger!Replay(SubSeq(c, 1, i - 1)), c[i],
                                  Ledger!TargetAfter(SubSeq(c, 1, i - 1)))
  <2>1. PICK k : k = i - 1 /\ k \in 1..n
    BY <1>2
  <2>2. PICK below : below = SubSeq(c, 1, k)
    OBVIOUS
  <2>3. below = ChainOf(f, k - 1)
    <3>1. below \in Seq(Blocks) /\ Len(below) = k /\ \A j \in 1..k : below[j] = c[j]
      BY <1>2, <2>1, <2>2
    <3>2. \A h \in 0..k - 1 : f[h] \in Blocks
      BY <2>1
    <3>3. /\ ChainOf(f, k - 1) \in Seq(Blocks) /\ Len(ChainOf(f, k - 1)) = k
          /\ \A j \in 1..k : ChainOf(f, k - 1)[j] = f[j - 1]
      BY <2>1, <3>2, ChainOfType
    <3>4. ASSUME NEW j \in 1..k
          PROVE  below[j] = ChainOf(f, k - 1)[j]
      <4>1. j \in 1..n + 1
        BY <2>1
      <4>2. below[j] = c[j] /\ c[j] = f[j - 1]
        BY <1>2, <3>1, <4>1
      <4>3. ChainOf(f, k - 1)[j] = f[j - 1]
        BY <3>3
      <4> QED
        BY <4>2, <4>3
    <3> QED
      BY <3>1, <3>3, <3>4, SeqEqual
  <2>4. Replay(below) = CoinsOf(TxsBelow(f, k))
    BY <2>1, <2>3, ReplayOfChain
  <2>5. Ledger!TargetAfter(below) = TargetAt(f, k)
    <3>1. Len(below) = k /\ \A h \in 0..k - 1 : below[h + 1] = f[h]
      <4>1. \A h \in 0..k - 1 : f[h] \in Blocks /\ h + 1 \in 1..k /\ (h + 1) - 1 = h
        BY <2>1
      <4>2. /\ Len(ChainOf(f, k - 1)) = (k - 1) + 1
            /\ \A j \in 1..(k - 1) + 1 : ChainOf(f, k - 1)[j] = f[j - 1]
        BY <2>1, <4>1, ChainOfType
      <4> QED
        BY <2>1, <2>3, <4>1, <4>2
    <3>2. [h \in 0..Len(below) - 1 |-> Header[below[h + 1]].target]
            = [h \in 0..k - 1 |-> Header[f[h]].target]
      BY <3>1
    <3>3. [h \in 0..Len(below) - 1 |-> Header[below[h + 1]].timestamp]
            = [h \in 0..k - 1 |-> Header[f[h]].timestamp]
      BY <3>1
    <3> QED
      BY <3>1, <3>2, <3>3, SameConsensus DEF Ledger!TargetAfter, TargetAt
  <2>6. Fits(f, k) /\ c[i] = f[k] /\ c[i - 1] = f[k - 1]
    BY <1>2, <2>1
  <2> QED
    BY <2>1, <2>2, <2>4, <2>5, <2>6, SameReplay, SameValidity DEF Fits
<1> QED
  BY <1>1, <1>3, <1>4, SameTxs DEF Ledger!ValidChain

LEMMA WorkOfChain ==
  ASSUME NEW f, NEW n \in Nat, \A h \in 0..n : f[h] \in Blocks
  PROVE  Ledger!Work(ChainOf(f, n)) = WorkAbove(f, -1, n)
<1>1. PICK c : c = ChainOf(f, n)
  OBVIOUS
<1>2. c \in Seq(Blocks) /\ Len(c) = n + 1 /\ \A i \in 1..n + 1 : c[i] = f[i - 1]
  BY <1>1, ChainOfType
<1>3. DOMAIN c = 1..n + 1
  BY <1>2
<1>4. Ledger!Work(c) = WorkAbove(c, 0, n + 1)
  <2>1. 0 + 1 = 1
    OBVIOUS
  <2> QED
    BY <1>3, <2>1, SameConsensus DEF Ledger!Work, WorkAbove
<1>5. WorkAbove(f, -1, -1 + (n + 1)) = WorkAbove(c, 0, n + 1)
  <2>1. \A i \in 1..n + 1 : f[-1 + i] = c[i] /\ c[i] \in Blocks
    <3> SUFFICES ASSUME NEW i \in 1..n + 1 PROVE f[-1 + i] = c[i] /\ c[i] \in Blocks
      OBVIOUS
    <3>1. -1 + i = i - 1 /\ i - 1 \in 0..n
      OBVIOUS
    <3> QED
      BY <1>2, <3>1
  <2>2. n + 1 \in Nat /\ -1 \in Int
    OBVIOUS
  <2> QED
    BY <2>1, <2>2, WorkShifted
<1>6. -1 + (n + 1) = n
  OBVIOUS
<1> QED
  BY <1>1, <1>4, <1>5, <1>6

(* What others see, as a chain of the blocks of one function of heights.   *)
LEMMA VisibleSeen ==
  NodeInv =>
    /\ phase = "premine" => VisibleChain = <<>>
    /\ phase # "premine" /\ reorg.stage = "idle" => VisibleChain = ChainOf(blocks, latest)
    /\ reorg.stage # "idle" => VisibleChain = ChainOf(Original, Top)
    /\ VisibleCoins = Replay(VisibleChain)
<1> SUFFICES ASSUME NodeInv
             PROVE  /\ phase = "premine" => VisibleChain = <<>>
                    /\ phase # "premine" /\ reorg.stage = "idle" => VisibleChain = ChainOf(blocks, latest)
                    /\ reorg.stage # "idle" => VisibleChain = ChainOf(Original, Top)
                    /\ VisibleCoins = Replay(VisibleChain)
  OBVIOUS
<1>0. /\ IndexInv /\ CoinsInv /\ WinnerInv /\ reorg \in Reorgs /\ reorg.undone \in Seq(Blocks)
      /\ DOMAIN blocks = 0..latest /\ \A h \in 0..latest : blocks[h] \in Blocks
      /\ latest \in Nat \cup {-1} /\ (phase # "boot" => latest \in Nat)
      /\ reorg.fork \in Nat /\ Idle.stage = "idle"
      /\ (reorg.stage # "idle" => phase = "running" /\ reorg.fork <= latest)
  BY IdleIsNoReorg
  DEF NodeInv, IndexInv, TypeOK, StorageTypeOK, IndexesAgree, Reorgs, ReorgOK, NoHeight
<1>1. LocalChain = ChainOf(blocks, latest)
  BY DEF LocalChain, ChainOf
<1>2. /\ LocalChain \in Seq(Blocks) /\ Len(LocalChain) = latest + 1
      /\ \A i \in 1..latest + 1 : LocalChain[i] = blocks[i - 1]
  BY <1>0, <1>1, ChainOfType
<1>3. phase = "premine" => VisibleChain = <<>>
  BY DEF VisibleChain
<1>4. phase # "premine" /\ reorg.stage = "idle" => VisibleChain = ChainOf(blocks, latest)
  BY <1>0, <1>1 DEF VisibleChain, WinnerInv
<1>5. ASSUME reorg.stage # "idle"
      PROVE  VisibleChain = ChainOf(Original, Top)
  <2>1. PICK u, n : u = reorg.undone /\ n = Len(u) /\ u \in Seq(Blocks) /\ n \in Nat
    BY <1>0
  <2>2. latest \in Nat /\ phase = "running" /\ reorg.fork <= latest /\ reorg # Idle
    BY <1>0, <1>5
  <2>3. PICK m : m = Base /\ m \in 0..latest
    BY <1>0, <2>2 DEF Base
  <2>4. PICK p : /\ p \in Seq(Blocks) /\ Len(p) = m + 1 /\ VisibleChain = p \o u
                 /\ \A i \in 1..m + 1 : p[i] = blocks[i - 1]
    <3>1. CASE reorg.stage = "undo"
      BY <1>2, <2>1, <2>2, <2>3, <3>1 DEF VisibleChain, Base
    <3>2. CASE reorg.stage # "undo"
      <4>1. m = reorg.fork /\ VisibleChain = SubSeq(LocalChain, 1, m + 1) \o u
        BY <2>1, <2>2, <2>3, <3>2, <1>5 DEF VisibleChain, Base
      <4>2. \A i \in 1..m + 1 : LocalChain[i] \in Blocks /\ LocalChain[i] = blocks[i - 1]
        BY <1>0, <1>2, <2>3
      <4>3. PICK q : q = SubSeq(LocalChain, 1, m + 1)
        OBVIOUS
      <4>4. /\ q \in Seq(Blocks) /\ Len(q) = m + 1
            /\ \A i \in 1..m + 1 : q[i] = LocalChain[i]
        <5>1. m + 1 \in Int /\ 1 \in Int /\ 1 <= m + 1 /\ \A i \in 1..m + 1 : LocalChain[i] \in Blocks
          BY <2>3, <4>2
        <5>2. /\ q \in Seq(Blocks) /\ Len(q) = (m + 1) - 1 + 1
              /\ \A i \in 1..(m + 1) - 1 + 1 : q[i] = LocalChain[1 + i - 1]
          BY <4>3, <5>1, SubSeqProperties
        <5> QED
          BY <2>3, <5>2
      <4> QED
        BY <4>1, <4>2, <4>3, <4>4
    <3> QED
      BY <3>1, <3>2
  <2>5. /\ VisibleChain \in Seq(Blocks) /\ Len(VisibleChain) = m + 1 + n
        /\ \A i \in 1..m + 1 + n : VisibleChain[i] = IF i <= m + 1 THEN p[i] ELSE u[i - (m + 1)]
    <3>1. /\ p \o u \in Seq(Blocks) /\ Len(p \o u) = Len(p) + Len(u)
          /\ \A i \in 1..Len(p) + Len(u) : (p \o u)[i] = IF i <= Len(p) THEN p[i] ELSE u[i - Len(p)]
      BY <2>1, <2>4, ConcatProperties
    <3> QED
      BY <2>1, <2>3, <2>4, <3>1
  <2>6. \A h \in 0..m + n : Original[h] = IF h <= m THEN blocks[h] ELSE u[h - m]
    BY <2>1, <2>3 DEF Original
  <2>7. \A h \in 0..m + n : Original[h] \in Blocks
    BY <1>0, <2>1, <2>3, <2>6
  <2>8. /\ ChainOf(Original, m + n) \in Seq(Blocks) /\ Len(ChainOf(Original, m + n)) = m + n + 1
        /\ \A i \in 1..m + n + 1 : ChainOf(Original, m + n)[i] = Original[i - 1]
    BY <2>1, <2>3, <2>7, ChainOfType
  <2>9. ASSUME NEW i \in 1..m + n + 1
        PROVE  VisibleChain[i] = Original[i - 1]
    <3>1. i - 1 \in 0..m + n /\ (i - 1 <= m <=> i <= m + 1) /\ (i - 1) - m = i - (m + 1)
      BY <2>1, <2>3
    <3> QED
      BY <2>1, <2>3, <2>4, <2>5, <2>6, <3>1
  <2>10. VisibleChain = ChainOf(Original, m + n)
    <3>1. PICK v, d, k : v = VisibleChain /\ d = ChainOf(Original, m + n) /\ k = m + n + 1
      OBVIOUS
    <3>2. v \in Seq(Blocks) /\ Len(v) = k
      BY <2>1, <2>3, <2>5, <3>1
    <3>3. d \in Seq(Blocks) /\ Len(d) = k
      BY <2>8, <3>1
    <3>4. \A i \in 1..k : v[i] = d[i]
      BY <2>8, <2>9, <3>1
    <3> QED
      BY <3>1, <3>2, <3>3, <3>4, SeqEqual
  <2> QED
    BY <2>1, <2>3, <2>10 DEF Top
<1>6. VisibleCoins = Replay(VisibleChain)
  <2>1. Replay(<<>>) = {}
    BY DEF Replay, TxsIn, OutputsOf
  <2>2. CASE phase = "premine"
    BY <1>3, <2>1, <2>2 DEF VisibleCoins
  <2>3. CASE phase # "premine" /\ reorg.stage = "idle"
    <3>1. utxos = CoinsOf(Below(latest + 1))
      BY <1>0, <2>3 DEF CoinsInv
    <3>2. Below(latest + 1) = TxsBelow(blocks, latest + 1)
      BY DEF Below, TxsBelow
    <3>3. Replay(VisibleChain) = CoinsOf(TxsBelow(blocks, latest + 1))
      BY <1>0, <1>4, <2>3, ReplayOfChain
    <3> QED
      BY <1>0, <2>3, <3>1, <3>2, <3>3 DEF VisibleCoins, WinnerInv
  <2>4. CASE phase # "premine" /\ reorg.stage # "idle"
    BY <1>0, <2>4 DEF VisibleCoins
  <2> QED
    BY <2>2, <2>3, <2>4
<1> QED
  BY <1>3, <1>4, <1>5, <1>6

LEMMA IdleWins == reorg' = Idle => WinnerInv'
  BY IdleIsNoReorg DEF WinnerInv

(* A step that changes neither side of the contest leaves its result.      *)
LEMMA StillBetter ==
  ASSUME CandidateBetter, reorg'.chain = reorg.chain, reorg'.fork = reorg.fork,
         Top \in Nat, reorg.fork \in Nat, reorg.fork <= Top, Top' = Top,
         \A h \in 0..Top : Original'[h] = Original[h]
  PROVE  CandidateBetter'
<1>1. \A h \in reorg.fork + 1..Top : h \in 0..Top
  OBVIOUS
<1>2. WorkAbove(Original', reorg.fork, Top) = WorkAbove(Original, reorg.fork, Top)
  BY <1>1, WorkAboveAlike
<1>3. Original'[Top] = Original[Top]
  OBVIOUS
<1> QED
  BY <1>2, <1>3 DEF CandidateBetter

(* The reorganisation that starts sees the local chain as the original.    *)
LEMMA OriginalAtStart ==
  ASSUME UNCHANGED storage, latest \in Nat, reorg'.undone = <<>>,
         reorg'.stage = "undo" \/ reorg'.fork = latest
  PROVE  Top' = latest /\ \A h \in 0..latest : Original'[h] = blocks[h]
<1>1. latest' = latest /\ blocks' = blocks
  BY DEF storage
<1>2. Base' = latest /\ Len(reorg'.undone) = 0
  BY <1>1 DEF Base
<1> QED
  BY <1>1, <1>2 DEF Top, Original

LEMMA TryReorgWins ==
  ASSUME UNCHANGED storage, latest \in Nat, NEW fork \in Nat, fork <= latest,
         NEW c \in Seq(Blocks), Len(c) = 1 \/ Len(c) <= MaxBackfillDepth, TryReorg(fork, c)
  PROVE  WinnerInv'
<1>1. CASE reorg' = Idle
  BY <1>1, IdleWins
<1>2. CASE /\ CandidateWins(fork, c)
           /\ reorg' = [Idle EXCEPT !.stage = IF latest = fork THEN "commit" ELSE "undo",
                                    !.fork = fork, !.chain = c]
  <2>1. /\ reorg'.stage = (IF latest = fork THEN "commit" ELSE "undo")
        /\ reorg'.fork = fork /\ reorg'.chain = c /\ reorg'.undone = <<>> /\ reorg'.done = 0
    BY <1>2 DEF Idle
  <2>2. Top' = latest /\ \A h \in 0..latest : Original'[h] = blocks[h]
    BY <2>1, OriginalAtStart
  <2>3. WorkAbove(Original', fork, latest) = WorkAbove(blocks, fork, latest)
    <3>1. \A h \in fork + 1..latest : Original'[h] = blocks[h]
      BY <2>2
    <3> QED
      BY <3>1, WorkAboveAlike
  <2>4. /\ CumulativeWork([h \in fork + 1..latest |-> Header[blocks[h]].target])
             = WorkAbove(Original', fork, latest)
        /\ CumulativeWork([i \in DOMAIN c |-> Header[c[i]].target]) = WorkAbove(c, 0, Len(c))
    <3>1. DOMAIN c = 0 + 1..Len(c)
      OBVIOUS
    <3> QED
      BY <2>3, <3>1 DEF WorkAbove
  <2>5. Original'[latest] = blocks[latest]
    BY <2>2
  <2>6. CandidateBetter'
    BY <1>2, <2>1, <2>2, <2>4, <2>5 DEF CandidateBetter, CandidateWins
  <2>7. latest' = latest
    BY DEF storage
  <2>8. CandidateShort'
    BY <2>1 DEF CandidateShort
  <2> QED
    BY <2>1, <2>6, <2>7, <2>8 DEF WinnerInv
<1> QED
  BY <1>1, <1>2 DEF TryReorg

LEMMA UndoWins ==
  ASSUME IndexInv, CoinsInv, RestoreInv, WinnerInv, ReorgUndo
  PROVE  WinnerInv'
<1>1. /\ reorg \in Reorgs /\ reorg.fork \in Nat /\ reorg.fork < latest /\ Base = latest
      /\ latest \in Nat /\ Len(reorg.undone) \in Nat /\ reorg.stage = "undo"
  BY DEF IndexInv, TypeOK, Reorgs, ReorgOK, Base, ReorgUndo
<1>2. /\ reorg'.stage = (IF latest' = reorg.fork THEN "commit" ELSE "undo")
      /\ reorg'.fork = reorg.fork /\ reorg'.chain = reorg.chain /\ reorg'.done = reorg.done
  BY <1>1 DEF ReorgUndo, Reorgs
<1>3. /\ Top' = Top /\ Top \in Nat /\ \A h \in 0..Top : Original'[h] = Original[h]
  BY ReorgUndoOriginal DEF Top
<1>4. reorg.fork <= Top
  BY <1>1 DEF Top
<1>5. CandidateBetter /\ CandidateShort /\ reorg.done = 0
  BY <1>1 DEF WinnerInv
<1>6. CandidateBetter'
  BY <1>1, <1>2, <1>3, <1>4, <1>5, StillBetter
<1>7. CandidateShort'
  BY <1>2, <1>5 DEF CandidateShort
<1>8. reorg'.stage = "commit" => latest' = reorg'.fork + reorg'.done
  <2>1. latest' \in Int
    BY <1>1, ReorgUndoOriginal
  <2> QED
    BY <1>1, <1>2, <1>5, <2>1
<1> QED
  BY <1>1, <1>2, <1>5, <1>6, <1>7, <1>8 DEF WinnerInv

LEMMA CommitWins ==
  ASSUME IndexInv, CoinsInv, RestoreInv, WinnerInv, ReorgCommit
  PROVE  WinnerInv'
<1>1. /\ reorg \in Reorgs /\ reorg.fork \in Nat /\ Len(reorg.undone) \in Nat /\ reorg.done \in Nat
      /\ latest \in Nat /\ reorg.fork <= latest /\ Base = reorg.fork /\ phase = "running"
      /\ reorg.stage = "commit"
  BY DEF IndexInv, TypeOK, Reorgs, ReorgOK, Base, ReorgCommit
<1>2. NextCandidate \in Blocks
  BY DEF IndexInv, TypeOK, Reorgs, ReorgOK, NextCandidate, ReorgCommit
<1>3. /\ latest' = latest + 1 /\ blocks'[latest + 1] = NextCandidate
      /\ \A h \in 0..latest : blocks'[h] = blocks[h]
  BY <1>1, <1>2, CommitKeepsFits DEF ReorgCommit, RestoreInv
<1>4. CASE reorg' = Idle
  BY <1>4, IdleWins
<1>5. CASE reorg' = [reorg EXCEPT !.done = @ + 1]
  <2>1. /\ reorg'.stage = "commit" /\ reorg'.fork = reorg.fork /\ reorg'.undone = reorg.undone
        /\ reorg'.chain = reorg.chain /\ reorg'.done = reorg.done + 1
    BY <1>1, <1>5 DEF Reorgs
  <2>2. /\ CandidateBetter /\ CandidateShort /\ latest = reorg.fork + reorg.done
        /\ \A i \in 1..reorg.done : blocks[reorg.fork + i] = reorg.chain[i]
    BY <1>1 DEF WinnerInv
  <2>3. Base' = Base /\ \A h \in 0..Base : blocks'[h] = blocks[h]
    BY <1>1, <1>3, <2>1 DEF Base
  <2>4. Original' = Original
    BY <1>1, <2>1, <2>3, SameOriginal
  <2>5. Top' = Top /\ Top \in Nat /\ reorg.fork <= Top
    BY <1>1, <2>1, <2>3 DEF Top
  <2>6. CandidateBetter'
    BY <1>1, <2>1, <2>2, <2>4, <2>5, StillBetter
  <2>7. ASSUME NEW i \in 1..reorg.done + 1
        PROVE  blocks'[reorg.fork + i] = reorg.chain[i]
    <3>1. CASE i = reorg.done + 1
      <4>1. reorg.fork + i = latest + 1
        BY <1>1, <2>2, <3>1
      <4> QED
        BY <1>3, <3>1, <4>1 DEF NextCandidate
    <3>2. CASE i \in 1..reorg.done
      <4>1. reorg.fork + i \in 0..latest
        BY <1>1, <2>2, <3>2
      <4> QED
        BY <1>3, <2>2, <3>2, <4>1
    <3> QED
      BY <1>1, <3>1, <3>2
  <2>8. CandidateShort'
    BY <2>1, <2>2 DEF CandidateShort
  <2> QED
    BY <1>1, <1>3, <2>1, <2>2, <2>6, <2>7, <2>8 DEF WinnerInv
<1> QED
  BY <1>4, <1>5 DEF ReorgCommit

(* Once its blocks are gone it no longer matters that it was better.       *)
LEMMA FailedWins == reorg'.stage = "restore" => WinnerInv'
  BY DEF WinnerInv

LEMMA RestoreOrEndWins ==
  ASSUME reorg \in Reorgs, reorg' = RestoreOrEnd
  PROVE  WinnerInv'
<1>1. CASE reorg.undone = <<>>
  BY <1>1, IdleWins DEF RestoreOrEnd
<1>2. CASE reorg.undone # <<>>
  <2>1. reorg'.stage = "restore"
    BY <1>2 DEF RestoreOrEnd, Reorgs
  <2> QED
    BY <2>1, FailedWins
<1> QED
  BY <1>1, <1>2

(* While they are taken off, the candidate is still the one that won.      *)
LEMMA RollbackWins ==
  ASSUME IndexInv, RestoreInv, reorg.stage \in {"commit", "rollback"},
         CandidateBetter, CandidateShort, CandidateBegun, latest' \in reorg.fork..latest,
         \A h \in 0..latest' : blocks'[h] = blocks[h], reorg'.stage = "rollback",
         reorg'.fork = reorg.fork, reorg'.chain = reorg.chain, reorg'.undone = reorg.undone
  PROVE  WinnerInv'
<1>1. /\ reorg.fork \in Nat /\ Len(reorg.undone) \in Nat /\ latest \in Nat
      /\ Len(reorg.chain) \in Nat /\ Base = reorg.fork
  BY DEF IndexInv, TypeOK, ReorgOK, Reorgs, Base
<1>2. Base' = Base
  BY <1>1 DEF Base
<1>3. \A h \in 0..Base : blocks'[h] = blocks[h]
  BY <1>1
<1>4. Original' = Original
  BY <1>1, <1>2, <1>3, SameOriginal
<1>5. Top' = Top /\ Top \in Nat /\ reorg.fork <= Top
  BY <1>1, <1>2 DEF Top
<1>6. CandidateBetter'
  BY <1>1, <1>4, <1>5, StillBetter
<1>7. CandidateShort'
  BY DEF CandidateShort
<1>8. CandidateBegun'
  <2>1. latest' - reorg.fork < Len(reorg.chain)
    BY <1>1 DEF CandidateBegun
  <2>2. ASSUME NEW i \in 1..latest' - reorg.fork
        PROVE  blocks'[reorg.fork + i] = reorg.chain[i]
    <3>1. i \in 1..latest - reorg.fork /\ reorg.fork + i \in 0..latest'
      BY <1>1
    <3> QED
      BY <3>1 DEF CandidateBegun
  <2> QED
    BY <2>1, <2>2 DEF CandidateBegun
<1> QED
  BY <1>6, <1>7, <1>8 DEF WinnerInv

(* What is applied of a candidate whose commit fails is its first blocks.  *)
LEMMA CommitBegun ==
  ASSUME IndexInv, WinnerInv, reorg.stage = "commit"
  PROVE  CandidateBetter /\ CandidateShort /\ CandidateBegun
<1>1. /\ reorg.fork \in Nat /\ reorg.done \in Nat /\ reorg.done < Len(reorg.chain)
      /\ latest = reorg.fork + reorg.done
      /\ \A i \in 1..reorg.done : blocks[reorg.fork + i] = reorg.chain[i]
  BY DEF IndexInv, TypeOK, ReorgOK, Reorgs, WinnerInv
<1>2. latest - reorg.fork = reorg.done
  BY <1>1
<1>3. CandidateBegun
  BY <1>1, <1>2 DEF CandidateBegun
<1> QED
  BY <1>3 DEF WinnerInv

LEMMA GiveUpWins ==
  ASSUME IndexInv, RestoreInv, WinnerInv, reorg.stage = "commit", UNCHANGED storage, GiveUp
  PROVE  WinnerInv'
<1>0. /\ reorg \in Reorgs /\ latest' = latest /\ blocks' = blocks
      /\ latest \in Nat /\ reorg.fork \in Nat
  BY DEF IndexInv, TypeOK, ReorgOK, Reorgs, storage
<1>1. CASE latest > reorg.fork
  <2>1. /\ reorg'.stage = "rollback" /\ reorg'.fork = reorg.fork
        /\ reorg'.chain = reorg.chain /\ reorg'.undone = reorg.undone
    BY <1>0, <1>1 DEF GiveUp, Reorgs
  <2>2. latest' \in reorg.fork..latest
    BY <1>0, <1>1
  <2> QED
    BY <1>0, <2>1, <2>2, CommitBegun, RollbackWins
<1>2. CASE ~(latest > reorg.fork)
  BY <1>0, <1>2, RestoreOrEndWins DEF GiveUp
<1> QED
  BY <1>1, <1>2

LEMMA NextWinner == NodeInv /\ [Next]_vars => WinnerInv'
<1> SUFFICES ASSUME NodeInv, [Next]_vars
             PROVE  WinnerInv'
  OBVIOUS
<1>0. IndexInv /\ CoinsInv /\ RestoreInv /\ WinnerInv /\ ReorgOK /\ reorg \in Reorgs
  BY DEF NodeInv, IndexInv, TypeOK
<1>1. CASE PutGenesis \/ ApplyPremine \/ Restart \/ UNCHANGED vars
  <2>1. CASE reorg' = Idle
    BY <2>1, IdleWins
  <2>2. CASE UNCHANGED vars
    <3>1. reorg' = reorg /\ latest' = latest /\ blocks' = blocks
      BY <2>2 DEF vars, storage
    <3>2. Base' = Base
      BY <3>1 DEF Base
    <3>3. Original' = Original
      BY <3>1, <3>2 DEF Original
    <3>4. Top' = Top
      BY <3>1, <3>2 DEF Top
    <3>5. CandidateBetter => CandidateBetter'
      BY <3>1, <3>3, <3>4 DEF CandidateBetter
    <3>6. (CandidateShort => CandidateShort') /\ (CandidateBegun => CandidateBegun')
      BY <3>1 DEF CandidateShort, CandidateBegun
    <3> QED
      BY <1>0, <3>1, <3>5, <3>6 DEF WinnerInv
  <2>3. ASSUME PutGenesis \/ ApplyPremine \/ Restart
        PROVE  reorg' = Idle
    <3>1. reorg' = reorg /\ phase # "running"
      BY <2>3 DEF PutGenesis, ApplyPremine, Restart
    <3>2. reorg.stage = "idle"
      BY <1>0, <3>1 DEF ReorgOK
    <3> QED
      BY <1>0, <3>1, <3>2 DEF WinnerInv
  <2> QED
    BY <1>1, <2>1, <2>2, <2>3
<1>2. ASSUME NEW b \in Blocks, CommitNewTip(b)
      PROVE  WinnerInv'
  BY <1>2, IdleWins DEF CommitNewTip, LockFree
<1>3. ASSUME NEW b \in Blocks, SiblingReorg(b)
      PROVE  WinnerInv'
  <2> DEFINE fork == IF latest = 0 THEN 0 ELSE latest - 1
  <2>1. /\ latest \in Nat /\ fork \in Nat /\ fork <= latest /\ UNCHANGED storage
        /\ TryReorg(fork, <<b>>) /\ <<b>> \in Seq(Blocks) /\ Len(<<b>>) = 1
    BY <1>0, <1>3 DEF SiblingReorg, LockFree, ReorgOK
  <2> HIDE DEF fork
  <2> QED
    BY <2>1, TryReorgWins
<1>4. ASSUME NEW c \in CandidateChains, FindAncestor(c)
      PROVE  WinnerInv'
  BY <1>4, IdleWins DEF FindAncestor, LockFree
<1>5. ASSUME NEW c \in CandidateChains, BackfillReorg(c)
      PROVE  WinnerInv'
  <2>1. PICK fork : fork = Height(Parent(c[1]))
    OBVIOUS
  <2>2. latest \in Nat /\ fork \in Nat /\ UNCHANGED storage /\ c \in Seq(Blocks)
    BY <1>0, <1>5, <2>1, CandidatesAreSequences, BlockTypes DEF BackfillReorg, LockFree, ReorgOK
  <2>3. CASE fork <= latest
    <3>1. Len(c) <= MaxBackfillDepth
      BY CandidatesAreShort
    <3> QED
      BY <1>5, <2>1, <2>2, <2>3, <3>1, TryReorgWins DEF BackfillReorg
  <2>4. CASE ~(fork <= latest)
    BY <1>5, <2>1, <2>4, IdleWins DEF BackfillReorg
  <2> QED
    BY <2>3, <2>4
<1>6. CASE ReorgStep
  <2>1. CASE ReorgReject
    BY <1>0, <2>1, GiveUpWins DEF ReorgReject
  <2>2. CASE ReorgRollback
    <3>1. CASE latest' > reorg.fork
      <4>1. /\ reorg' = reorg /\ reorg.stage = "rollback" /\ latest \in Nat \ {0}
            /\ reorg.fork \in Nat
        BY <1>0, <2>2, <3>1 DEF ReorgRollback, ReorgOK, Reorgs
      <4>2. latest' = latest - 1 /\ \A h \in 0..latest' : blocks'[h] = blocks[h]
        BY <1>0, <2>2, <4>1, UndoKeepsFits DEF ReorgRollback, RestoreInv
      <4>3. latest' \in reorg.fork..latest
        BY <3>1, <4>1, <4>2
      <4> QED
        BY <1>0, <4>1, <4>2, <4>3, RollbackWins DEF WinnerInv
    <3>2. CASE ~(latest' > reorg.fork)
      BY <1>0, <2>2, <3>2, RestoreOrEndWins DEF ReorgRollback
    <3> QED
      BY <3>1, <3>2
  <2>3. CASE ReorgRestore
    <3>1. CASE reorg' = Idle
      BY <3>1, IdleWins
    <3>2. CASE reorg' = [reorg EXCEPT !.done = @ + 1]
      <4>1. reorg'.stage = "restore"
        BY <1>0, <2>3, <3>2 DEF ReorgRestore, Reorgs
      <4> QED
        BY <4>1, FailedWins
    <3> QED
      BY <2>3, <3>1, <3>2 DEF ReorgRestore
  <2> QED
    BY <1>0, <1>6, <2>1, <2>2, <2>3, UndoWins, CommitWins DEF ReorgStep
<1>7. CASE Crash
  BY <1>7, IdleWins DEF Crash
<1>8. CASE WriteFails
  <2>1. CASE reorg.stage = "commit"
    <3>1. UNCHANGED storage /\ GiveUp
      BY <1>8, <2>1 DEF WriteFails
    <3> QED
      BY <1>0, <2>1, <3>1, GiveUpWins
  <2>2. CASE reorg.stage # "commit"
    BY <1>8, <2>2, IdleWins DEF WriteFails
  <2> QED
    BY <2>1, <2>2
<1> QED
  BY <1>1, <1>2, <1>3, <1>4, <1>5, <1>6, <1>7, <1>8 DEF Next

(* The blocks of the chain that others see, by height.                     *)
Seen    == IF reorg.stage = "idle" THEN blocks ELSE Original
SeenTop == IF reorg.stage = "idle" THEN latest ELSE Top

LEMMA OriginalTypes ==
  ASSUME IndexInv, reorg.stage # "idle"
  PROVE  /\ Top \in Nat /\ reorg.fork \in Nat /\ reorg.fork <= Top
         /\ \A h \in 0..Top : Original[h] \in Blocks
         /\ \A h \in 0..reorg.fork : Original[h] = blocks[h]
<1>1. /\ reorg.fork \in Nat /\ reorg.undone \in Seq(Blocks) /\ latest \in Nat
      /\ reorg.fork <= latest /\ \A h \in 0..latest : blocks[h] \in Blocks
  BY DEF IndexInv, TypeOK, StorageTypeOK, IndexesAgree, Reorgs, ReorgOK
<1>2. PICK m, n : m = Base /\ n = Len(reorg.undone) /\ m \in 0..latest /\ n \in Nat
                  /\ reorg.fork <= m
  BY <1>1 DEF Base
<1>3. \A h \in 0..m + n : Original[h] = IF h <= m THEN blocks[h] ELSE reorg.undone[h - m]
  BY <1>2 DEF Original
<1>4. \A h \in 0..m + n : Original[h] \in Blocks
  BY <1>1, <1>2, <1>3
<1>5. \A h \in 0..reorg.fork : Original[h] = blocks[h]
  BY <1>1, <1>2, <1>3
<1> QED
  BY <1>1, <1>2, <1>4, <1>5 DEF Top

LEMMA SeenTypes ==
  NodeInv =>
    /\ SeenTop \in Nat \cup {-1} /\ (phase # "boot" => SeenTop \in Nat)
    /\ \A h \in 0..SeenTop : Seen[h] \in Blocks
    /\ SeenTop \in Nat => Seen[0] = GenesisBlock
    /\ \A k \in 1..SeenTop : Fits(Seen, k)
    /\ phase = "premine" => latest = 0 /\ reorg.stage = "idle"
    /\ phase # "premine" => VisibleChain = ChainOf(Seen, SeenTop)
<1> SUFFICES ASSUME NodeInv
             PROVE  /\ SeenTop \in Nat \cup {-1} /\ (phase # "boot" => SeenTop \in Nat)
                    /\ \A h \in 0..SeenTop : Seen[h] \in Blocks
                    /\ SeenTop \in Nat => Seen[0] = GenesisBlock
                    /\ \A k \in 1..SeenTop : Fits(Seen, k)
                    /\ phase = "premine" => latest = 0 /\ reorg.stage = "idle"
                    /\ phase # "premine" => VisibleChain = ChainOf(Seen, SeenTop)
  OBVIOUS
<1>1. /\ IndexInv /\ RestoreInv /\ (latest \in Nat => blocks[0] = GenesisBlock)
      /\ latest \in Nat \cup {-1} /\ (phase # "boot" => latest \in Nat)
      /\ \A h \in 0..latest : blocks[h] \in Blocks
  BY DEF NodeInv, CoinsInv, BlocksSound, IndexInv, TypeOK, StorageTypeOK, IndexesAgree, ReorgOK, NoHeight
<1>2. phase = "premine" => latest = 0 /\ reorg.stage = "idle"
  BY DEF NodeInv, CoinsInv, IndexInv, ReorgOK
<1>3. phase # "premine" => VisibleChain = ChainOf(Seen, SeenTop)
  BY VisibleSeen DEF Seen, SeenTop
<1>4. CASE reorg.stage = "idle"
  BY <1>1, <1>2, <1>3, <1>4 DEF Seen, SeenTop, RestoreInv, LocalFits
<1>5. CASE reorg.stage # "idle"
  <2>1. /\ Top \in Nat /\ reorg.fork \in Nat /\ reorg.fork <= Top
        /\ \A h \in 0..Top : Original[h] \in Blocks
        /\ \A h \in 0..reorg.fork : Original[h] = blocks[h]
    BY <1>1, <1>5, OriginalTypes
  <2>2. phase = "running"
    BY <1>1, <1>5 DEF IndexInv, ReorgOK
  <2>3. Original[0] = GenesisBlock
    BY <1>1, <2>1, <2>2
  <2>4. \A k \in 1..Top : Fits(Original, k)
    BY <1>1, <1>5 DEF RestoreInv, Top
  <2> QED
    BY <1>2, <1>3, <1>5, <2>1, <2>3, <2>4 DEF Seen, SeenTop
<1> QED
  BY <1>4, <1>5

LEMMA SeenValid ==
  NodeInv /\ phase # "premine" /\ SeenTop \in Nat => Ledger!ValidChain(VisibleChain)
<1> SUFFICES ASSUME NodeInv, phase # "premine", SeenTop \in Nat
             PROVE  Ledger!ValidChain(VisibleChain)
  OBVIOUS
<1>1. /\ \A h \in 0..SeenTop : Seen[h] \in Blocks
      /\ Seen[0] = GenesisBlock /\ \A k \in 1..SeenTop : Fits(Seen, k)
      /\ VisibleChain = ChainOf(Seen, SeenTop)
  BY SeenTypes
<1> QED
  BY <1>1, FitsAreValid

(* What the steps need to know of a state and of the next one.             *)
SeenFacts ==
  /\ phase = "premine" => VisibleChain = <<>>
  /\ phase # "premine" => VisibleChain = ChainOf(Seen, SeenTop)
  /\ phase # "premine" /\ SeenTop \in Nat => Ledger!ValidChain(VisibleChain)
  /\ VisibleCoins = Replay(VisibleChain)
  /\ SeenTop \in Nat \cup {-1} /\ (phase # "boot" => SeenTop \in Nat)
  /\ \A h \in 0..SeenTop : Seen[h] \in Blocks

LEMMA SeenNow == NodeInv => SeenFacts
  BY SeenTypes, SeenValid, VisibleSeen DEF SeenFacts

LEMMA SeenNext == NodeInv' => SeenFacts'
  BY SeenNow, PTL

-----------------------------------------------------------------------------
(* Each step of the node is a step of the ledger.                          *)

LedgerNext == Ledger!Found \/ Ledger!Adopt \/ Ledger!Interrupt

(* A step that shows the same blocks shows the same ledger.                *)
LEMMA SeenAlike ==
  ASSUME NodeInv, NodeInv', phase # "premine", phase' # "premine",
         SeenTop' = SeenTop, \A h \in 0..SeenTop : Seen'[h] = Seen[h]
  PROVE  VisibleChain' = VisibleChain /\ VisibleCoins' = VisibleCoins
<1>1. SeenTop \in Int
  BY SeenTypes
<1>2. VisibleChain' = VisibleChain
  BY <1>1, SeenNow, SeenNext, ChainsAlike DEF SeenFacts
<1>3. VisibleCoins' = VisibleCoins
  BY <1>2, SeenNow, SeenNext DEF SeenFacts
<1> QED
  BY <1>2, <1>3

LEMMA SeenSame ==
  ASSUME NodeInv, NodeInv', phase # "premine", phase' # "premine", faults' = faults,
         SeenTop' = SeenTop, \A h \in 0..SeenTop : Seen'[h] = Seen[h]
  PROVE  UNCHANGED Ledger!ledger
  BY SeenAlike DEF Ledger!ledger

LEMMA SeenFound ==
  ASSUME NodeInv, NodeInv', ApplyPremine
  PROVE  Ledger!Found
<1>1. phase = "premine" /\ phase' = "running" /\ blocks' = blocks /\ latest' = latest
      /\ reorg' = reorg /\ faults' = faults
  BY DEF ApplyPremine, ApplyChanges
<1>2. VisibleChain = <<>>
  BY <1>1, SeenNow DEF SeenFacts
<1>3. latest = 0 /\ reorg.stage = "idle" /\ blocks[0] = GenesisBlock
  BY <1>1, SeenTypes DEF SeenTop, Seen
<1>4. VisibleChain' = ChainOf(blocks, 0)
  BY <1>1, <1>3, SeenNext DEF SeenFacts, SeenTop, Seen
<1>5. ChainOf(blocks, 0) = <<GenesisBlock>>
  <2>1. ChainOf(blocks, 0) \in Seq(Blocks) /\ Len(ChainOf(blocks, 0)) = 1
        /\ ChainOf(blocks, 0)[1] = blocks[0]
    <3>1. \A h \in 0..0 : blocks[h] \in Blocks
      BY <1>3, TypesAssumption
    <3>2. /\ ChainOf(blocks, 0) \in Seq(Blocks) /\ Len(ChainOf(blocks, 0)) = 0 + 1
          /\ \A i \in 1..0 + 1 : ChainOf(blocks, 0)[i] = blocks[i - 1]
      BY <3>1, ChainOfType
    <3>3. 1 \in 1..0 + 1 /\ 1 - 1 = 0 /\ 0 + 1 = 1
      OBVIOUS
    <3> QED
      BY <3>2, <3>3
  <2>2. PICK c : c = ChainOf(blocks, 0)
    OBVIOUS
  <2>3. c \in Seq(Blocks) /\ Len(c) = 1 /\ c[1] = GenesisBlock
    BY <1>3, <2>1, <2>2
  <2>4. <<GenesisBlock>> \in Seq(Blocks) /\ Len(<<GenesisBlock>>) = 1
        /\ <<GenesisBlock>>[1] = GenesisBlock
    BY TypesAssumption
  <2>5. c = <<GenesisBlock>>
    <3>1. \A i \in 1..Len(c) : c[i] = <<GenesisBlock>>[i]
      BY <2>3, <2>4
    <3> QED
      BY <2>3, <2>4, <3>1, SeqEqual
  <2> QED
    BY <2>2, <2>5
<1>6. VisibleCoins' = Replay(VisibleChain')
  BY SeenNext DEF SeenFacts
<1> QED
  BY <1>1, <1>2, <1>4, <1>5, <1>6, SameReplay DEF Ledger!Found

(* The chains that two functions of heights describe, compared.            *)
LEMMA BetterChains ==
  ASSUME NEW f, NEW m \in Nat, \A h \in 0..m : f[h] \in Blocks,
         NEW g, NEW n \in Nat, \A h \in 0..n : g[h] \in Blocks,
         NEW k \in Nat, k <= m, k <= n, \A h \in 0..k : f[h] = g[h],
         \/ WorkAbove(f, k, m) > WorkAbove(g, k, n)
         \/ WorkAbove(f, k, m) = WorkAbove(g, k, n) /\ f[m] < g[n]
  PROVE  Ledger!Better(ChainOf(f, m), ChainOf(g, n))
<1>1. /\ Ledger!Work(ChainOf(f, m)) = WorkAbove(f, -1, m)
      /\ Ledger!Work(ChainOf(g, n)) = WorkAbove(g, -1, n)
  BY WorkOfChain
<1>2. -1 \in Int /\ k \in -1..m /\ k \in -1..n /\ -1 + 1 = 0
  OBVIOUS
<1>3. /\ WorkAbove(f, -1, m) = WorkAbove(f, -1, k) + WorkAbove(f, k, m)
      /\ WorkAbove(g, -1, n) = WorkAbove(g, -1, k) + WorkAbove(g, k, n)
  BY <1>2, WorkAboveSplits
<1>4. WorkAbove(f, -1, k) = WorkAbove(g, -1, k) /\ WorkAbove(g, -1, k) \in Nat
  <2>1. \A h \in -1 + 1..k : g[h] \in Blocks /\ f[h] = g[h]
    BY <1>2
  <2> QED
    BY <1>2, <2>1, WorkAboveAlike, WorkAboveType
<1>5. WorkAbove(f, k, m) \in Nat /\ WorkAbove(g, k, n) \in Nat
  <2>1. (\A h \in k + 1..m : f[h] \in Blocks) /\ (\A h \in k + 1..n : g[h] \in Blocks)
    OBVIOUS
  <2> QED
    BY <2>1, WorkAboveType
<1>6. PICK c, d : c = ChainOf(f, m) /\ d = ChainOf(g, n)
  OBVIOUS
<1>7. c[Len(c)] = f[m] /\ d[Len(d)] = g[n]
  <2>1. /\ Len(c) = m + 1 /\ \A i \in 1..m + 1 : c[i] = f[i - 1]
        /\ Len(d) = n + 1 /\ \A i \in 1..n + 1 : d[i] = g[i - 1]
    BY <1>6, ChainOfType
  <2>2. m + 1 \in 1..m + 1 /\ (m + 1) - 1 = m /\ n + 1 \in 1..n + 1 /\ (n + 1) - 1 = n
    OBVIOUS
  <2> QED
    BY <2>1, <2>2
<1> QED
  BY <1>1, <1>3, <1>4, <1>5, <1>6, <1>7 DEF Ledger!Better

LEMMA SeenAdopt ==
  ASSUME NodeInv, NodeInv', phase = "running", phase' = "running", faults' = faults,
         NEW k \in Nat, k <= SeenTop, k <= SeenTop',
         \A h \in 0..k : Seen'[h] = Seen[h],
         \/ WorkAbove(Seen', k, SeenTop') > WorkAbove(Seen, k, SeenTop)
         \/ /\ WorkAbove(Seen', k, SeenTop') = WorkAbove(Seen, k, SeenTop)
            /\ Seen'[SeenTop'] < Seen[SeenTop]
  PROVE  Ledger!Adopt
<1>1. SeenTop \in Nat /\ \A h \in 0..SeenTop : Seen[h] \in Blocks
  BY SeenTypes
<1>2. SeenTop' \in Nat /\ \A h \in 0..SeenTop' : Seen'[h] \in Blocks
  BY <1>1, SeenNext DEF SeenFacts
<1>3. VisibleChain = ChainOf(Seen, SeenTop) /\ VisibleChain' = ChainOf(Seen', SeenTop')
  BY SeenNow, SeenNext DEF SeenFacts
<1>4. Ledger!Better(VisibleChain', VisibleChain)
  BY <1>1, <1>2, <1>3, BetterChains
<1>5. Ledger!ValidChain(VisibleChain') /\ VisibleCoins' = Replay(VisibleChain')
  BY <1>2, SeenNext DEF SeenFacts
<1>6. VisibleChain # <<>>
  <2>1. Len(VisibleChain) = SeenTop + 1
    BY <1>1, <1>3, ChainOfType
  <2> QED
    BY <1>1, <2>1
<1> QED
  BY <1>4, <1>5, <1>6, SameReplay DEF Ledger!Adopt

(* The chain of a function of heights, cut and continued.                  *)
LEMMA CutChain ==
  ASSUME NEW f, NEW n \in Nat, \A h \in 0..n : f[h] \in Blocks,
         NEW g, NEW k \in 0..n, \A h \in 0..k : g[h] = f[h]
  PROVE  SubSeq(ChainOf(f, n), 1, k + 1) = ChainOf(g, k)
<1>1. PICK c : c = ChainOf(f, n)
  OBVIOUS
<1>2. c \in Seq(Blocks) /\ Len(c) = n + 1 /\ \A i \in 1..n + 1 : c[i] = f[i - 1]
  BY <1>1, ChainOfType
<1>3. PICK d : d = ChainOf(g, k)
  OBVIOUS
<1>4. d \in Seq(Blocks) /\ Len(d) = k + 1 /\ \A i \in 1..k + 1 : d[i] = g[i - 1]
  <2>1. k \in Nat /\ \A h \in 0..k : g[h] \in Blocks
    OBVIOUS
  <2> QED
    BY <1>3, <2>1, ChainOfType
<1>5. PICK e : e = SubSeq(c, 1, k + 1)
  OBVIOUS
<1>6. e \in Seq(Blocks) /\ Len(e) = k + 1 /\ \A i \in 1..k + 1 : e[i] = c[i]
  BY <1>2, <1>5
<1>7. ASSUME NEW i \in 1..k + 1
      PROVE  e[i] = d[i]
  <2>1. i \in 1..n + 1 /\ i - 1 \in 0..k
    OBVIOUS
  <2> QED
    BY <1>2, <1>4, <1>6, <2>1
<1>8. e = d
  BY <1>4, <1>6, <1>7, SeqEqual
<1> QED
  BY <1>1, <1>3, <1>5, <1>8

LEMMA LongerChain ==
  ASSUME NEW f, NEW k \in Nat, \A h \in 0..k : f[h] \in Blocks, NEW s \in Seq(Blocks),
         NEW g, \A h \in 0..k : g[h] = f[h], \A i \in 1..Len(s) : g[k + i] = s[i]
  PROVE  /\ ChainOf(f, k) \o s = ChainOf(g, k + Len(s))
         /\ \A h \in 0..k + Len(s) : g[h] \in Blocks
<1>1. PICK c, n : c = ChainOf(f, k) /\ n = Len(s) /\ n \in Nat
  OBVIOUS
<1>2. c \in Seq(Blocks) /\ Len(c) = k + 1 /\ \A i \in 1..k + 1 : c[i] = f[i - 1]
  BY <1>1, ChainOfType
<1>3. ASSUME NEW h \in 0..k + n
      PROVE  g[h] \in Blocks
  <2>1. CASE h <= k
    BY <2>1
  <2>2. CASE h > k
    <3>1. PICK i \in 1..n : h = k + i
      <4>1. h - k \in 1..n /\ h = k + (h - k)
        BY <1>1, <2>2
      <4> QED
        BY <4>1
    <3>2. s[i] \in Blocks
      BY <1>1
    <3> QED
      BY <1>1, <3>1, <3>2
  <2> QED
    BY <1>1, <2>1, <2>2
<1>4. PICK d : d = ChainOf(g, k + n)
  OBVIOUS
<1>5. /\ d \in Seq(Blocks) /\ Len(d) = k + n + 1
      /\ \A i \in 1..k + n + 1 : d[i] = g[i - 1]
  BY <1>1, <1>3, <1>4, ChainOfType
<1>6. PICK e : e = c \o s
  OBVIOUS
<1>7. /\ e \in Seq(Blocks) /\ Len(e) = k + 1 + n
      /\ \A i \in 1..k + 1 + n : e[i] = IF i <= k + 1 THEN c[i] ELSE s[i - (k + 1)]
  <2>1. /\ c \o s \in Seq(Blocks) /\ Len(c \o s) = Len(c) + Len(s)
        /\ \A i \in 1..Len(c) + Len(s) : (c \o s)[i] = IF i <= Len(c) THEN c[i] ELSE s[i - Len(c)]
    BY <1>2, ConcatProperties
  <2> QED
    BY <1>1, <1>2, <1>6, <2>1
<1>8. ASSUME NEW i \in 1..k + 1 + n
      PROVE  e[i] = d[i]
  <2>1. CASE i <= k + 1
    <3>1. i \in 1..k + 1 /\ i - 1 \in 0..k /\ i \in 1..k + n + 1
      BY <1>1, <2>1
    <3> QED
      BY <1>2, <1>5, <1>7, <2>1, <3>1
  <2>2. CASE i > k + 1
    <3>1. PICK j \in 1..n : i = k + 1 + j
      <4>1. i - (k + 1) \in 1..n /\ i = k + 1 + (i - (k + 1))
        BY <1>1, <2>2
      <4> QED
        BY <4>1
    <3>2. /\ i \in 1..k + n + 1 /\ i - 1 = k + j /\ i - (k + 1) = j /\ ~(i <= k + 1)
      BY <1>1, <3>1
    <3>3. e[i] = s[j]
      BY <1>7, <3>2
    <3>4. d[i] = g[k + j]
      BY <1>5, <3>2
    <3> QED
      BY <1>1, <3>3, <3>4
  <2> QED
    BY <1>1, <2>1, <2>2
<1>9. e = d
  <2>1. Len(e) = Len(d) /\ Len(e) = k + 1 + n
    BY <1>1, <1>5, <1>7
  <2> QED
    BY <1>5, <1>7, <1>8, <2>1, SeqEqual
<1> QED
  BY <1>1, <1>3, <1>4, <1>6, <1>9

(* A prefix of what others see is a part of it, the whole of it too.       *)
LEMMA PrefixIsPart ==
  ASSUME NodeInv, phase = "running", NEW g, NEW k \in 0..SeenTop,
         \A h \in 0..k : g[h] = Seen[h]
  PROVE  Ledger!PartOf(ChainOf(g, k))
<1>1. /\ SeenTop \in Nat /\ (\A h \in 0..SeenTop : Seen[h] \in Blocks)
      /\ VisibleChain = ChainOf(Seen, SeenTop)
  BY SeenTypes
<1>2. k + 1 \in DOMAIN VisibleChain
  <2>1. VisibleChain \in Seq(Blocks) /\ Len(VisibleChain) = SeenTop + 1
    BY <1>1, ChainOfType
  <2>2. DOMAIN VisibleChain = 1..SeenTop + 1
    BY <2>1
  <2> QED
    BY <1>1, <2>2
<1>3. ChainOf(g, k) = SubSeq(VisibleChain, 1, k + 1)
  BY <1>1, CutChain
<1> QED
  BY <1>2, <1>3 DEF Ledger!PartOf, Ledger!Kept

(* While the blocks of a candidate are put on or taken off, the local      *)
(* chain is the original one up to the fork and the candidate's first.     *)
LEMMA CandidateIsPart ==
  ASSUME NodeInv, reorg.stage \in {"commit", "rollback"}
  PROVE  Ledger!PartOf(LocalChain)
<1>1. /\ IndexInv /\ WinnerInv /\ reorg \in Reorgs /\ phase = "running" /\ latest \in Nat
      /\ \A h \in 0..latest : blocks[h] \in Blocks
  BY DEF NodeInv, IndexInv, TypeOK, StorageTypeOK, IndexesAgree, ReorgOK
<1>2. PICK f, c, m, n : /\ f = reorg.fork /\ c = reorg.chain /\ m = Len(c) /\ n = latest - f
                        /\ f \in Nat /\ f <= latest /\ c \in Seq(Blocks) /\ m \in Nat /\ n \in Nat
  BY <1>1 DEF IndexInv, ReorgOK, Reorgs
<1>3. CandidateBetter /\ CandidateShort /\ CandidateBegun
  BY <1>1, CommitBegun DEF WinnerInv
<1>4. /\ n < m /\ \A i \in 1..n : blocks[f + i] = c[i]
  BY <1>2, <1>3 DEF CandidateBegun
<1>5. /\ Top \in Nat /\ f <= Top /\ (\A h \in 0..Top : Original[h] \in Blocks)
      /\ \A h \in 0..f : Original[h] = blocks[h]
  BY <1>1, <1>2, OriginalTypes
<1>6. Seen = Original /\ SeenTop = Top /\ VisibleChain = ChainOf(Original, Top)
  BY <1>1, SeenTypes DEF Seen, SeenTop
<1>7. LocalChain = ChainOf(blocks, latest)
  BY DEF LocalChain, ChainOf
<1>8. CASE n = 0
  <2>1. latest = f
    BY <1>1, <1>2, <1>8
  <2> QED
    BY <1>1, <1>2, <1>5, <1>6, <1>7, <2>1, PrefixIsPart
<1>9. CASE n > 0
  <2>1. PICK kept : kept = SubSeq(VisibleChain, 1, f + 1)
    OBVIOUS
  <2>2. kept = ChainOf(Original, f) /\ \A h \in 0..f : Original[h] \in Blocks
    <3>1. f \in 0..Top /\ 0..f \subseteq 0..Top
      BY <1>2, <1>5
    <3>2. SubSeq(ChainOf(Original, Top), 1, f + 1) = ChainOf(Original, f)
      BY <1>5, <3>1, CutChain
    <3> QED
      BY <1>5, <1>6, <2>1, <3>1, <3>2
  <2>3. LocalChain = kept \o SubSeq(c, 1, n)
    <3>1. PICK s : s = SubSeq(c, 1, n)
      OBVIOUS
    <3>2. s \in Seq(Blocks) /\ Len(s) = n /\ \A i \in 1..n : s[i] = c[i]
      BY <1>2, <1>4, <3>1
    <3>3. \A h \in 0..f : blocks[h] = Original[h]
      BY <1>5
    <3>4. ChainOf(Original, f) \o s = ChainOf(blocks, f + Len(s))
      <4>1. f \in Nat /\ s \in Seq(Blocks) /\ \A h \in 0..f : Original[h] \in Blocks
        BY <1>2, <2>2, <3>2
      <4>2. \A i \in 1..Len(s) : blocks[f + i] = s[i]
        BY <1>4, <3>2
      <4> QED
        BY <3>3, <4>1, <4>2, LongerChain
    <3>5. f + Len(s) = latest
      BY <1>1, <1>2, <3>2
    <3> QED
      BY <1>7, <2>2, <3>1, <3>4, <3>5
  <2>4. Ledger!Better(kept \o c, VisibleChain)
    <3>1. PICK g : g = [h \in 0..f + m |-> IF h <= f THEN Original[h] ELSE c[h - f]]
      OBVIOUS
    <3>2. (\A h \in 0..f : g[h] = Original[h]) /\ \A i \in 1..m : g[f + i] = c[i]
      <4>1. f \in Nat /\ m \in Nat
        BY <1>2
      <4>2. ASSUME NEW h \in 0..f
            PROVE  g[h] = Original[h]
        <5>1. h \in 0..f + m /\ h <= f
          BY <4>1
        <5> QED
          BY <3>1, <5>1
      <4>3. ASSUME NEW i \in 1..m
            PROVE  g[f + i] = c[i]
        <5>1. PICK j : j = f + i
          OBVIOUS
        <5>2. j \in 0..f + m /\ ~(j <= f) /\ j - f = i
          BY <4>1, <5>1
        <5>3. g[j] = c[j - f]
          BY <3>1, <5>2
        <5> QED
          BY <5>1, <5>2, <5>3
      <4> QED
        BY <4>2, <4>3
    <3>3. /\ ChainOf(Original, f) \o c = ChainOf(g, f + m)
          /\ \A h \in 0..f + m : g[h] \in Blocks
      <4>1. f \in Nat /\ c \in Seq(Blocks) /\ \A h \in 0..f : Original[h] \in Blocks
        BY <1>2, <2>2
      <4>2. \A i \in 1..Len(c) : g[f + i] = c[i]
        BY <1>2, <3>2
      <4>3. \A h \in 0..f : g[h] = Original[h]
        BY <3>2
      <4>4. /\ ChainOf(Original, f) \o c = ChainOf(g, f + Len(c))
            /\ \A h \in 0..f + Len(c) : g[h] \in Blocks
        BY <4>1, <4>2, <4>3, LongerChain
      <4> QED
        BY <1>2, <4>4
    <3>4. WorkAbove(g, f, f + m) = WorkAbove(c, 0, m)
      <4>1. \A i \in 1..m : g[f + i] = c[i] /\ c[i] \in Blocks
        BY <1>2, <3>2
      <4>2. m \in Nat /\ f \in Int
        BY <1>2
      <4> QED
        BY <4>1, <4>2, WorkShifted
    <3>5. g[f + m] = c[m]
      BY <1>2, <1>4, <3>2
    <3>6. \/ WorkAbove(g, f, f + m) > WorkAbove(Original, f, Top)
          \/ WorkAbove(g, f, f + m) = WorkAbove(Original, f, Top) /\ g[f + m] < Original[Top]
      BY <1>2, <1>3, <3>4, <3>5 DEF CandidateBetter
    <3>7. f + m \in Nat /\ f <= f + m
      BY <1>2
    <3>8. Ledger!Better(ChainOf(g, f + m), ChainOf(Original, Top))
      BY <1>2, <1>5, <3>2, <3>3, <3>6, <3>7, BetterChains
    <3> QED
      BY <1>6, <2>2, <3>3, <3>8
  <2>5. /\ c \in UNION {[1..l -> Blocks] : l \in 1..MaxBackfillDepth}
        /\ n \in 1..Len(c) - 1
    <3>1. n \in 1..m - 1 /\ m \in 1..MaxBackfillDepth
      <4>1. m = 1 \/ m <= MaxBackfillDepth
        BY <1>2, <1>3 DEF CandidateShort
      <4>2. n \in 1..m - 1 /\ m \in Nat /\ m > 1
        BY <1>2, <1>4, <1>9
      <4>3. MaxBackfillDepth \in Nat
        BY ChainAssumption
      <4> QED
        BY <4>1, <4>2, <4>3
    <3>2. c \in [1..m -> Blocks]
      BY <1>2
    <3> QED
      BY <1>2, <3>1, <3>2
  <2>6. f + 1 \in DOMAIN VisibleChain
    <3>1. VisibleChain \in Seq(Blocks) /\ Len(VisibleChain) = Top + 1
      BY <1>5, <1>6, ChainOfType
    <3>2. DOMAIN VisibleChain = 1..Top + 1
      BY <3>1
    <3> QED
      BY <1>2, <1>5, <3>2
  <2> QED
    BY <2>1, <2>3, <2>4, <2>5, <2>6 DEF Ledger!PartOf, Ledger!Kept
<1> QED
  BY <1>2, <1>8, <1>9

(* Whatever a fault interrupts, the database has a part of what was seen.  *)
LEMMA LocalIsPart ==
  ASSUME NodeInv, phase = "running"
  PROVE  Ledger!PartOf(LocalChain)
<1>1. /\ IndexInv /\ RestoreInv /\ reorg \in Reorgs /\ latest \in Nat
      /\ LocalChain = ChainOf(blocks, latest)
  BY DEF NodeInv, IndexInv, TypeOK, ReorgOK, LocalChain, ChainOf
<1>2. CASE reorg.stage = "idle"
  BY <1>1, <1>2, PrefixIsPart DEF Seen, SeenTop
<1>3. CASE reorg.stage \in {"undo", "restore"}
  <2>1. reorg.fork \in Nat /\ Len(reorg.undone) \in Nat /\ reorg.done \in Nat
    BY <1>1 DEF Reorgs
  <2>2. latest \in 0..Top /\ \A h \in 0..latest : blocks[h] = Original[h]
    <3>1. CASE reorg.stage = "undo"
      <4>1. Base = latest /\ Top = latest + Len(reorg.undone)
        BY <3>1 DEF Base, Top
      <4> QED
        BY <1>1, <2>1, <4>1 DEF Original
    <3>2. CASE reorg.stage = "restore"
      <4>1. Base = reorg.fork /\ Top = reorg.fork + Len(reorg.undone)
        BY <3>2 DEF Base, Top
      <4>2. reorg.done < Len(reorg.undone) /\ latest = reorg.fork + reorg.done
        BY <1>1, <3>2 DEF IndexInv, ReorgOK, RestoreInv
      <4>3. \A h \in 0..latest : blocks[h] = Original[h]
        BY <1>1, <3>2 DEF RestoreInv
      <4> QED
        BY <1>1, <2>1, <4>1, <4>2, <4>3
    <3> QED
      BY <1>3, <3>1, <3>2
  <2>3. Seen = Original /\ SeenTop = Top
    BY <1>3 DEF Seen, SeenTop
  <2> QED
    BY <1>1, <2>2, <2>3, PrefixIsPart
<1>4. CASE reorg.stage \in {"commit", "rollback"}
  BY <1>4, CandidateIsPart
<1> QED
  BY <1>1, <1>2, <1>3, <1>4 DEF Reorgs

LEMMA WholeIsPart ==
  ASSUME NodeInv, phase = "running"
  PROVE  Ledger!PartOf(VisibleChain)
<1>1. SeenTop \in Nat /\ VisibleChain = ChainOf(Seen, SeenTop)
  BY SeenTypes
<1>2. SeenTop \in 0..SeenTop
  BY <1>1
<1> QED
  BY <1>1, <1>2, PrefixIsPart

LEMMA SeenInterrupt ==
  ASSUME NodeInv, NodeInv', phase = "running", phase' # "premine", faults' = faults + 1,
         SeenTop' \in Nat, Ledger!PartOf(VisibleChain')
  PROVE  Ledger!Interrupt
<1>1. SeenTop \in Nat /\ (\A h \in 0..SeenTop : Seen[h] \in Blocks)
      /\ VisibleChain = ChainOf(Seen, SeenTop)
  BY SeenTypes
<1>2. VisibleChain # <<>>
  <2>1. Len(VisibleChain) = SeenTop + 1
    BY <1>1, ChainOfType
  <2> QED
    BY <1>1, <2>1
<1>3. Ledger!ValidChain(VisibleChain') /\ VisibleCoins' = Replay(VisibleChain')
  BY SeenNext DEF SeenFacts
<1> QED
  BY <1>2, <1>3, SameReplay DEF Ledger!Interrupt

(* After a fault that ends the reorganisation others see the database.     *)
LEMMA SeenLocal ==
  ASSUME NodeInv', phase' # "premine", reorg' = Idle, UNCHANGED storage
  PROVE  VisibleChain' = LocalChain
<1>1. blocks' = blocks /\ latest' = latest
  BY DEF storage
<1>2. LocalChain' = LocalChain
  BY <1>1 DEF LocalChain
<1> QED
  BY <1>2 DEF VisibleChain

LEMMA SeenUndo ==
  ASSUME NodeInv, NodeInv', ReorgUndo
  PROVE  UNCHANGED Ledger!ledger
<1>1. IndexInv /\ RestoreInv /\ phase = "running" /\ reorg \in Reorgs /\ reorg.stage = "undo"
  BY DEF NodeInv, IndexInv, TypeOK, ReorgOK, ReorgUndo
<1>2. phase' = phase /\ faults' = faults /\ reorg'.stage # "idle"
  BY <1>1 DEF ReorgUndo, Reorgs
<1>3. Top' = Top /\ \A h \in 0..Top : Original'[h] = Original[h]
  BY <1>1, ReorgUndoOriginal DEF Top
<1> QED
  BY <1>1, <1>2, <1>3, SeenSame DEF Seen, SeenTop

(* A reorganisation that starts, or the attempt that does not.             *)
LEMMA SeenTryReorg ==
  ASSUME NodeInv, NodeInv', LockFree, UNCHANGED <<storage, phase, faults>>,
         NEW fork, NEW c, TryReorg(fork, c) \/ reorg' = Idle
  PROVE  UNCHANGED Ledger!ledger
<1>1. latest \in Nat /\ reorg.stage = "idle" /\ phase = "running"
  BY IdleIsNoReorg DEF NodeInv, IndexInv, ReorgOK, LockFree
<1>2. latest' = latest /\ blocks' = blocks /\ phase' = phase /\ faults' = faults
  BY DEF storage
<1>3. CASE reorg' = Idle
  BY <1>1, <1>2, <1>3, IdleIsNoReorg, SeenSame DEF Seen, SeenTop
<1>4. CASE reorg' = [Idle EXCEPT !.stage = IF latest = fork THEN "commit" ELSE "undo",
                                 !.fork = fork, !.chain = c]
  <2>1. /\ reorg'.stage = (IF latest = fork THEN "commit" ELSE "undo")
        /\ reorg'.fork = fork /\ reorg'.undone = <<>>
    BY <1>4 DEF Idle
  <2>2. Top' = latest /\ \A h \in 0..latest : Original'[h] = blocks[h]
    BY <1>1, <2>1, OriginalAtStart
  <2> QED
    BY <1>1, <1>2, <2>1, <2>2, SeenSame DEF Seen, SeenTop
<1> QED
  BY <1>3, <1>4 DEF TryReorg

(* The candidate failed, the database has its blocks above the fork no     *)
(* more or not yet: the chain that others see is still the original.       *)
LEMMA SeenRestoreOrEnd ==
  ASSUME NodeInv, NodeInv', phase' = phase,
         reorg.stage \in {"commit", "rollback"}, reorg' = RestoreOrEnd, latest' = reorg.fork,
         \A h \in 0..reorg.fork : blocks'[h] = blocks[h]
  PROVE  VisibleChain' = VisibleChain /\ VisibleCoins' = VisibleCoins
<1>1. /\ IndexInv /\ RestoreInv /\ phase = "running" /\ reorg \in Reorgs /\ Base = reorg.fork
      /\ reorg.fork \in Nat /\ Len(reorg.undone) \in Nat
  BY DEF NodeInv, IndexInv, TypeOK, ReorgOK, Reorgs, Base
<1>2. CASE reorg.undone = <<>>
  <2>1. reorg' = Idle /\ Top = reorg.fork
    BY <1>1, <1>2 DEF RestoreOrEnd, Top
  <2>2. \A h \in 0..reorg.fork : Original[h] = blocks[h]
    BY <1>1, OriginalTypes
  <2> QED
    BY <1>1, <2>1, <2>2, IdleIsNoReorg, SeenAlike DEF Seen, SeenTop
<1>3. CASE reorg.undone # <<>>
  <2>1. /\ reorg'.stage = "restore" /\ reorg'.fork = reorg.fork /\ reorg'.undone = reorg.undone
    BY <1>1, <1>3 DEF RestoreOrEnd, Reorgs
  <2>2. Base' = Base
    BY <1>1, <2>1 DEF Base
  <2>3. Original' = Original
    BY <1>1, <2>1, <2>2, SameOriginal
  <2>4. Top' = Top
    BY <2>1, <2>2 DEF Top
  <2> QED
    BY <1>1, <2>1, <2>3, <2>4, SeenAlike DEF Seen, SeenTop
<1> QED
  BY <1>2, <1>3

(* A step on the way back that leaves Base and the blocks under it alone.  *)
LEMMA SeenOnTheWay ==
  ASSUME NodeInv, NodeInv', phase' = phase,
         reorg.stage \in {"commit", "rollback", "restore"},
         reorg'.stage \in {"commit", "rollback", "restore"},
         reorg'.fork = reorg.fork, reorg'.undone = reorg.undone,
         \A h \in 0..reorg.fork : blocks'[h] = blocks[h]
  PROVE  VisibleChain' = VisibleChain /\ VisibleCoins' = VisibleCoins
<1>1. /\ IndexInv /\ RestoreInv /\ phase = "running" /\ reorg \in Reorgs /\ Base = reorg.fork
      /\ reorg.fork \in Nat /\ Len(reorg.undone) \in Nat
  BY DEF NodeInv, IndexInv, TypeOK, ReorgOK, Reorgs, Base
<1>2. Base' = Base
  BY <1>1 DEF Base
<1>3. Original' = Original
  BY <1>1, <1>2, SameOriginal
<1>4. Top' = Top
  BY <1>2 DEF Top
<1> QED
  BY <1>1, <1>3, <1>4, SeenAlike DEF Seen, SeenTop

LEMMA SeenGiveUp ==
  ASSUME NodeInv, NodeInv', reorg.stage = "commit", UNCHANGED <<storage, phase>>, GiveUp
  PROVE  VisibleChain' = VisibleChain /\ VisibleCoins' = VisibleCoins
<1>1. latest' = latest /\ blocks' = blocks /\ phase' = phase
  BY DEF storage
<1>2. reorg \in Reorgs /\ latest \in Nat /\ reorg.fork \in Nat /\ reorg.fork <= latest
  BY DEF NodeInv, IndexInv, TypeOK, Reorgs, ReorgOK
<1>3. CASE latest > reorg.fork
  <2>1. reorg'.stage = "rollback" /\ reorg'.fork = reorg.fork /\ reorg'.undone = reorg.undone
    BY <1>2, <1>3 DEF GiveUp, Reorgs
  <2> QED
    BY <1>1, <2>1, SeenOnTheWay
<1>4. CASE ~(latest > reorg.fork)
  <2>1. reorg' = RestoreOrEnd /\ latest' = reorg.fork
    BY <1>1, <1>2, <1>4 DEF GiveUp
  <2> QED
    BY <1>1, <2>1, SeenRestoreOrEnd
<1> QED
  BY <1>3, <1>4

LEMMA SeenRollback ==
  ASSUME NodeInv, NodeInv', ReorgRollback
  PROVE  UNCHANGED Ledger!ledger
<1>1. /\ IndexInv /\ RestoreInv /\ reorg \in Reorgs /\ reorg.fork \in Nat
      /\ latest \in Nat \ {0} /\ reorg.fork < latest
      /\ reorg.stage = "rollback" /\ phase' = phase /\ faults' = faults
  BY DEF NodeInv, IndexInv, TypeOK, Reorgs, ReorgOK, ReorgRollback
<1>2. latest' = latest - 1 /\ \A h \in 0..latest' : blocks'[h] = blocks[h]
  BY <1>1, UndoKeepsFits DEF ReorgRollback, RestoreInv
<1>3. \A h \in 0..reorg.fork : blocks'[h] = blocks[h]
  BY <1>1, <1>2
<1>4. CASE latest' > reorg.fork
  <2>1. reorg' = reorg
    BY <1>4 DEF ReorgRollback
  <2> QED
    BY <1>1, <1>3, <2>1, SeenOnTheWay DEF Ledger!ledger
<1>5. CASE ~(latest' > reorg.fork)
  <2>1. reorg' = RestoreOrEnd /\ latest' = reorg.fork
    BY <1>1, <1>2, <1>5 DEF ReorgRollback
  <2> QED
    BY <1>1, <1>3, <2>1, SeenRestoreOrEnd DEF Ledger!ledger
<1> QED
  BY <1>4, <1>5

LEMMA SeenRestore ==
  ASSUME NodeInv, NodeInv', ReorgRestore
  PROVE  UNCHANGED Ledger!ledger
<1>1. /\ IndexInv /\ CoinsInv /\ RestoreInv /\ reorg \in Reorgs /\ reorg.fork \in Nat
      /\ reorg.done \in Nat /\ Len(reorg.undone) \in Nat
      /\ latest \in Nat /\ latest = reorg.fork + reorg.done
      /\ Base = reorg.fork /\ phase = "running" /\ reorg.stage = "restore"
      /\ phase' = phase /\ faults' = faults
  BY DEF NodeInv, IndexInv, TypeOK, Reorgs, ReorgOK, Base, ReorgRestore, RestoreInv
<1>2. NextOriginal \in Blocks
  BY <1>1 DEF IndexInv, TypeOK, Reorgs, ReorgOK, NextOriginal, ReorgRestore
<1>3. /\ latest' = latest + 1 /\ blocks'[latest + 1] = NextOriginal
      /\ \A h \in 0..latest : blocks'[h] = blocks[h]
  BY <1>1, <1>2, CommitKeepsFits DEF ReorgRestore, RestoreInv
<1>4. CASE reorg' = Idle /\ reorg.done + 1 = Len(reorg.undone)
  <2>1. Top = latest + 1
    BY <1>1, <1>4 DEF Top
  <2>2. ASSUME NEW h \in 0..latest + 1
        PROVE  blocks'[h] = Original[h]
    <3>1. h \in 0..latest \/ h = latest + 1
      BY <1>1
    <3> QED
      BY <1>1, <1>3, <3>1, NextOriginalFits DEF RestoreInv
  <2> QED
    BY <1>1, <1>3, <1>4, <2>1, <2>2, IdleIsNoReorg, SeenSame DEF Seen, SeenTop
<1>5. CASE reorg' = [reorg EXCEPT !.done = @ + 1]
  <2>1. reorg'.stage = "restore" /\ reorg'.fork = reorg.fork /\ reorg'.undone = reorg.undone
    BY <1>1, <1>5 DEF Reorgs
  <2>2. \A h \in 0..reorg.fork : blocks'[h] = blocks[h]
    BY <1>1, <1>3
  <2> QED
    BY <1>1, <2>1, <2>2, SeenOnTheWay DEF Ledger!ledger
<1> QED
  BY <1>4, <1>5 DEF ReorgRestore

LEMMA SeenNewTip ==
  ASSUME NodeInv, NodeInv', NEW b \in Blocks, CommitNewTip(b)
  PROVE  Ledger!Adopt
<1>1. /\ IndexInv /\ CoinsInv /\ LocalFits /\ latest \in Nat /\ phase = "running" /\ phase' = "running"
      /\ reorg.stage = "idle" /\ reorg' = reorg /\ faults' = faults
      /\ NewTipOk(b) /\ CommitTip(b)
  BY IdleIsNoReorg DEF NodeInv, IndexInv, ReorgOK, RestoreInv, CommitNewTip, LockFree
<1>2. /\ latest' = latest + 1 /\ blocks'[latest + 1] = b
      /\ \A h \in 0..latest : blocks'[h] = blocks[h]
  BY <1>1, CommitKeepsFits
<1>3. WorkAbove(blocks', latest, latest + 1) > WorkAbove(blocks, latest, latest)
  <2>1. \A h \in latest + 1..latest + 1 : blocks'[h] \in Blocks
    BY <1>1, <1>2
  <2>2. WorkAbove(blocks', latest, latest + 1) > 0
        /\ WorkAbove(blocks', latest, latest + 1) \in Nat
    BY <1>1, <2>1, WorkAboveType
  <2>3. WorkAbove(blocks, latest, latest) = 0
    <3>1. PICK e : e = [h \in latest + 1..latest |-> WorkOf(blocks[h])]
      OBVIOUS
    <3>2. DOMAIN e = {}
      BY <1>1, <3>1
    <3> QED
      BY <3>1, <3>2, WorkAboveSum, SumEmpty
  <2> QED
    BY <2>2, <2>3
<1>4. /\ SeenTop = latest /\ SeenTop' = latest + 1 /\ Seen = blocks /\ Seen' = blocks'
  BY <1>1, <1>2 DEF Seen, SeenTop
<1> QED
  BY <1>1, <1>2, <1>3, <1>4, SeenAdopt

LEMMA SeenCommit ==
  ASSUME NodeInv, NodeInv', ReorgCommit
  PROVE  UNCHANGED Ledger!ledger \/ Ledger!Adopt
<1>1. /\ IndexInv /\ CoinsInv /\ RestoreInv /\ reorg \in Reorgs /\ reorg.fork \in Nat
      /\ reorg.done \in Nat /\ reorg.chain \in Seq(Blocks) /\ reorg.done < Len(reorg.chain)
      /\ latest \in Nat /\ reorg.fork <= latest /\ phase = "running" /\ phase' = phase
      /\ reorg.stage = "commit" /\ faults' = faults
  BY DEF NodeInv, IndexInv, TypeOK, Reorgs, ReorgOK, ReorgCommit
<1>2. NextCandidate \in Blocks
  BY <1>1 DEF NextCandidate
<1>3. /\ latest' = latest + 1 /\ blocks'[latest + 1] = NextCandidate
      /\ \A h \in 0..latest : blocks'[h] = blocks[h]
  BY <1>1, <1>2, CommitKeepsFits DEF ReorgCommit, RestoreInv
<1>4. CASE reorg' = [reorg EXCEPT !.done = @ + 1]
  <2>1. reorg'.stage = "commit" /\ reorg'.fork = reorg.fork /\ reorg'.undone = reorg.undone
    BY <1>1, <1>4 DEF Reorgs
  <2>2. \A h \in 0..reorg.fork : blocks'[h] = blocks[h]
    BY <1>1, <1>3
  <2> QED
    BY <1>1, <2>1, <2>2, SeenOnTheWay DEF Ledger!ledger
<1>5. CASE reorg' = Idle /\ reorg.done + 1 = Len(reorg.chain)
  <2>1. PICK f, c, n : f = reorg.fork /\ c = reorg.chain /\ n = Len(c)
    OBVIOUS
  <2>2. /\ CandidateBetter /\ latest = f + reorg.done
        /\ \A i \in 1..reorg.done : blocks[f + i] = c[i]
    BY <1>1, <2>1 DEF NodeInv, WinnerInv
  <2>3. latest + 1 = f + n /\ n \in Nat /\ n = reorg.done + 1 /\ f \in Nat
    BY <1>1, <1>5, <2>1, <2>2
  <2>4. ASSUME NEW i \in 1..n
        PROVE  blocks'[f + i] = c[i] /\ c[i] \in Blocks
    <3>1. c[i] \in Blocks
      <4>1. c \in Seq(Blocks) /\ i \in 1..Len(c)
        BY <1>1, <2>1
      <4> QED
        BY <4>1
    <3>2. CASE i = n
      <4>1. f + i = latest + 1 /\ NextCandidate = c[n]
        BY <1>1, <2>1, <2>3, <3>2 DEF NextCandidate
      <4> QED
        BY <1>3, <3>1, <3>2, <4>1
    <3>3. CASE i # n
      <4>1. i \in 1..reorg.done /\ f + i \in 0..latest
        BY <1>1, <2>2, <2>3, <3>3
      <4> QED
        BY <1>3, <2>2, <3>1, <4>1
    <3> QED
      BY <3>1, <3>2, <3>3
  <2>5. WorkAbove(blocks', f, f + n) = WorkAbove(c, 0, n)
    BY <2>3, <2>4, WorkShifted
  <2>6. /\ Top \in Nat /\ f <= Top /\ \A h \in 0..f : Original[h] = blocks[h]
    BY <1>1, <2>1, OriginalTypes
  <2>7. \A h \in 0..f : blocks'[h] = Original[h]
    BY <1>1, <1>3, <2>1, <2>6
  <2>8. blocks'[f + n] = c[n]
    BY <2>3, <2>4, <1>1
  <2>9. \/ WorkAbove(blocks', f, f + n) > WorkAbove(Original, f, Top)
        \/ WorkAbove(blocks', f, f + n) = WorkAbove(Original, f, Top)
           /\ blocks'[f + n] < Original[Top]
    BY <2>1, <2>2, <2>5, <2>8 DEF CandidateBetter
  <2>10. SeenTop = Top /\ SeenTop' = f + n /\ Seen = Original /\ Seen' = blocks'
    BY <1>1, <1>3, <1>5, <2>3, IdleIsNoReorg DEF Seen, SeenTop
  <2>11. f <= f + n
    BY <2>3
  <2>12. Ledger!Adopt
    BY <1>1, <2>3, <2>6, <2>7, <2>9, <2>10, <2>11, SeenAdopt
  <2> QED
    BY <2>12
<1> QED
  BY <1>4, <1>5 DEF ReorgCommit

LEMMA LedgerStep ==
  NodeInv /\ NodeInv' /\ [Next]_vars => [LedgerNext]_(Ledger!ledger)
<1> SUFFICES ASSUME NodeInv, NodeInv', [Next]_vars
             PROVE  LedgerNext \/ UNCHANGED Ledger!ledger
  OBVIOUS
<1>0. IndexInv /\ IndexInv' /\ CoinsInv /\ CoinsInv'
  BY DEF NodeInv
<1>1. CASE PutGenesis
  <2>1. /\ latest = -1 /\ phase = "boot" /\ phase' = "premine" /\ faults' = faults
        /\ reorg.stage = "idle"
    BY <1>0, <1>1 DEF PutGenesis, IndexInv, ReorgOK, NoHeight
  <2>2. VisibleChain = ChainOf(blocks, -1) /\ VisibleChain' = <<>>
    BY <2>1, SeenNow, SeenNext DEF SeenFacts, Seen, SeenTop
  <2>3. VisibleChain = <<>>
    <3>1. ChainOf(blocks, -1) \in Seq(Blocks) /\ Len(ChainOf(blocks, -1)) = -1 + 1
      BY ChainOfType
    <3> QED
      BY <2>2, <3>1
  <2>4. VisibleCoins' = VisibleCoins
    BY <2>2, <2>3, SeenNow, SeenNext DEF SeenFacts
  <2> QED
    BY <2>1, <2>2, <2>3, <2>4 DEF Ledger!ledger
<1>2. CASE ApplyPremine
  BY <1>2, SeenFound DEF LedgerNext
<1>3. CASE Restart
  <2>1. /\ phase # "premine" /\ phase' # "premine" /\ faults' = faults /\ reorg' = reorg
        /\ latest' = latest /\ blocks' = blocks /\ reorg.stage = "idle"
    BY <1>0, <1>3 DEF Restart, storage, IndexInv, ReorgOK
  <2> QED
    BY <2>1, SeenSame DEF Seen, SeenTop
<1>4. ASSUME NEW b \in Blocks, CommitNewTip(b)
      PROVE  LedgerNext
  BY <1>4, SeenNewTip DEF LedgerNext
<1>5. ASSUME NEW b \in Blocks, SiblingReorg(b)
      PROVE  UNCHANGED Ledger!ledger
  BY <1>5, SeenTryReorg DEF SiblingReorg
<1>6. ASSUME NEW c \in CandidateChains, FindAncestor(c)
      PROVE  UNCHANGED Ledger!ledger
  <2>1. LockFree /\ UNCHANGED <<storage, phase, faults>> /\ reorg' = Idle
    BY <1>6 DEF FindAncestor, LockFree
  <2> QED
    BY <2>1, SeenTryReorg
<1>7. ASSUME NEW c \in CandidateChains, BackfillReorg(c)
      PROVE  UNCHANGED Ledger!ledger
  <2>1. /\ LockFree /\ UNCHANGED <<storage, phase, faults>>
        /\ TryReorg(Height(Parent(c[1])), c) \/ reorg' = Idle
    BY <1>7 DEF BackfillReorg
  <2> QED
    BY <2>1, SeenTryReorg
<1>8. CASE ReorgStep
  <2>1. CASE ReorgReject
    BY <2>1, SeenGiveUp DEF ReorgReject, Ledger!ledger
  <2> QED
    BY <1>8, <2>1, SeenUndo, SeenCommit, SeenRollback, SeenRestore DEF ReorgStep, LedgerNext
<1>9. CASE Crash
  <2>1. /\ phase = "running" /\ phase' # "premine" /\ faults' = faults + 1 /\ latest' = latest
        /\ reorg'.stage = "idle" /\ latest \in Nat
    BY <1>0, <1>9, IdleIsNoReorg DEF Crash, storage, IndexInv, ReorgOK
  <2>2. SeenTop' \in Nat
    BY <2>1 DEF SeenTop
  <2>3. VisibleChain' = LocalChain
    BY <1>9, <2>1, SeenLocal DEF Crash
  <2>4. Ledger!PartOf(VisibleChain')
    BY <2>1, <2>3, LocalIsPart
  <2> QED
    BY <2>1, <2>2, <2>4, SeenInterrupt DEF LedgerNext
<1>10. CASE WriteFails
  <2>1. /\ reorg.stage # "idle"
    BY <1>10 DEF WriteFails, NodeInv, WinnerInv
  <2>2. phase = "running" /\ phase' = "running" /\ faults' = faults + 1
    BY <1>0, <1>10, <2>1 DEF WriteFails, IndexInv, ReorgOK
  <2>3. SeenTop' \in Nat
    BY <2>2, SeenNext DEF SeenFacts
  <2>4. CASE reorg.stage = "commit"
    <3>1. VisibleChain' = VisibleChain
      BY <1>10, <2>4, SeenGiveUp DEF WriteFails
    <3>2. Ledger!PartOf(VisibleChain')
      BY <2>2, <3>1, WholeIsPart
    <3> QED
      BY <2>2, <2>3, <3>2, SeenInterrupt DEF LedgerNext
  <2>5. CASE reorg.stage # "commit"
    <3>1. VisibleChain' = LocalChain
      BY <1>10, <2>2, <2>5, SeenLocal DEF WriteFails
    <3>2. Ledger!PartOf(VisibleChain')
      BY <2>2, <3>1, LocalIsPart
    <3> QED
      BY <2>2, <2>3, <3>2, SeenInterrupt DEF LedgerNext
  <2> QED
    BY <2>4, <2>5
<1>11. CASE UNCHANGED vars
  <2>1. /\ phase' = phase /\ faults' = faults /\ reorg' = reorg
        /\ latest' = latest /\ blocks' = blocks /\ utxos' = utxos
    BY <1>11 DEF vars, storage
  <2>2. LocalChain' = LocalChain
    BY <2>1 DEF LocalChain
  <2>3. VisibleChain' = VisibleChain
    BY <2>1, <2>2 DEF VisibleChain
  <2>4. VisibleCoins' = VisibleCoins
    BY <2>1, <2>3 DEF VisibleCoins
  <2> QED
    BY <2>1, <2>3, <2>4 DEF Ledger!ledger
<1> QED
  BY <1>1, <1>2, <1>3, <1>4, <1>5, <1>6, <1>7, <1>8, <1>9, <1>10, <1>11 DEF Next

LEMMA NodeInvariant == Spec /\ UndosAreClean => []NodeInv
<1>1. Init => NodeInv
  <2>1. Init => WinnerInv
    BY IdleIsNoReorg DEF Init, WinnerInv
  <2> QED
    BY <2>1, InitIndexes, InitCoins, InitRestore DEF NodeInv
<1>2. NodeInv /\ [Next]_vars /\ [UndoIsClean]_vars => NodeInv'
  BY NextIndexes, NextCoins, NextRestore, NextWinner DEF NodeInv
<1> QED
  BY <1>1, <1>2, PTL DEF Spec, UndosAreClean

(* The handlers of one node implement the abstract ledger, fault by fault  *)
(* and step by step: commit_new_tip and the last write of a reorg that     *)
(* succeeds adopt a valid and better chain, a reorg that fails and         *)
(* restores what it took off changes nothing, and only a counted fault     *)
(* leaves a chain that is no better: a valid one all the same, made of the *)
(* first blocks of the old chain and, it may be, the first blocks of the   *)
(* candidate that was being put on them. The coins are at all times what   *)
(* replaying the chain leaves.                                             *)
THEOREM LedgerImplemented == Spec /\ UndosAreClean => ImplementsLedger
<1>1. Init => Ledger!Init
  <2> SUFFICES ASSUME Init PROVE Ledger!Init
    OBVIOUS
  <2>1. phase = "boot" /\ reorg = Idle /\ latest = -1 /\ utxos = {} /\ faults = 0
    BY DEF Init, StorageInit, NoHeight
  <2>2. VisibleChain = LocalChain /\ VisibleCoins = {}
    BY <2>1 DEF VisibleChain, VisibleCoins
  <2>3. LocalChain = <<>>
    <3>1. LocalChain = ChainOf(blocks, -1)
      BY <2>1 DEF LocalChain, ChainOf
    <3>2. ChainOf(blocks, -1) \in Seq(Blocks) /\ Len(ChainOf(blocks, -1)) = -1 + 1
      BY ChainOfType
    <3> QED
      BY <3>1, <3>2
  <2> QED
    BY <2>1, <2>2, <2>3 DEF Ledger!Init
<1>2. Spec /\ UndosAreClean => []NodeInv
  BY NodeInvariant
<1>3. NodeInv /\ NodeInv' /\ [Next]_vars
        => [Ledger!Found \/ Ledger!Adopt \/ Ledger!Interrupt]_(Ledger!ledger)
  BY LedgerStep DEF LedgerNext
<1> QED
  BY <1>1, <1>2, <1>3, PTL DEF Spec, ImplementsLedger, Ledger!Spec

(* The amount of a set of coins.                                           *)
ValueOf(S) == SumFunction([o \in S |-> AmountOf(o)])

(* Outputs that exist, and finitely many of them.                          *)
Coins(S) == IsFiniteSet(S) /\ S \subseteq OutputsOf(Txs)

LEMMA AmountType == \A o \in OutputsOf(Txs) : AmountOf(o) \in Nat
<1> SUFFICES ASSUME NEW t \in Txs, NEW o \in Outputs(t)
             PROVE  AmountOf(o) \in Nat
  BY DEF OutputsOf
<1>1. TxBody[t].outputs \in Seq(Nat)
  BY TypesAssumption DEF Transaction
<1>2. o[1] = t /\ o[2] \in DOMAIN TxBody[t].outputs
  BY DEF Outputs
<1> QED
  BY <1>1, <1>2 DEF AmountOf

LEMMA ValueType ==
  ASSUME NEW S, Coins(S)
  PROVE  ValueOf(S) \in Nat
<1>1. PICK f : f = [o \in S |-> AmountOf(o)]
  OBVIOUS
<1>2. f \in [S -> Nat] /\ IsFiniteSet(S)
  BY <1>1, AmountType DEF Coins
<1> QED
  BY <1>1, <1>2, SumNatural DEF ValueOf

LEMMA ValueSplits ==
  ASSUME NEW S, Coins(S), NEW T \in SUBSET S
  PROVE  /\ ValueOf(S) = ValueOf(T) + ValueOf(S \ T)
         /\ Coins(T) /\ Coins(S \ T)
<1>1. PICK f : f = [o \in S |-> AmountOf(o)]
  OBVIOUS
<1>2. f \in [S -> Int] /\ IsFiniteSet(S)
  BY <1>1, AmountType DEF Coins
<1>3. SumFunction(f) = SumFunction(Part(f, T)) + SumFunction(Part(f, S \ T))
  BY <1>2, SumSplit
<1>4. Part(f, T) = [o \in T |-> AmountOf(o)] /\ Part(f, S \ T) = [o \in S \ T |-> AmountOf(o)]
  BY <1>1 DEF Part
<1>5. Coins(T) /\ Coins(S \ T)
  <2>1. IsFiniteSet(T) /\ IsFiniteSet(S \ T)
    BY <1>2, FS_Subset
  <2> QED
    BY <2>1 DEF Coins
<1> QED
  BY <1>1, <1>3, <1>4, <1>5 DEF ValueOf

LEMMA ValueGrows ==
  ASSUME NEW S, Coins(S), NEW T \in SUBSET S
  PROVE  ValueOf(T) <= ValueOf(S)
<1>1. ValueOf(S) = ValueOf(T) + ValueOf(S \ T) /\ Coins(T) /\ Coins(S \ T)
  BY ValueSplits
<1>2. PICK U : U = S \ T
  OBVIOUS
<1>3. ValueOf(T) \in Nat /\ ValueOf(U) \in Nat
  BY <1>1, <1>2, ValueType
<1> QED
  BY <1>1, <1>2, <1>3

LEMMA ValueOfUnion ==
  ASSUME NEW S, Coins(S), NEW T, Coins(T)
  PROVE  Coins(S \cup T) /\ ValueOf(S \cup T) <= ValueOf(S) + ValueOf(T)
<1>1. Coins(S \cup T)
  BY FS_Union DEF Coins
<1>2. PICK U : U = S \cup T /\ Coins(U)
  BY <1>1
<1>3. U \ S \in SUBSET T /\ S \in SUBSET U
  BY <1>2
<1>4. ValueOf(U) = ValueOf(S) + ValueOf(U \ S)
  BY <1>2, <1>3, ValueSplits
<1>5. PICK V : V = U \ S /\ V \in SUBSET T
  BY <1>3
<1>6. ValueOf(V) <= ValueOf(T) /\ Coins(V)
  BY <1>5, ValueGrows, ValueSplits
<1>7. ValueOf(V) \in Nat /\ ValueOf(S) \in Nat /\ ValueOf(T) \in Nat
  BY <1>6, ValueType
<1> QED
  BY <1>1, <1>2, <1>4, <1>5, <1>6, <1>7

(* The coins that one transaction makes and takes.                         *)
LEMMA ValueMade ==
  ASSUME NEW t \in Txs
  PROVE  Coins(Outputs(t)) /\ ValueOf(Outputs(t)) = TotalOut(t) /\ TotalOut(t) \in Nat
<1>1. PICK f, D, E : f = TxBody[t].outputs /\ D = DOMAIN f /\ E = Outputs(t)
  OBVIOUS
<1>2. f \in Seq(Nat) /\ D = 1..Len(f) /\ Len(f) \in Nat
  BY <1>1, TypesAssumption DEF Transaction
<1>3. IsFiniteSet(D) /\ f \in [D -> Nat]
  <2>1. IsFiniteSet(1..Len(f))
    BY <1>2, FS_Interval
  <2> QED
    BY <1>1, <1>2, <2>1
<1>4. E = {t} \X D
  BY <1>1 DEF Outputs
<1>5. IsFiniteSet(E)
  <2>1. IsFiniteSet({t})
    BY FS_Singleton
  <2> QED
    BY <1>3, <1>4, <2>1, FS_Product
<1>6. Coins(E)
  BY <1>1, <1>5 DEF Coins, OutputsOf
<1>7. PICK b, e : b = [i \in D |-> <<t, i>>] /\ e = [o \in E |-> AmountOf(o)]
  OBVIOUS
<1>8. b \in [D -> E] /\ (\A x, y \in D : b[x] = b[y] => x = y) /\ \A z \in E : \E x \in D : b[x] = z
  BY <1>4, <1>7
<1>9. e \in [E -> Int]
  BY <1>6, <1>7, AmountType DEF Coins
<1>10. SumFunction(e) = SumFunction([x \in D |-> e[b[x]]])
  BY <1>3, <1>5, <1>8, <1>9, SumRenamed
<1>11. [x \in D |-> e[b[x]]] = f
  <2>1. ASSUME NEW x \in D
        PROVE  e[b[x]] = f[x]
    <3>1. b[x] = <<t, x>> /\ b[x] \in E
      BY <1>7, <1>8
    <3>2. e[b[x]] = AmountOf(<<t, x>>)
      BY <1>7, <3>1
    <3> QED
      BY <1>1, <3>2 DEF AmountOf
  <2> QED
    BY <1>3, <2>1
<1>12. SumFunction(f) \in Nat
  BY <1>3, SumNatural
<1> QED
  BY <1>1, <1>6, <1>7, <1>10, <1>11, <1>12 DEF ValueOf, TotalOut

LEMMA ValueTaken ==
  ASSUME NEW t \in Txs, NEW view, Coins(view), Applies(t, view)
  PROVE  /\ Spends(t) \subseteq view
         /\ ValueOf(Spends(t)) = TotalIn(t) /\ TotalIn(t) \in Nat
<1>1. PICK f, D, E : f = TxBody[t].inputs /\ D = DOMAIN f /\ E = Spends(t)
  OBVIOUS
<1>2. f \in Seq(OutPoint) /\ D = 1..Len(f) /\ Len(f) \in Nat
  BY <1>1, TypesAssumption DEF Transaction
<1>3. IsFiniteSet(D) /\ f \in [D -> OutPoint]
  BY <1>1, <1>2, FS_Interval
<1>4. /\ E = {f[i] : i \in D} /\ E \subseteq view
      /\ \A i, j \in D : f[i] = f[j] => i = j
  BY <1>1 DEF Applies, Spends
<1>5. IsFiniteSet(E) /\ Coins(E)
  BY <1>4, ValueSplits DEF Coins
<1>6. PICK e : e = [o \in E |-> AmountOf(o)]
  OBVIOUS
<1>7. e \in [E -> Nat] /\ e \in [E -> Int]
  BY <1>5, <1>6, AmountType DEF Coins
<1>8. f \in [D -> E] /\ \A z \in E : \E x \in D : f[x] = z
  BY <1>3, <1>4
<1>9. SumFunction(e) = SumFunction([x \in D |-> e[f[x]]])
  BY <1>3, <1>4, <1>5, <1>7, <1>8, SumRenamed
<1>10. [x \in D |-> e[f[x]]] = [i \in D |-> AmountOf(f[i])]
  BY <1>6, <1>8
<1>11. SumFunction(e) \in Nat
  BY <1>5, <1>7, SumNatural
<1>12. TotalIn(t) = SumFunction([i \in D |-> AmountOf(f[i])])
  BY <1>1 DEF TotalIn
<1> QED
  BY <1>1, <1>4, <1>6, <1>9, <1>10, <1>11, <1>12 DEF ValueOf

(* A transaction leaves no more than it finds, less its fee.               *)
LEMMA ValueAfterTx ==
  ASSUME NEW t \in Txs, NEW view, Coins(view), Applies(t, view)
  PROVE  /\ Coins((view \cup Outputs(t)) \ Spends(t))
         /\ ValueOf((view \cup Outputs(t)) \ Spends(t)) + Fee(t) <= ValueOf(view)
         /\ Fee(t) \in Nat
<1>1. PICK s, o : s = Spends(t) /\ o = Outputs(t)
  OBVIOUS
<1>2. s \in SUBSET view /\ ValueOf(s) = TotalIn(t) /\ TotalIn(t) \in Nat
  BY <1>1, ValueTaken
<1>3. Coins(o) /\ ValueOf(o) = TotalOut(t) /\ TotalOut(t) \in Nat
  BY <1>1, ValueMade
<1>4. PICK kept : kept = view \ s
  OBVIOUS
<1>5. ValueOf(view) = ValueOf(s) + ValueOf(kept) /\ Coins(kept)
  BY <1>2, <1>4, ValueSplits
<1>6. Coins(kept \cup o) /\ ValueOf(kept \cup o) <= ValueOf(kept) + ValueOf(o)
  BY <1>3, <1>5, ValueOfUnion
<1>7a. PICK all, after : all = kept \cup o /\ after = (view \cup o) \ s
  OBVIOUS
<1>7. all = kept \cup o /\ after = (view \cup o) \ s /\ after \in SUBSET all
  BY <1>4, <1>7a
<1>8. Coins(after) /\ ValueOf(after) <= ValueOf(all)
  BY <1>6, <1>7, ValueGrows, ValueSplits
<1>9. ValueOf(after) \in Nat /\ ValueOf(all) \in Nat /\ ValueOf(kept) \in Nat /\ ValueOf(view) \in Nat
  BY <1>5, <1>6, <1>7, <1>8, ValueType
<1>10. Fee(t) = TotalIn(t) - TotalOut(t) /\ TotalOut(t) <= TotalIn(t)
  BY DEF Fee, Applies
<1>11. ValueOf(after) + Fee(t) <= ValueOf(view)
  BY <1>2, <1>3, <1>5, <1>6, <1>7, <1>8, <1>9, <1>10
<1> QED
  BY <1>1, <1>2, <1>3, <1>7, <1>8, <1>10, <1>11

LEMMA SubsidyType == \A h \in Nat : SubsidyForHeight(h) \in Nat
<1> SUFFICES ASSUME NEW h \in Nat PROVE SubsidyForHeight(h) \in Nat
  OBVIOUS
<1>1. PICK period, last, past :
        /\ period = h \div SubsidyPeriod /\ last = Len(SubsidySchedule) - 1 /\ past = period - last
  OBVIOUS
<1>2. \A i \in 1..Len(SubsidySchedule) : SubsidySchedule[i] \in Nat
  <2>1. PICK top, S : top = Power(2, AmountBits) - 1 /\ S = 0..top
    OBVIOUS
  <2>2. Power(2, AmountBits) \in Nat
    BY ConsensusAssumption, PowerSteps
  <2>3. S \subseteq Nat /\ SubsidySchedule \in Seq(S)
    BY <2>1, <2>2, ConsensusAssumption
  <2>4. PICK n : n = Len(SubsidySchedule) /\ SubsidySchedule \in [1..n -> S]
    BY <2>3
  <2> QED
    BY <2>3, <2>4
<1>3. period \in Nat /\ last \in Nat /\ past \in Int /\ last + 1 \in 1..Len(SubsidySchedule)
  <2>1. SubsidyPeriod \in Nat \ {0} /\ Len(SubsidySchedule) \in Nat \ {0}
    BY ConsensusAssumption
  <2> QED
    BY <1>1, <2>1
<1>4. CASE past <= 0
  <2>1. period + 1 \in 1..Len(SubsidySchedule)
    BY <1>1, <1>3, <1>4
  <2> QED
    BY <1>1, <1>2, <1>4, <2>1 DEF SubsidyForHeight
<1>5. CASE ~(past <= 0) /\ past >= AmountBits
  BY <1>1, <1>5 DEF SubsidyForHeight
<1>6. CASE ~(past <= 0) /\ ~(past >= AmountBits)
  <2>1. past \in Nat
    BY <1>3, <1>6
  <2>2. PICK p \in Nat \ {0} : p = Power(2, past)
    BY <2>1, PowerPositive
  <2>3. PICK s \in Nat : s = SubsidySchedule[last + 1]
    BY <1>2, <1>3
  <2>4. s \div p \in Nat
    BY <2>2, <2>3
  <2>5. SubsidyForHeight(h) = s \div p
    BY <1>1, <1>6, <2>2, <2>3 DEF SubsidyForHeight
  <2> QED
    BY <2>4, <2>5
<1> QED
  BY <1>4, <1>5, <1>6

(* The fees of some transactions, and the coins that they leave when each  *)
(* applies after those before it.                                          *)
Between(f, low, high) == {f[j] : j \in low..high}

FeesBetween(f, low, high) == SumFunction([j \in low..high |-> Fee(f[j])])

LEMMA ValueAfterTxs ==
  ASSUME NEW base, Coins(base), NEW f, NEW low \in Nat \ {0}, NEW high \in Nat, low - 1 <= high,
         \A i \in low..high : f[i] \in Txs /\ Applies(f[i], ViewAfter(base, Between(f, low, i - 1)))
  PROVE  /\ Coins(ViewAfter(base, Between(f, low, high)))
         /\ ValueOf(ViewAfter(base, Between(f, low, high))) + FeesBetween(f, low, high)
              <= ValueOf(base)
         /\ \A i \in low..high : Fee(f[i]) \in Nat
         /\ FeesBetween(f, low, high) \in Nat
<1> DEFINE view(i) == ViewAfter(base, Between(f, low, i))
           fees(i) == FeesBetween(f, low, i)
           Good(i) == /\ Coins(view(i)) /\ ValueOf(view(i)) + fees(i) <= ValueOf(base)
                      /\ \A j \in low..i : Fee(f[j]) \in Nat
<1>1. ASSUME NEW i \in Int, \A j \in low..i : Fee(f[j]) \in Nat
      PROVE  fees(i) \in Nat
  <2>1. PICK D, g : D = low..i /\ g = [j \in D |-> Fee(f[j])]
    OBVIOUS
  <2>2. IsFiniteSet(low..i)
    BY FS_Interval
  <2>3. g \in [D -> Nat]
    BY <1>1, <2>1
  <2> QED
    BY <2>1, <2>2, <2>3, SumNatural DEF FeesBetween
<1>2. Good(low - 1)
  <2>1. low..low - 1 = {}
    OBVIOUS
  <2>2. view(low - 1) = base
    BY <2>1 DEF ViewAfter, OutputsOf, SpendsOf, Between
  <2>3. fees(low - 1) = 0
    BY <2>1, SumEmpty DEF FeesBetween
  <2>4. ValueOf(base) \in Nat
    BY ValueType
  <2> HIDE DEF view, fees
  <2> QED
    BY <2>1, <2>2, <2>3, <2>4
<1>3. ASSUME NEW i \in low..high, Good(i - 1)
      PROVE  Good(i)
  <2>1. PICK t, before : t = f[i] /\ before = view(i - 1)
    OBVIOUS
  <2>2. t \in Txs /\ Applies(t, before)
    BY <2>1
  <2>3. PICK after : after = (before \cup Outputs(t)) \ Spends(t)
    OBVIOUS
  <2>4. Coins(after) /\ ValueOf(after) + Fee(t) <= ValueOf(before) /\ Fee(t) \in Nat
    BY <1>3, <2>1, <2>2, <2>3, ValueAfterTx
  <2>5. view(i) \in SUBSET after
    <3>1. low..i = low..i - 1 \cup {i}
      OBVIOUS
    <3>2. Between(f, low, i) = Between(f, low, i - 1) \cup {t}
      BY <2>1, <3>1 DEF Between
    <3>3. /\ OutputsOf(Between(f, low, i)) = OutputsOf(Between(f, low, i - 1)) \cup Outputs(t)
          /\ SpendsOf(Between(f, low, i)) = SpendsOf(Between(f, low, i - 1)) \cup Spends(t)
      BY <3>2 DEF OutputsOf, SpendsOf
    <3> QED
      BY <2>1, <2>3, <3>3 DEF ViewAfter
  <2>6. Coins(view(i)) /\ ValueOf(view(i)) <= ValueOf(after)
    <3> HIDE DEF view
    <3>1. PICK v : v = view(i)
      OBVIOUS
    <3> QED
      BY <2>4, <2>5, <3>1, ValueGrows, ValueSplits
  <2>7. \A j \in low..i : Fee(f[j]) \in Nat
    <3>1. \A j \in low..i : j = i \/ j \in low..i - 1
      OBVIOUS
    <3> QED
      BY <1>3, <2>1, <2>4, <3>1
  <2>8. fees(i) = Fee(t) + fees(i - 1)
    <3>1. PICK D, g : D = low..i /\ g = [j \in D |-> Fee(f[j])]
      OBVIOUS
    <3>2. i \in D /\ D \ {i} = low..i - 1 /\ IsFiniteSet(D)
      <4>1. IsFiniteSet(low..i)
        BY FS_Interval
      <4> QED
        BY <3>1, <4>1
    <3>3. g \in [D -> Int]
      BY <2>7, <3>1
    <3>4. SumFunction(g) = g[i] + SumFunction(Part(g, D \ {i}))
      BY <3>2, <3>3, SumWithout
    <3>5. Part(g, D \ {i}) = [j \in low..i - 1 |-> Fee(f[j])]
      BY <3>1, <3>2 DEF Part
    <3> QED
      BY <2>1, <3>1, <3>2, <3>4, <3>5 DEF FeesBetween
  <2>9. fees(i - 1) \in Nat
    BY <1>1, <1>3
  <2>10. ValueOf(view(i)) + fees(i) <= ValueOf(base)
    <3>1. ValueOf(before) + fees(i - 1) <= ValueOf(base)
      BY <1>3, <2>1
    <3>2. Coins(before)
      BY <1>3, <2>1
    <3> HIDE DEF view, fees
    <3>3. PICK v : v = view(i)
      OBVIOUS
    <3>4. /\ ValueOf(v) \in Nat /\ ValueOf(after) \in Nat /\ ValueOf(base) \in Nat
          /\ ValueOf(before) \in Nat
      BY <2>4, <2>6, <3>2, <3>3, ValueType
    <3> QED
      BY <2>4, <2>6, <2>8, <2>9, <3>1, <3>3, <3>4
  <2> QED
    BY <2>6, <2>7, <2>10
<1>4. Good(high)
  <2> DEFINE T == {n \in Nat : n <= high => Good(n) \/ n < low - 1}
  <2> HIDE DEF Good
  <2>1. 0 \in T
    <3>1. low - 1 = 0 \/ 0 < low - 1
      OBVIOUS
    <3> QED
      BY <1>2, <3>1
  <2>2. ASSUME NEW n \in T
        PROVE  n + 1 \in T
    <3>1. CASE n + 1 <= high /\ low <= n + 1
      <4>1. PICK i \in low..high : i = n + 1 /\ n = i - 1 /\ n <= high /\ ~(n < low - 1)
        BY <3>1
      <4>2. Good(n)
        BY <4>1
      <4> QED
        BY <1>3, <4>1, <4>2
    <3>2. CASE n + 1 <= high /\ low = (n + 1) + 1
      <4>1. n + 1 = low - 1
        BY <3>2
      <4> QED
        BY <1>2, <4>1
    <3>3. CASE ~(n + 1 <= high) \/ n + 1 < low - 1
      BY <3>3
    <3>4. n \in Nat /\ low \in Nat /\ high \in Nat
      OBVIOUS
    <3> QED
      BY <3>1, <3>2, <3>3, <3>4
  <2>3. T = Nat
    <3>1. T \in SUBSET Nat
      OBVIOUS
    <3> HIDE DEF T
    <3> QED
      BY <2>1, <2>2, <3>1, NumberInduction
  <2>4. high \in T
    <3> HIDE DEF T
    <3> QED
      BY <2>3
  <2> QED
    BY <2>4
<1> QED
  BY <1>1, <1>4

(* A valid block adds at most the subsidy to the coins it is applied to.   *)
LEMMA ValueAfterBlock ==
  ASSUME NEW b \in Blocks, NEW base, Coins(base), NEW target, BlockValid(base, b, target)
  PROVE  /\ Coins((base \cup OutputsOf(TxsOf(b))) \ SpendsOf(TxsOf(b)))
         /\ ValueOf((base \cup OutputsOf(TxsOf(b))) \ SpendsOf(TxsOf(b)))
              <= ValueOf(base) + SubsidyForHeight(Height(b))
<1>1. PICK len, body : len = Len(Body[b]) /\ body = Body[b]
  OBVIOUS
<1>2. /\ Body[b] \in Seq(Txs) /\ len \in Nat \ {0} /\ DOMAIN Body[b] = 1..len
      /\ \A i \in 1..len : Body[b][i] \in Txs
  <2>1. Body[b] \in Seq(Txs) /\ Body[b] # <<>>
    BY TypesAssumption DEF BlockValid
  <2> QED
    BY <1>1, <2>1
<1>3. PICK left, fees, txs :
        /\ txs = Between(body, 2, len) /\ left = ViewAfter(base, txs)
        /\ fees = FeesBetween(body, 2, len)
  OBVIOUS
<1>4. Coins(left) /\ ValueOf(left) + fees <= ValueOf(base) /\ fees \in Nat
  <2>1. \A i \in 2..len : body[i] \in Txs /\ Applies(body[i], ViewAfter(base, Between(body, 2, i - 1)))
    BY <1>1, <1>2 DEF BlockValid, ViewBefore, Between
  <2>2. 2 \in Nat \ {0} /\ 2 - 1 <= len /\ len \in Nat
    BY <1>2
  <2> QED
    BY <1>3, <2>1, <2>2, ValueAfterTxs
<1>5. PICK cb : cb = Body[b][1] /\ cb \in Txs
  BY <1>2
<1>6. TotalOut(cb) <= SubsidyForHeight(Height(b)) + fees
  BY <1>1, <1>3, <1>5 DEF BlockValid, CoinbaseApplies, CoinbaseAllowance, FeesOf, FeesBetween
<1>7. TxsOf(b) = txs \cup {cb}
  <2>1. \A i \in 1..len : i = 1 \/ i \in 2..len
    BY <1>2
  <2>2. \A i \in 2..len : i \in 1..len
    BY <1>2
  <2> QED
    BY <1>1, <1>2, <1>3, <1>5, <2>1, <2>2 DEF TxsOf, Between
<1>8. PICK after, made :
        after = (base \cup OutputsOf(TxsOf(b))) \ SpendsOf(TxsOf(b)) /\ made = Outputs(cb)
  OBVIOUS
<1>9. after \in SUBSET (left \cup made)
  <2>1. /\ OutputsOf(TxsOf(b)) = OutputsOf(txs) \cup Outputs(cb)
        /\ SpendsOf(txs) \subseteq SpendsOf(TxsOf(b))
    BY <1>7 DEF OutputsOf, SpendsOf
  <2> QED
    BY <1>3, <1>8, <2>1 DEF ViewAfter
<1>10. Coins(made) /\ ValueOf(made) = TotalOut(cb) /\ TotalOut(cb) \in Nat
  BY <1>5, <1>8, ValueMade
<1>11. PICK all : all = left \cup made /\ Coins(all) /\ ValueOf(all) <= ValueOf(left) + ValueOf(made)
  BY <1>4, <1>10, ValueOfUnion
<1>12. after \in SUBSET all
  BY <1>9, <1>11
<1>13. Coins(after) /\ ValueOf(after) <= ValueOf(all)
  BY <1>11, <1>12, ValueGrows, ValueSplits
<1>14. /\ ValueOf(after) \in Nat /\ ValueOf(all) \in Nat /\ ValueOf(left) \in Nat
       /\ ValueOf(base) \in Nat
  BY <1>4, <1>11, <1>13, ValueType
<1>15. SubsidyForHeight(Height(b)) \in Nat
  BY SubsidyType, BlockTypes
<1>16. ValueOf(after) <= ValueOf(base) + SubsidyForHeight(Height(b))
  BY <1>4, <1>6, <1>10, <1>11, <1>13, <1>14, <1>15
<1> QED
  BY <1>8, <1>13, <1>16

(* The amounts of the premine and of the subsidies up to a height.         *)
Premine        == SumFunction([t \in TxsOf(GenesisBlock) |-> TotalOut(t)])
Subsidies(top) == SumFunction([h \in 1..top |-> SubsidyForHeight(h)])

LEMMA PremineValue ==
  /\ Coins(OutputsOf(TxsOf(GenesisBlock)))
  /\ ValueOf(OutputsOf(TxsOf(GenesisBlock))) <= Premine /\ Premine \in Nat
<1>1. PICK D, f : D = TxsOf(GenesisBlock) /\ f = [t \in D |-> TotalOut(t)]
  OBVIOUS
<1>2. IsFiniteSet(D) /\ D \subseteq Txs
  <2>1. PICK n : n = Len(Body[GenesisBlock]) /\ n \in Nat /\ DOMAIN Body[GenesisBlock] = 1..n
                 /\ \A i \in 1..n : Body[GenesisBlock][i] \in Txs
    BY TypesAssumption
  <2>2. PICK body : body = Body[GenesisBlock] /\ body \in [1..n -> Txs]
    BY <2>1, TypesAssumption
  <2>3. D = {body[i] : i \in 1..n} /\ D \subseteq Txs
    BY <1>1, <2>1, <2>2 DEF TxsOf
  <2>4. body \in Surjection(1..n, D)
    BY <2>2, <2>3 DEF Surjection
  <2>5. IsFiniteSet(1..n)
    <3>1. n \in Int /\ 1 \in Int
      BY <2>1
    <3> QED
      BY <3>1, FS_Interval
  <2> QED
    BY <2>3, <2>4, <2>5, FS_Surjection
<1>3. f \in [D -> Nat] /\ f \in [D -> Int]
  BY <1>1, <1>2, ValueMade
<1>4. PICK F : F = {S \in SUBSET D : /\ Coins(OutputsOf(S))
                                     /\ ValueOf(OutputsOf(S)) <= SumFunction(Part(f, S))}
  OBVIOUS
<1>5. {} \in F
  <2>1. OutputsOf({}) = {}
    BY DEF OutputsOf
  <2>2. Coins({})
    BY FS_EmptySet DEF Coins
  <2>3. ValueOf({}) = 0
    BY SumEmpty DEF ValueOf
  <2>4. SumFunction(Part(f, {})) = 0
    BY SumEmpty DEF Part
  <2> QED
    BY <1>4, <2>1, <2>2, <2>3, <2>4
<1>6. ASSUME NEW S \in F, NEW t \in D \ S
      PROVE  S \cup {t} \in F
  <2>1. PICK U, g, o : U = S \cup {t} /\ g = Part(f, U) /\ o = OutputsOf(S)
    OBVIOUS
  <2>2. U \in SUBSET D /\ S \in SUBSET D /\ Coins(o) /\ ValueOf(o) <= SumFunction(Part(f, S))
    BY <1>4, <2>1
  <2>3. IsFiniteSet(U) /\ g \in [U -> Int] /\ t \in U /\ U \ {t} = S /\ g[t] = TotalOut(t)
    <3>1. IsFiniteSet(U)
      BY <1>2, <2>2, FS_Subset
    <3> QED
      BY <1>1, <1>3, <2>1, <2>2, <3>1 DEF Part
  <2>4. SumFunction(g) = g[t] + SumFunction(Part(g, S))
    BY <2>3, SumWithout
  <2>5. Part(g, S) = Part(f, S)
    BY <2>1 DEF Part
  <2>6. OutputsOf(U) = o \cup Outputs(t)
    BY <2>1 DEF OutputsOf
  <2>7. PICK made : made = Outputs(t) /\ Coins(made) /\ ValueOf(made) = TotalOut(t)
                    /\ TotalOut(t) \in Nat
    BY <1>2, ValueMade
  <2>8. Coins(o \cup made) /\ ValueOf(o \cup made) <= ValueOf(o) + ValueOf(made)
    BY <2>2, <2>7, ValueOfUnion
  <2>9. PICK all : all = o \cup made
    OBVIOUS
  <2>10. ValueOf(all) \in Nat /\ ValueOf(o) \in Nat
    BY <2>2, <2>8, <2>9, ValueType
  <2>11. SumFunction(Part(f, S)) \in Int
    <3>1. IsFiniteSet(S) /\ Part(f, S) \in [S -> Int]
      BY <1>2, <1>3, <2>2, FS_Subset DEF Part
    <3> QED
      BY <3>1, SumType
  <2>12. ValueOf(all) <= SumFunction(g)
    BY <2>2, <2>3, <2>4, <2>5, <2>7, <2>8, <2>9, <2>10, <2>11
  <2> QED
    BY <1>4, <2>1, <2>2, <2>6, <2>7, <2>8, <2>9, <2>12
<1>7. F = SUBSET D
  <2>1. F \in SUBSET SUBSET D
    BY <1>4
  <2> QED
    BY <1>2, <1>5, <1>6, <2>1, SetInduction
<1>8. D \in F
  BY <1>7
<1>9. Part(f, D) = f
  BY <1>1 DEF Part
<1>10. SumFunction(f) \in Nat
  BY <1>2, <1>3, SumNatural
<1> QED
  BY <1>1, <1>4, <1>8, <1>9, <1>10 DEF Premine

LEMMA SubsidiesGrow ==
  ASSUME NEW n \in Nat
  PROVE  /\ Subsidies(n) \in Nat /\ Subsidies(-1) = 0 /\ Subsidies(0) = 0
         /\ Subsidies(n + 1) = Subsidies(n) + SubsidyForHeight(n + 1)
<1>1. \A k \in Int : IsFiniteSet(1..k)
  BY FS_Interval
<1>2. PICK f, D, k : k = n + 1 /\ D = 1..k /\ f = [h \in D |-> SubsidyForHeight(h)]
  OBVIOUS
<1>3. f \in [D -> Nat] /\ f \in [D -> Int] /\ IsFiniteSet(D) /\ k \in D /\ D \ {k} = 1..n
  <2>1. IsFiniteSet(D) /\ D \subseteq Nat /\ k \in D /\ D \ {k} = 1..n
    BY <1>1, <1>2
  <2>2. \A h \in D : SubsidyForHeight(h) \in Nat
    BY <2>1, SubsidyType
  <2>3. f \in [D -> Nat]
    BY <1>2, <2>2
  <2>4. f \in [D -> Int]
    BY <2>3
  <2> QED
    BY <2>1, <2>3, <2>4
<1>4. SumFunction(f) = f[k] + SumFunction(Part(f, D \ {k}))
  BY <1>3, SumWithout
<1>5. Part(f, D \ {k}) = [h \in 1..n |-> SubsidyForHeight(h)]
  BY <1>2, <1>3 DEF Part
<1>6. Subsidies(n) \in Nat
  <2>1. PICK g, E : E = 1..n /\ g = [h \in E |-> SubsidyForHeight(h)]
    OBVIOUS
  <2>2. g \in [E -> Nat] /\ IsFiniteSet(E)
    BY <1>1, <2>1, SubsidyType
  <2> QED
    BY <2>1, <2>2, SumNatural DEF Subsidies
<1>7. SubsidyForHeight(k) \in Nat
  BY <1>2, SubsidyType
<1>8. Subsidies(-1) = 0 /\ Subsidies(0) = 0
  <2>1. 1..(-1) = {} /\ 1..0 = {}
    OBVIOUS
  <2> QED
    BY <2>1, SumEmpty DEF Subsidies
<1> QED
  BY <1>2, <1>3, <1>4, <1>5, <1>6, <1>7, <1>8 DEF Subsidies

(* The coins that a chain of fitting blocks leaves.                        *)
LEMMA SupplyOfChain ==
  ASSUME NEW f, NEW n \in Nat, \A h \in 0..n : f[h] \in Blocks,
         f[0] = GenesisBlock, \A k \in 1..n : Fits(f, k)
  PROVE  /\ Coins(CoinsOf(TxsBelow(f, n + 1)))
         /\ ValueOf(CoinsOf(TxsBelow(f, n + 1))) <= Premine + Subsidies(n)
<1> DEFINE coins(k) == CoinsOf(TxsBelow(f, k + 1))
           T == {k \in Nat : k <= n => Coins(coins(k)) /\ ValueOf(coins(k)) <= Premine + Subsidies(k)}
<1>1. 0 \in T
  <2>1. TxsBelow(f, 0 + 1) = TxsOf(GenesisBlock)
    <3>1. 0..(0 + 1) - 1 = {0}
      OBVIOUS
    <3> QED
      BY <3>1 DEF TxsBelow
  <2>2. coins(0) \in SUBSET OutputsOf(TxsOf(GenesisBlock))
    BY <2>1 DEF CoinsOf
  <2>3. PICK o : o = OutputsOf(TxsOf(GenesisBlock)) /\ Coins(o) /\ ValueOf(o) <= Premine
    BY PremineValue
  <2>4. PICK c : c = coins(0) /\ c \in SUBSET o
    BY <2>2, <2>3
  <2>5. Coins(c) /\ ValueOf(c) <= ValueOf(o)
    BY <2>3, <2>4, ValueGrows, ValueSplits
  <2>6. ValueOf(c) \in Nat /\ ValueOf(o) \in Nat
    BY <2>3, <2>5, ValueType
  <2>7. ValueOf(c) <= Premine + Subsidies(0)
    BY <2>3, <2>5, <2>6, PremineValue, SubsidiesGrow
  <2> HIDE DEF coins
  <2> QED
    BY <2>4, <2>5, <2>7
<1>2. ASSUME NEW k \in T
      PROVE  k + 1 \in T
  <2>1. CASE k + 1 <= n
    <3>1. k \in Nat /\ k <= n /\ k + 1 \in 1..n /\ (k + 1) - 1 = k
      BY <2>1
    <3>2. Coins(coins(k)) /\ ValueOf(coins(k)) <= Premine + Subsidies(k)
      BY <3>1
    <3>3. PICK b, base : b = f[k + 1] /\ base = coins(k)
      OBVIOUS
    <3>4. b \in Blocks /\ Fits(f, k + 1)
      BY <3>1, <3>3
    <3>5. Height(b) = k + 1 /\ BlockValid(base, b, TargetAt(f, k + 1))
      BY <3>3, <3>4 DEF Fits
    <3>6. PICK after : after = (base \cup OutputsOf(TxsOf(b))) \ SpendsOf(TxsOf(b))
      OBVIOUS
    <3>7. Coins(after) /\ ValueOf(after) <= ValueOf(base) + SubsidyForHeight(k + 1)
      BY <3>2, <3>3, <3>4, <3>5, <3>6, ValueAfterBlock
    <3>8. coins(k + 1) \in SUBSET after
      <4>1. TxsBelow(f, (k + 1) + 1) = TxsBelow(f, k + 1) \cup TxsOf(b)
        <5>1. 0..((k + 1) + 1) - 1 = (0..(k + 1) - 1) \cup {k + 1}
          BY <3>1
        <5> QED
          BY <3>3, <5>1 DEF TxsBelow
      <4> QED
        BY <3>3, <3>6, <4>1 DEF CoinsOf, OutputsOf, SpendsOf
    <3> HIDE DEF coins
    <3>9. PICK c : c = coins(k + 1)
      OBVIOUS
    <3>10. Coins(c) /\ ValueOf(c) <= ValueOf(after)
      BY <3>7, <3>8, <3>9, ValueGrows, ValueSplits
    <3>11. ValueOf(c) \in Nat /\ ValueOf(after) \in Nat /\ ValueOf(base) \in Nat
      BY <3>2, <3>3, <3>7, <3>10, ValueType
    <3>12. SubsidyForHeight(k + 1) \in Nat /\ Subsidies(k) \in Nat
           /\ Subsidies(k + 1) = Subsidies(k) + SubsidyForHeight(k + 1)
      BY <3>1, SubsidyType, SubsidiesGrow
    <3>13. ValueOf(c) <= Premine + Subsidies(k + 1)
      BY <3>2, <3>3, <3>7, <3>10, <3>11, <3>12, PremineValue
    <3> QED
      BY <3>1, <3>9, <3>10, <3>13
  <2>2. CASE ~(k + 1 <= n)
    BY <2>2
  <2> QED
    BY <2>1, <2>2
<1>3. T = Nat
  <2>1. T \in SUBSET Nat
    OBVIOUS
  <2> HIDE DEF T
  <2> QED
    BY <1>1, <1>2, <2>1, NumberInduction
<1>4. n \in T
  <2> HIDE DEF T
  <2> QED
    BY <1>3
<1> QED
  BY <1>4

(* No block that validate_full_block lets through creates coins: what is   *)
(* unspent is worth no more than the premine and the subsidies of the      *)
(* heights reached, in the middle of a reorg and after any fault, for any  *)
(* schedule, amounts, fees and number of transactions in a block.          *)
THEOREM SupplyStaysWithinSchedule == Spec /\ UndosAreClean => []SupplyWithinSchedule
<1>1. NodeInv => SupplyWithinSchedule
  <2> SUFFICES ASSUME NodeInv PROVE ValueOf(utxos) <= Premine + Subsidies(latest)
    BY DEF SupplyWithinSchedule, ValueOf, Premine, Subsidies
  <2>1. /\ latest \in Nat \cup {-1} /\ \A h \in 0..latest : blocks[h] \in Blocks
        /\ (latest \in Nat => blocks[0] = GenesisBlock)
        /\ \A k \in 1..latest : Fits(blocks, k)
        /\ (phase = "premine" => latest = 0 /\ utxos = {})
        /\ (phase # "premine" => utxos = CoinsOf(TxsBelow(blocks, latest + 1)))
    <3>1. Below(latest + 1) = TxsBelow(blocks, latest + 1)
      BY DEF Below, TxsBelow
    <3> QED
      BY <3>1 DEF NodeInv, CoinsInv, BlocksSound, RestoreInv, LocalFits, IndexInv, TypeOK,
                  StorageTypeOK, IndexesAgree, NoHeight
  <2>2. CASE phase # "premine" /\ latest \in Nat
    BY <2>1, <2>2, SupplyOfChain
  <2>3. CASE ~(phase # "premine" /\ latest \in Nat)
    <3>1. utxos = {} /\ (latest = 0 \/ latest = -1)
      <4>1. CASE phase = "premine"
        BY <2>1, <4>1
      <4>2. CASE latest = -1 /\ phase # "premine"
        <5>1. TxsBelow(blocks, -1 + 1) = {}
          <6>1. 0..(-1 + 1) - 1 = {}
            OBVIOUS
          <6> QED
            BY <6>1 DEF TxsBelow
        <5> QED
          BY <2>1, <4>2, <5>1 DEF CoinsOf, OutputsOf
      <4> QED
        BY <2>1, <2>3, <4>1, <4>2
    <3>2. ValueOf({}) = 0
      BY SumEmpty DEF ValueOf
    <3>3. Subsidies(-1) = 0 /\ Subsidies(0) = 0
      <4>1. 0 \in Nat
        OBVIOUS
      <4> QED
        BY <4>1, SubsidiesGrow
    <3> QED
      BY <3>1, <3>2, <3>3, PremineValue
  <2> QED
    BY <2>2, <2>3
<1> QED
  BY <1>1, NodeInvariant, PTL

-----------------------------------------------------------------------------
(* The node: the chain with a mempool and a miner beside it.               *)

(* Whatever the miner and the clients do, the chain moves by its own steps.*)
LEMMA NodeSteps == [NodeNext]_nodeVars => [Next]_vars
<1> SUFFICES ASSUME [NodeNext]_nodeVars PROVE [Next]_vars
  OBVIOUS
<1>1. CASE ChainStep
  BY <1>1 DEF ChainStep
<1>2. ASSUME NEW t \in Txs, Submit(t) PROVE UNCHANGED vars
  BY <1>2 DEF Submit
<1>3. CASE BuildCandidate
  BY <1>3 DEF BuildCandidate
<1>4. CASE RequeueCandidate
  BY <1>4 DEF RequeueCandidate
<1>5. ASSUME NEW b \in Blocks, SubmitOwnBlock(b) PROVE CommitNewTip(b) \/ UNCHANGED vars
  <2>1. CASE NewTipOk(b)
    BY <1>5, <2>1 DEF SubmitOwnBlock, CommitNewTip
  <2>2. CASE ~NewTipOk(b)
    BY <1>5, <2>2 DEF SubmitOwnBlock, vars
  <2> QED
    BY <2>1, <2>2
<1>6. CASE UNCHANGED nodeVars
  BY <1>6 DEF nodeVars
<1>7. ASSUME NEW b \in Blocks, CommitNewTip(b) PROVE Next
  BY <1>7 DEF Next
<1> QED
  BY <1>1, <1>2, <1>3, <1>4, <1>5, <1>6, <1>7 DEF NodeNext, MinerDone

(* Whatever the tasks of a node do, its database sees only what ZnxChain   *)
(* has: every theorem about the chain, its crashes and its reorgs is one   *)
(* about the node with its mempool, miner and handlers (lib.rs:842, 884).  *)
THEOREM NodeIsChain == NodeSpec => Spec
BY NodeSteps, PTL DEF NodeSpec, Spec, NodeInit

(* Every output there is or was comes from a transaction.                  *)
OutputsExist ==
  /\ utxos \subseteq OutputsOf(Txs)
  /\ \A h \in DOMAIN undo : undo[h] \subseteq OutputsOf(Txs)

LEMMA BlockOutputsExist ==
  \A b \in Blocks : OutputsOf(TxsOf(b)) \subseteq OutputsOf(Txs)
  BY BlockTypes DEF OutputsOf

LEMMA SpendsExist ==
  ASSUME NEW b \in Blocks, NEW base, NEW target, base \subseteq OutputsOf(Txs),
         BlockValid(base, b, target)
  PROVE  SpentBy(b) \subseteq OutputsOf(Txs)
<1> SUFFICES ASSUME NEW t \in TxsOf(b)
             PROVE  Spends(t) \subseteq OutputsOf(Txs)
  BY DEF SpentBy, SpendsOf
<1>1. PICK len, body : body = Body[b] /\ len = Len(body) /\ len \in Nat /\ DOMAIN body = 1..len
  BY TypesAssumption
<1>2. PICK i \in 1..len : t = body[i]
  BY <1>1 DEF TxsOf
<1>3. CASE i = 1
  BY <1>1, <1>2, <1>3 DEF BlockValid, CoinbaseApplies, Spends
<1>4. CASE i # 1
  <2>1. i \in 2..len
    BY <1>4
  <2>2. Spends(t) \subseteq base \cup OutputsOf({body[j] : j \in 2..i - 1})
    BY <1>1, <1>2, <2>1 DEF BlockValid, Applies, ViewBefore, ViewAfter
  <2>3. {body[j] : j \in 2..i - 1} \subseteq Txs
    <3>1. \A j \in 2..i - 1 : j \in 1..len
      BY <1>1, <2>1
    <3> QED
      BY <1>1, <3>1, BlockTypes DEF TxsOf
  <2> QED
    BY <2>2, <2>3 DEF OutputsOf
<1> QED
  BY <1>3, <1>4

LEMMA CommitOutputs ==
  ASSUME OutputsExist, NEW b \in Blocks, NewTipOk(b), CommitTip(b)
  PROVE  OutputsExist'
<1>1. SpentBy(b) \subseteq OutputsOf(Txs)
  BY SpendsExist DEF NewTipOk, OutputsExist
<1>2. CreatedBy(b) \subseteq OutputsOf(Txs)
  BY BlockOutputsExist DEF CreatedBy
<1> QED
  BY <1>1, <1>2 DEF OutputsExist, CommitTip, CommitBlock, UndoOf, Put

LEMMA UndoOutputs ==
  ASSUME OutputsExist, UndoLatestBlock
  PROVE  OutputsExist'
<1>1. GetUndo(latest) \subseteq OutputsOf(Txs)
  BY DEF GetUndo, OutputsExist
<1> QED
  BY <1>1 DEF OutputsExist, UndoLatestBlock, Delete

LEMMA NextOutputs == IndexInv /\ OutputsExist /\ [Next]_vars => OutputsExist'
<1> SUFFICES ASSUME IndexInv, OutputsExist, [Next]_vars PROVE OutputsExist'
  OBVIOUS
<1>0. ASSUME UNCHANGED storage PROVE OutputsExist'
  BY <1>0 DEF OutputsExist, storage
<1>1. CASE PutGenesis
  BY <1>1 DEF PutGenesis, PutBlock, OutputsExist
<1>2. CASE ApplyPremine
  BY <1>2, BlockOutputsExist, TypesAssumption DEF ApplyPremine, ApplyChanges, OutputsExist
<1>3. CASE Restart
  BY <1>0, <1>3 DEF Restart
<1>4. ASSUME NEW b \in Blocks, CommitNewTip(b) PROVE OutputsExist'
  BY <1>4, CommitOutputs DEF CommitNewTip
<1>5. ASSUME NEW b \in Blocks, SiblingReorg(b) PROVE OutputsExist'
  BY <1>0, <1>5 DEF SiblingReorg
<1>6. ASSUME NEW c \in CandidateChains, FindAncestor(c) \/ BackfillReorg(c) PROVE OutputsExist'
  BY <1>0, <1>6 DEF FindAncestor, BackfillReorg
<1>7. CASE ReorgUndo
  BY <1>7, UndoOutputs DEF ReorgUndo
<1>8. CASE ReorgCommit
  <2>1. NextCandidate \in Blocks
    BY <1>8 DEF ReorgCommit, NextCandidate, IndexInv, TypeOK, ReorgOK, Reorgs
  <2> QED
    BY <1>8, <2>1, CommitOutputs DEF ReorgCommit
<1>9. CASE ReorgReject
  BY <1>0, <1>9 DEF ReorgReject
<1>10. CASE ReorgRollback
  BY <1>10, UndoOutputs DEF ReorgRollback
<1>11. CASE ReorgRestore
  <2>1. NextOriginal \in Blocks
    BY <1>11 DEF ReorgRestore, NextOriginal, IndexInv, TypeOK, ReorgOK, Reorgs
  <2> QED
    BY <1>11, <2>1, CommitOutputs DEF ReorgRestore
<1>12. CASE Crash \/ WriteFails
  BY <1>0, <1>12 DEF Crash, WriteFails
<1>13. CASE UNCHANGED vars
  BY <1>0, <1>13 DEF vars
<1> QED
  BY <1>1, <1>2, <1>3, <1>4, <1>5, <1>6, <1>7, <1>8, <1>9, <1>10, <1>11, <1>12, <1>13
  DEF Next, ReorgStep

LEMMA OutputsInvariant == Spec => []OutputsExist
<1>1. Init => OutputsExist
  BY DEF Init, StorageInit, OutputsExist, Empty
<1> QED
  BY <1>1, NextOutputs, IndexInvariant, PTL DEF Spec

-----------------------------------------------------------------------------
(* The mempool.                                                            *)
Pools == [order : Seq(Txs), claimedBy : UNION {[D -> Txs] : D \in SUBSET OutPoint}]

(* The claims of a pool are exact.                                         *)
PoolOK(pool) ==
  /\ pool \in Pools
  /\ Len(pool.order) <= MaxMempoolSize
  /\ IsInjective(pool.order)
  /\ DOMAIN pool.claimedBy = SpendsOf(PendingIn(pool))
  /\ \A t \in PendingIn(pool) : \A o \in Spends(t) : pool.claimedBy[o] = t

LEMMA EmptyPoolOK == PoolOK(EmptyMempool)
<1>1. EmptyMempool.order = <<>> /\ DOMAIN EmptyMempool.claimedBy = {}
  BY DEF EmptyMempool
<1>2. EmptyMempool \in Pools
  <2>1. [o \in {} |-> {}] \in [{} -> Txs] /\ {} \in SUBSET OutPoint /\ <<>> \in Seq(Txs)
    OBVIOUS
  <2>2. PICK C : C = UNION {[D -> Txs] : D \in SUBSET OutPoint} /\ [o \in {} |-> {}] \in C
    BY <2>1
  <2> QED
    BY <2>1, <2>2 DEF EmptyMempool, Pools
<1>3. PendingIn(EmptyMempool) = {}
  BY <1>1 DEF PendingIn, ToSet
<1>4. DOMAIN EmptyMempool.order = {} /\ Len(EmptyMempool.order) = 0
  BY <1>1
<1> QED
  BY <1>1, <1>2, <1>3, <1>4, MempoolAssumption DEF PoolOK, SpendsOf, IsInjective

LEMMA PoolTypes ==
  ASSUME NEW pool, PoolOK(pool)
  PROVE  /\ pool.order \in Seq(Txs) /\ Len(pool.order) \in Nat
         /\ DOMAIN pool.order = 1..Len(pool.order)
         /\ PendingIn(pool) \subseteq Txs
         /\ DOMAIN pool.claimedBy \subseteq OutPoint
         /\ \A o \in DOMAIN pool.claimedBy : pool.claimedBy[o] \in Txs
<1>1. pool.order \in Seq(Txs)
  BY DEF PoolOK, Pools
<1>2. PendingIn(pool) \subseteq Txs
  BY <1>1 DEF PendingIn, ToSet
<1>3. PICK D \in SUBSET OutPoint : pool.claimedBy \in [D -> Txs]
  BY DEF PoolOK, Pools
<1> QED
  BY <1>1, <1>2, <1>3

(* A pool is made of its two parts.                                        *)
LEMMA PoolMade ==
  ASSUME NEW order \in Seq(Txs), NEW D \in SUBSET OutPoint, NEW claims \in [D -> Txs]
  PROVE  [order |-> order, claimedBy |-> claims] \in Pools
<1>1. PICK C : C = UNION {[E -> Txs] : E \in SUBSET OutPoint}
  OBVIOUS
<1>2. claims \in C
  BY <1>1
<1> QED
  BY <1>1, <1>2 DEF Pools

LEMMA InsertKeepsPool ==
  ASSUME NEW pool, PoolOK(pool), NEW view, NEW t \in Txs
  PROVE  PoolOK(Insert(pool, view, t))
<1>1. CASE ~Admits(pool, view, t)
  BY <1>1 DEF Insert
<1>2. CASE Admits(pool, view, t)
  <2>0. PICK order, old, spends, claimed :
          /\ order = Append(pool.order, t) /\ old = pool.order /\ spends = Spends(t)
          /\ claimed = pool.claimedBy
    OBVIOUS
  <2>1. PICK claims :
          /\ order = Append(pool.order, t) /\ old = pool.order /\ spends = Spends(t)
          /\ claims = [o \in DOMAIN pool.claimedBy \cup spends |->
                         IF o \in spends THEN t ELSE pool.claimedBy[o]]
    BY <2>0
  <2>2. PICK new : new = [order |-> order, claimedBy |-> claims] /\ new = Insert(pool, view, t)
    BY <1>2, <2>1 DEF Insert
  <2>3. PICK n \in Nat : n = Len(old) /\ old \in Seq(Txs) /\ DOMAIN old = 1..n
    BY <2>1, PoolTypes
  <2>4. /\ order \in Seq(Txs) /\ Len(order) = n + 1 /\ DOMAIN order = 1..n + 1
        /\ order[n + 1] = t /\ \A i \in 1..n : order[i] = old[i]
    BY <2>1, <2>3, AppendProperties
  <2>5. PendingIn(new) = PendingIn(pool) \cup {t}
    <3>1. \A i \in 1..n + 1 : i = n + 1 \/ i \in 1..n
      BY <2>3
    <3>2. \A i \in 1..n : i \in 1..n + 1
      BY <2>3
    <3>3. n + 1 \in 1..n + 1
      BY <2>3
    <3>4. PendingIn(new) = {order[i] : i \in 1..n + 1} /\ PendingIn(pool) = {old[i] : i \in 1..n}
      BY <2>1, <2>2, <2>3, <2>4 DEF PendingIn, ToSet
    <3> QED
      BY <2>4, <3>1, <3>2, <3>3, <3>4
  <2>6. new \in Pools
    <3>1. DOMAIN claims \in SUBSET OutPoint /\ claims \in [DOMAIN claims -> Txs]
      BY <2>1, PoolTypes, TxTypes
    <3> QED
      BY <2>2, <2>4, <3>1, PoolMade
  <2>7. Len(order) <= MaxMempoolSize
    BY <1>2, <2>1, <2>3, <2>4, MempoolAssumption DEF Admits
  <2>8. IsInjective(order)
    <3> SUFFICES ASSUME NEW i \in 1..n + 1, NEW j \in 1..n + 1, order[i] = order[j]
                 PROVE  i = j
      BY <2>4 DEF IsInjective
    <3>1. \A k \in 1..n : old[k] # t
      BY <1>2, <2>1, <2>3 DEF Admits, PendingIn, ToSet
    <3>2. \A k, l \in 1..n : old[k] = old[l] => k = l
      BY <2>1, <2>3 DEF PoolOK, IsInjective
    <3>3. (i = n + 1 \/ i \in 1..n) /\ (j = n + 1 \/ j \in 1..n)
      BY <2>3
    <3> QED
      BY <2>4, <3>1, <3>2, <3>3
  <2>9. DOMAIN claims = SpendsOf(PendingIn(new))
    BY <2>1, <2>5 DEF PoolOK, SpendsOf
  <2>10. ASSUME NEW u \in PendingIn(new), NEW o \in Spends(u)
         PROVE  claims[o] = u
    <3>1. CASE u = t
      BY <2>1, <3>1
    <3>2. CASE u # t
      <4>1. u \in PendingIn(pool)
        BY <2>5, <3>2
      <4>2. o \in DOMAIN pool.claimedBy /\ pool.claimedBy[o] = u
        BY <4>1 DEF PoolOK, SpendsOf
      <4>3. o \notin spends
        BY <1>2, <2>1, <4>2 DEF Admits
      <4> QED
        BY <2>1, <4>2, <4>3
    <3> QED
      BY <3>1, <3>2
  <2>11. new.order = order /\ new.claimedBy = claims
    BY <2>2
  <2> HIDE DEF PoolOK
  <2>12. PoolOK(new)
    BY <2>6, <2>7, <2>8, <2>9, <2>10, <2>11 DEF PoolOK
  <2> QED
    BY <2>2, <2>12
<1> QED
  BY <1>1, <1>2

(* What next_batch takes and what it leaves make up the queue.             *)
Taken(pool, max) == AtMost(max, Len(pool.order))

Kept(pool, max) == SubSeq(pool.order, Taken(pool, max) + 1, Len(pool.order))

BatchFacts(m, n, max, order, batch, kept) ==
  /\ m \in 0..n /\ m <= max
  /\ batch \in Seq(Txs) /\ Len(batch) = m /\ ToSet(batch) = {order[i] : i \in 1..m}
  /\ kept \in Seq(Txs) /\ Len(kept) = n - m
  /\ \A i \in 1..n - m : kept[i] = order[m + i]
  /\ ToSet(kept) = {order[i] : i \in m + 1..n}

LEMMA BatchProperties ==
  ASSUME NEW pool, PoolOK(pool), NEW max \in Nat
  PROVE  BatchFacts(Taken(pool, max), Len(pool.order), max, pool.order,
                    Batch(pool, max), Kept(pool, max))
<1>1. PICK n \in Nat, order \in Seq(Txs) : order = pool.order /\ n = Len(order) /\ DOMAIN order = 1..n
  BY PoolTypes
<1>2a. PICK m, kept : m = Taken(pool, max) /\ kept = Kept(pool, max)
  OBVIOUS
<1>2. m \in 0..n /\ m <= max /\ m \in Nat /\ kept = SubSeq(order, m + 1, n)
  BY <1>1, <1>2a DEF AtMost, Taken, Kept
<1>3. PICK batch : batch = Batch(pool, max) /\ batch = SubSeq(order, 1, m)
  BY <1>1, <1>2a DEF Batch, Taken
<1>4. batch \in Seq(Txs) /\ Len(batch) = m /\ \A i \in 1..m : batch[i] = order[i]
  <2>1. \A i \in 1..m : order[i] \in Txs
    BY <1>1, <1>2
  <2>2. Len(batch) = m /\ DOMAIN batch = 1..m /\ \A i \in 1..m : batch[i] = order[i]
    BY <1>1, <1>2, <1>3
  <2>3. batch \in Seq(Txs)
    BY <1>1, <1>2, <1>3, SubSeqProperties
  <2> QED
    BY <2>2, <2>3
<1>5. kept \in Seq(Txs) /\ Len(kept) = n - m /\ \A i \in 1..n - m : kept[i] = order[m + i]
  <2>1. Len(kept) = n - m /\ DOMAIN kept = 1..n - m /\ \A i \in 1..n - m : kept[i] = order[m + i]
    BY <1>1, <1>2
  <2>2. kept \in Seq(Txs)
    BY <1>1, <1>2, SubSeqProperties
  <2> QED
    BY <2>1, <2>2
<1>6. ToSet(batch) = {order[i] : i \in 1..m}
  <2>1. DOMAIN batch = 1..m
    BY <1>4
  <2> QED
    BY <1>4, <2>1 DEF ToSet
<1>7. ToSet(kept) = {order[i] : i \in m + 1..n}
  <2>1. DOMAIN kept = 1..n - m
    BY <1>5
  <2>2. \A i \in 1..n - m : m + i \in m + 1..n
    BY <1>2
  <2>3. \A i \in m + 1..n : i - m \in 1..n - m /\ m + (i - m) = i
    BY <1>2
  <2> QED
    <3>0. PICK l : l = n - m
      OBVIOUS
    <3>1. ToSet(kept) = {kept[i] : i \in 1..n - m}
      <4>1. DOMAIN kept = 1..l
        BY <2>1, <3>0
      <4> QED
        BY <3>0, <4>1 DEF ToSet
    <3>2. \A i \in 1..n - m : kept[i] \in {order[j] : j \in m + 1..n}
      BY <1>5, <2>2
    <3>3. \A i \in m + 1..n : order[i] = kept[i - m] /\ i - m \in 1..n - m
      BY <1>5, <2>3
    <3>4. PICK S, T : S = {kept[i] : i \in 1..n - m} /\ T = {order[j] : j \in m + 1..n}
      OBVIOUS
    <3>5. S \subseteq T
      BY <3>2, <3>4
    <3>6. T \subseteq S
      BY <3>3, <3>4
    <3> QED
      BY <3>1, <3>4, <3>5, <3>6
<1>8. BatchFacts(m, n, max, order, batch, kept)
  BY <1>2, <1>4, <1>5, <1>6, <1>7 DEF BatchFacts
<1> QED
  BY <1>1, <1>2a, <1>3, <1>8

LEMMA BatchKeepsPool ==
  ASSUME NEW pool, PoolOK(pool), NEW max \in Nat
  PROVE  PoolOK(AfterBatch(pool, max))
<1>1. PICK m, kept, order, freed, claims :
        /\ m = Taken(pool, max) /\ order = pool.order /\ kept = Kept(pool, max)
        /\ freed = SpendsOf(ToSet(Batch(pool, max)))
        /\ claims = [o \in DOMAIN pool.claimedBy \ freed |-> pool.claimedBy[o]]
  OBVIOUS
<1>2. PICK new : new = [order |-> kept, claimedBy |-> claims] /\ new = AfterBatch(pool, max)
  BY <1>1 DEF AfterBatch, Taken, Kept
<1>3. PICK n \in Nat : n = Len(order) /\ order \in Seq(Txs) /\ DOMAIN order = 1..n
                      /\ \A i, j \in 1..n : order[i] = order[j] => i = j
  BY <1>1, PoolTypes DEF PoolOK, IsInjective
<1>4. /\ m \in 0..n /\ kept \in Seq(Txs) /\ Len(kept) = n - m
      /\ ToSet(Batch(pool, max)) = {order[i] : i \in 1..m}
      /\ \A i \in 1..n - m : kept[i] = order[m + i]
      /\ ToSet(kept) = {order[i] : i \in m + 1..n}
  <2>1. BatchFacts(m, n, max, order, Batch(pool, max), kept)
    BY <1>1, <1>3, BatchProperties
  <2> QED
    BY <2>1 DEF BatchFacts
<1>5. new \in Pools
  <2>1. DOMAIN claims \in SUBSET OutPoint /\ claims \in [DOMAIN claims -> Txs]
    BY <1>1, PoolTypes
  <2> QED
    BY <1>2, <1>4, <2>1, PoolMade
<1>6. Len(kept) <= MaxMempoolSize
  BY <1>1, <1>3, <1>4, MempoolAssumption DEF PoolOK
<1>7. IsInjective(kept)
  <2> SUFFICES ASSUME NEW i \in 1..n - m, NEW j \in 1..n - m, kept[i] = kept[j]
               PROVE  i = j
    BY <1>4 DEF IsInjective
  <2>1. m + i \in 1..n /\ m + j \in 1..n /\ order[m + i] = order[m + j]
    BY <1>3, <1>4
  <2> QED
    BY <1>3, <1>4, <2>1
<1>8. /\ PendingIn(pool) = {order[i] : i \in 1..n}
      /\ PendingIn(new) = {order[i] : i \in m + 1..n}
  <2>1. new.order = kept /\ PendingIn(new) = ToSet(kept)
    BY <1>2 DEF PendingIn
  <2>2. PendingIn(pool) = {order[i] : i \in 1..n}
    BY <1>1, <1>3 DEF PendingIn, ToSet
  <2> QED
    BY <1>4, <2>1, <2>2
<1>9. ASSUME NEW i \in m + 1..n, NEW o \in Spends(order[i])
      PROVE  o \in DOMAIN claims /\ claims[o] = order[i]
  <2>1. i \in 1..n
    BY <1>4
  <2>2. o \in DOMAIN pool.claimedBy /\ pool.claimedBy[o] = order[i]
    BY <1>8, <2>1 DEF PoolOK, SpendsOf
  <2>3. ASSUME o \in freed PROVE FALSE
    <3>1. PICK j \in 1..m : o \in Spends(order[j])
      BY <1>1, <1>4, <2>3 DEF SpendsOf
    <3>2. j \in 1..n /\ j # i
      BY <1>4, <3>1
    <3>3. pool.claimedBy[o] = order[j]
      BY <1>8, <3>1, <3>2 DEF PoolOK
    <3> QED
      BY <1>3, <2>1, <2>2, <3>2, <3>3
  <2> QED
    BY <1>1, <2>2, <2>3
<1>10. DOMAIN claims = SpendsOf(PendingIn(new))
  <2>1. SpendsOf(PendingIn(new)) \subseteq DOMAIN claims
    BY <1>8, <1>9 DEF SpendsOf
  <2>2. ASSUME NEW o \in DOMAIN claims
        PROVE  o \in SpendsOf(PendingIn(new))
    <3>1. o \in DOMAIN pool.claimedBy /\ o \notin freed
      BY <1>1
    <3>2. PICK i \in 1..n : o \in Spends(order[i])
      BY <1>8, <3>1 DEF PoolOK, SpendsOf
    <3>3. i \notin 1..m
      BY <1>1, <1>4, <3>1, <3>2 DEF SpendsOf
    <3>4. i \in m + 1..n
      BY <1>4, <3>3
    <3> QED
      BY <1>8, <3>2, <3>4 DEF SpendsOf
  <2> QED
    BY <2>1, <2>2
<1>11. \A t \in PendingIn(new) : \A o \in Spends(t) : claims[o] = t
  BY <1>8, <1>9
<1>12. new.order = kept /\ new.claimedBy = claims
  BY <1>2
<1>13. PoolOK(new)
  BY <1>5, <1>6, <1>7, <1>10, <1>11, <1>12 DEF PoolOK
<1> QED
  BY <1>2, <1>13

-----------------------------------------------------------------------------
(* The two folds over a batch, as sequences of their intermediate values.  *)
IncludedStep(txs, t) ==
  IF Applies(t, ViewAfter(utxos, ToSet(txs))) THEN Append(txs, t) ELSE txs

IncludedTable(iter, batch) ==
  iter = [s \in SUBSET DOMAIN batch |->
            IF s = {} THEN <<>> ELSE IncludedStep(iter[s \ {Max(s)}], batch[Max(s)])]

LEMMA IncludedIsTable ==
  ASSUME NEW batch
  PROVE  Included(batch) = (CHOOSE iter : IncludedTable(iter, batch))[DOMAIN batch]
BY DEF Included, FoldLeft, MapThenFoldSet, IncludedTable, IncludedStep

LEMMA IncludedSteps ==
  ASSUME NEW batch \in Seq(Txs), NEW n \in Nat, n = Len(batch)
  PROVE  \E F \in [0..n -> Seq(Txs)] :
           /\ F[0] = <<>> /\ F[n] = Included(batch)
           /\ \A i \in 1..n : F[i] = IncludedStep(F[i - 1], batch[i])
<1>1. PICK D : D = 1..n /\ DOMAIN batch = D /\ \A i \in D : batch[i] \in Txs
  OBVIOUS
<1>2. PICK step : step = [p \in (1..n) \X Seq(Txs) |-> IncludedStep(p[2], batch[p[1]])]
  OBVIOUS
<1>3. /\ step \in [(1..n) \X Seq(Txs) -> Seq(Txs)]
      /\ \A x \in 1..n, v \in Seq(Txs) : step[<<x, v>>] = IncludedStep(v, batch[x])
  <2>1. ASSUME NEW x \in 1..n, NEW v \in Seq(Txs)
        PROVE  IncludedStep(v, batch[x]) \in Seq(Txs)
    BY <1>1 DEF IncludedStep
  <2> QED
    BY <1>2, <2>1
<1>4. <<>> \in Seq(Txs)
  OBVIOUS
<1>5. PICK base : base = <<>> /\ base \in Seq(Txs)
  BY <1>4
<1>6. PICK iter \in [SUBSET (1..n) -> Seq(Txs)] : IsFold(iter, 1..n, base, step)
  BY <1>3, <1>5, FoldExists
<1>7. IncludedTable(iter, batch)
  <2>1. ASSUME NEW s \in SUBSET D, s # {}
        PROVE  step[<<Max(s), iter[s \ {Max(s)}]>>] = IncludedStep(iter[s \ {Max(s)}], batch[Max(s)])
    <3>1. PICK x, r : x = Max(s) /\ r = s \ {x}
      OBVIOUS
    <3>2. x \in 1..n /\ r \in SUBSET (1..n)
      BY <1>1, <2>1, <3>1, LastNumber
    <3>3. iter[r] \in Seq(Txs)
      BY <3>2
    <3> QED
      BY <1>3, <3>1, <3>2, <3>3
  <2>2. iter = [s \in SUBSET D |-> IF s = {} THEN base ELSE step[<<Max(s), iter[s \ {Max(s)}]>>]]
    BY <1>1, <1>6 DEF IsFold
  <2>3. iter = [s \in SUBSET D |-> IF s = {} THEN <<>>
                  ELSE IncludedStep(iter[s \ {Max(s)}], batch[Max(s)])]
    BY <1>5, <2>1, <2>2
  <2> QED
    BY <1>1, <2>3 DEF IncludedTable
<1>8. PICK it : IncludedTable(it, batch) /\ Included(batch) = it[D]
  BY <1>1, <1>7, IncludedIsTable
<1>9. PICK F : F = [i \in 0..n |-> it[1..i]]
  OBVIOUS
<1>10. \A s \in SUBSET D : it[s] = IF s = {} THEN <<>>
                             ELSE IncludedStep(it[s \ {Max(s)}], batch[Max(s)])
  BY <1>1, <1>8 DEF IncludedTable
<1>11. F[0] = <<>> /\ F[n] = Included(batch)
  <2>1. 1..0 = {} /\ 0 \in 0..n /\ n \in 0..n
    OBVIOUS
  <2> QED
    BY <1>1, <1>8, <1>9, <1>10, <2>1
<1>12. ASSUME NEW i \in 1..n
       PROVE  F[i] = IncludedStep(F[i - 1], batch[i])
  <2>1. PICK m \in Nat : m = i - 1 /\ i = m + 1
    OBVIOUS
  <2>2. PICK s : s = 1..i
    OBVIOUS
  <2>3. Max(s) = i /\ s \ {i} = 1..i - 1
    BY <2>1, <2>2, LastOfInterval
  <2>4. s \in SUBSET D /\ s # {}
    BY <1>1, <2>2
  <2>5. i \in 0..n /\ i - 1 \in 0..n
    OBVIOUS
  <2> QED
    BY <1>9, <1>10, <2>2, <2>3, <2>4, <2>5
<1>13. F \in [0..n -> Seq(Txs)]
  <2> DEFINE T == {i \in Nat : i <= n => F[i] \in Seq(Txs)}
  <2>1. 0 \in T
    <3>1. F[0] \in Seq(Txs)
      BY <1>4, <1>11
    <3> QED
      BY <3>1
  <2>2. ASSUME NEW i \in T
        PROVE  i + 1 \in T
    <3>1. CASE i + 1 <= n
      <4>1. i + 1 \in 1..n /\ (i + 1) - 1 = i /\ i <= n
        BY <3>1
      <4>2. PICK v \in Seq(Txs), t \in Txs : v = F[i] /\ t = batch[i + 1]
        BY <1>1, <4>1
      <4>3. F[i + 1] = IncludedStep(v, t)
        BY <1>12, <4>1, <4>2
      <4>4. F[i + 1] \in Seq(Txs)
        BY <4>3 DEF IncludedStep
      <4> QED
        BY <4>1, <4>4
    <3>2. CASE ~(i + 1 <= n)
      BY <3>2
    <3> QED
      BY <3>1, <3>2
  <2>3. T = Nat
    <3>1. T \in SUBSET Nat
      OBVIOUS
    <3> HIDE DEF T
    <3> QED
      BY <2>1, <2>2, <3>1, NumberInduction
  <2>4. \A i \in 0..n : F[i] \in Seq(Txs)
    <3>1. \A i \in 0..n : i \in T /\ i <= n
      BY <2>3
    <3> QED
      BY <3>1
  <2> QED
    BY <1>9, <2>4
<1> QED
  BY <1>11, <1>12, <1>13

RequeuedTable(iter, txs) ==
  iter = [s \in SUBSET DOMAIN txs |->
            IF s = {} THEN mempool ELSE Insert(iter[s \ {Max(s)}], utxos, txs[Max(s)])]

LEMMA RequeuedIsTable ==
  Requeued = (CHOOSE iter : RequeuedTable(iter, candidate.txs))[DOMAIN candidate.txs]
BY DEF Requeued, FoldLeft, MapThenFoldSet, RequeuedTable

(* What the miner puts back keeps the claims exact.                        *)
LEMMA RequeuedOK ==
  ASSUME PoolOK(mempool), candidate.txs \in Seq(Txs)
  PROVE  PoolOK(Requeued)
<1>0. PICK n \in Nat, txs \in Seq(Txs) : txs = candidate.txs /\ n = Len(txs)
  OBVIOUS
<1>1. PICK D : /\ txs = candidate.txs /\ n = Len(txs) /\ D = 1..n /\ DOMAIN txs = D
               /\ \A i \in D : txs[i] \in Txs
  BY <1>0
<1>2. PICK V : V = {p \in Pools : PoolOK(p)}
  OBVIOUS
<1>3. (\A p : p \in V <=> PoolOK(p)) /\ mempool \in V
  BY <1>2 DEF PoolOK
<1>4. PICK step : step = [p \in (1..n) \X V |-> Insert(p[2], utxos, txs[p[1]])]
  OBVIOUS
<1>5. \A x \in 1..n, v \in V : step[<<x, v>>] = Insert(v, utxos, txs[x]) /\ Insert(v, utxos, txs[x]) \in V
  BY <1>1, <1>3, <1>4, InsertKeepsPool
<1>6. step \in [(1..n) \X V -> V]
  BY <1>4, <1>5
<1>7. PICK iter \in [SUBSET (1..n) -> V] : IsFold(iter, 1..n, mempool, step)
  BY <1>3, <1>6, FoldExists
<1>8. RequeuedTable(iter, txs)
  <2>1. ASSUME NEW s \in SUBSET D, s # {}
        PROVE  step[<<Max(s), iter[s \ {Max(s)}]>>] = Insert(iter[s \ {Max(s)}], utxos, txs[Max(s)])
    <3>1. PICK x, r : x = Max(s) /\ r = s \ {x}
      OBVIOUS
    <3>2. x \in 1..n /\ r \in SUBSET (1..n)
      BY <1>1, <2>1, <3>1, LastNumber
    <3>3. iter[r] \in V
      BY <3>2
    <3> QED
      BY <1>5, <3>1, <3>2, <3>3
  <2>2. iter = [s \in SUBSET D |-> IF s = {} THEN mempool ELSE step[<<Max(s), iter[s \ {Max(s)}]>>]]
    BY <1>1, <1>7 DEF IsFold
  <2>3. iter = [s \in SUBSET D |-> IF s = {} THEN mempool
                  ELSE Insert(iter[s \ {Max(s)}], utxos, txs[Max(s)])]
    BY <2>1, <2>2
  <2> QED
    BY <1>1, <2>3 DEF RequeuedTable
<1>9. PICK it : RequeuedTable(it, txs) /\ Requeued = it[D]
  BY <1>1, <1>8, RequeuedIsTable
<1>10. \A s \in SUBSET D : it[s] = IF s = {} THEN mempool
                             ELSE Insert(it[s \ {Max(s)}], utxos, txs[Max(s)])
  BY <1>1, <1>9 DEF RequeuedTable
<1>11. PICK T : T = {i \in Nat : i <= n => it[1..i] \in V}
  OBVIOUS
<1>12. 0 \in T
  <2>1. 1..0 = {}
    OBVIOUS
  <2> QED
    BY <1>3, <1>10, <1>11, <2>1
<1>13. ASSUME NEW i \in T
       PROVE  i + 1 \in T
  <2>1. CASE i + 1 <= n
    <3>1. PICK s : s = 1..i + 1
      OBVIOUS
    <3>2. i \in Nat /\ i <= n /\ i + 1 \in 1..n /\ it[1..i] \in V
      BY <1>11, <2>1
    <3>3. Max(s) = i + 1 /\ s \ {i + 1} = 1..i
      BY <3>1, <3>2, LastOfInterval
    <3>4. s \in SUBSET D /\ s # {}
      BY <1>1, <3>1, <3>2
    <3>5. it[s] = Insert(it[1..i], utxos, txs[i + 1])
      BY <1>10, <3>3, <3>4
    <3>6. it[s] \in V
      BY <1>5, <3>2, <3>5
    <3> QED
      BY <1>11, <3>1, <3>2, <3>6
  <2>2. CASE ~(i + 1 <= n)
    BY <1>11, <2>2
  <2> QED
    BY <2>1, <2>2
<1>14. T = Nat
  <2>1. T \in SUBSET Nat
    BY <1>11
  <2> QED
    BY <1>12, <1>13, <2>1, NumberInduction
<1>15. it[D] \in V
  BY <1>1, <1>11, <1>14
<1> QED
  BY <1>3, <1>9, <1>15

-----------------------------------------------------------------------------
LEMMA AppendOne ==
  ASSUME NEW S, NEW f, NEW t \in S, NEW l, NEW g, f \in Seq(S), Len(f) = l, g = Append(f, t)
  PROVE  g \in Seq(S) /\ Len(g) = l + 1 /\ g[l + 1] = t /\ \A i \in 1..l : g[i] = f[i]
  BY AppendProperties

(* A candidate holds a few transactions, each of which can be applied      *)
(* after those before it.                                                  *)
LEMMA IncludedApply ==
  ASSUME PoolOK(mempool), NEW max \in Nat,
         NEW txs, txs = Included(Batch(mempool, max))
  PROVE  /\ txs \in Seq(Txs) /\ Len(txs) <= max
         /\ \A i \in 1..Len(txs) :
              txs[i] \in Txs /\ Applies(txs[i], ViewAfter(utxos, Between(txs, 1, i - 1)))
<1>1. PICK batch \in Seq(Txs), n \in Nat : batch = Batch(mempool, max) /\ n = Len(batch) /\ n <= max
  BY BatchProperties DEF BatchFacts
<1>2. PICK F \in [0..n -> Seq(Txs)] :
        /\ F[0] = <<>> /\ F[n] = Included(batch)
        /\ \A i \in 1..n : F[i] = IncludedStep(F[i - 1], batch[i])
  BY <1>1, IncludedSteps
<1> DEFINE Good(f, k) == /\ f \in Seq(Txs) /\ Len(f) <= k
                         /\ \A i \in 1..Len(f) : Applies(f[i], ViewAfter(utxos, Between(f, 1, i - 1)))
<1>3. Good(F[0], 0)
  <2>1. Len(F[0]) = 0 /\ F[0] \in Seq(Txs)
    BY <1>2
  <2> QED
    BY <2>1
<1>4. ASSUME NEW f, NEW k \in Nat, NEW t \in Txs, Good(f, k)
      PROVE  Good(IncludedStep(f, t), k + 1)
  <2>1. PICK l \in Nat : l = Len(f) /\ l <= k /\ DOMAIN f = 1..l
    BY <1>4
  <2>2. CASE ~Applies(t, ViewAfter(utxos, ToSet(f)))
    BY <1>4, <2>1, <2>2 DEF IncludedStep
  <2>3. CASE Applies(t, ViewAfter(utxos, ToSet(f)))
    <3>1. PICK g : g = Append(f, t) /\ g = IncludedStep(f, t)
      BY <2>3 DEF IncludedStep
    <3>2. /\ g \in Seq(Txs) /\ Len(g) = l + 1 /\ g[l + 1] = t /\ \A i \in 1..l : g[i] = f[i]
      <4>1. f \in Seq(Txs) /\ Len(f) = l /\ DOMAIN f = 1..l
        BY <1>4, <2>1
      <4> HIDE DEF Good
      <4>2. g = Append(f, t)
        BY <3>1
      <4> QED
        BY <4>1, <4>2, AppendOne
    <3>3. \A i \in 1..l + 1 : Between(g, 1, i - 1) = Between(f, 1, i - 1)
      <4>1. \A i \in 1..l + 1 : \A j \in 1..i - 1 : j \in 1..l
        BY <2>1
      <4> QED
        BY <3>2, <4>1 DEF Between
    <3>4. Between(f, 1, l) = ToSet(f)
      BY <2>1 DEF Between, ToSet
    <3>5. ASSUME NEW i \in 1..l + 1
          PROVE  Applies(g[i], ViewAfter(utxos, Between(g, 1, i - 1)))
      <4>1. CASE i = l + 1
        <5>1. i - 1 = l
          BY <2>1, <4>1
        <5> QED
          BY <2>3, <3>2, <3>3, <3>4, <4>1, <5>1
      <4>2. CASE i # l + 1
        <5>1. i \in 1..l
          BY <2>1, <4>2
        <5> QED
          BY <1>4, <2>1, <3>2, <3>3, <5>1
      <4> QED
        BY <4>1, <4>2
    <3>6. Len(g) <= k + 1
      BY <2>1, <3>2
    <3>7. Good(g, k + 1)
      BY <3>2, <3>5, <3>6
    <3> HIDE DEF Good
    <3> QED
      BY <3>1, <3>7
  <2> QED
    BY <2>2, <2>3
<1>5. PICK T : T = {k \in Nat : k <= n => Good(F[k], k)}
  OBVIOUS
<1>6. 0 \in T
  BY <1>3, <1>5
<1>7. ASSUME NEW k \in T
      PROVE  k + 1 \in T
  <2>1. CASE k + 1 <= n
    <3>1. k \in Nat /\ k <= n /\ k + 1 \in 1..n /\ (k + 1) - 1 = k /\ batch[k + 1] \in Txs
      BY <1>1, <1>5, <2>1
    <3> HIDE DEF Good
    <3>2. Good(F[k], k) /\ F[k + 1] = IncludedStep(F[k], batch[k + 1])
      BY <1>2, <1>5, <3>1
    <3>3. Good(F[k + 1], k + 1)
      BY <1>4, <3>1, <3>2
    <3> QED
      BY <1>5, <3>1, <3>3
  <2>2. CASE ~(k + 1 <= n)
    BY <1>5, <2>2
  <2> QED
    BY <2>1, <2>2
<1>8. T = Nat
  <2>1. T \in SUBSET Nat
    BY <1>5
  <2> QED
    BY <1>6, <1>7, <2>1, NumberInduction
<1>9. Good(txs, n)
  <2> HIDE DEF Good
  <2> QED
    BY <1>1, <1>2, <1>5, <1>8
<1>10. Len(txs) \in Nat /\ Len(txs) <= n
  BY <1>9
<1> QED
  BY <1>1, <1>9, <1>10

LEMMA FeeType ==
  ASSUME NEW t \in Txs, NEW view, view \subseteq OutputsOf(Txs), Applies(t, view)
  PROVE  Fee(t) \in Nat
<1>1. PICK f, n : f = TxBody[t].inputs /\ n = Len(f) /\ n \in Nat /\ DOMAIN f = 1..n
                  /\ f \in [1..n -> OutPoint]
  <2>1. TxBody[t].inputs \in Seq(OutPoint)
    BY TypesAssumption DEF Transaction
  <2> QED
    BY <2>1
<1>2. PICK S : S = Spends(t) /\ S = {f[i] : i \in 1..n} /\ S \subseteq view
  <2>1. ~TxBody[t].coinbase /\ Spends(t) \subseteq view
    BY DEF Applies
  <2>2. Spends(t) = {f[i] : i \in 1..n}
    BY <1>1, <2>1 DEF Spends
  <2> QED
    BY <2>1, <2>2
<1>3. IsFiniteSet(S)
  <2>1. f \in Surjection(1..n, S) /\ IsFiniteSet(1..n)
    <3>1. IsFiniteSet(1..n)
      BY <1>1, FS_Interval
    <3> QED
      BY <1>1, <1>2, <3>1 DEF Surjection
  <2> QED
    BY <2>1, FS_Surjection
<1>4. Coins(S) /\ Applies(t, S)
  BY <1>2, <1>3 DEF Coins, Applies
<1> QED
  BY <1>4, ValueAfterTx

LEMMA MaxAmountType == MaxAmount \in Nat
<1>1. Power(2, AmountBits) \in Nat \ {0}
  BY ConsensusAssumption, PowerPositive
<1> QED
  BY <1>1 DEF MaxAmount

(* The mempool's claims are exact, and the candidate is one.               *)
CandidateTyped ==
  candidate # NoCandidate =>
    /\ candidate.parent \in Blocks /\ candidate.txs \in Seq(Txs)
    /\ Len(candidate.txs) <= MaxTxsPerBlock
    /\ candidate.reward \in 0..MaxAmount

PoolInv == PoolOK(mempool) /\ CandidateTyped

LEMMA UnchangedPool == PoolInv /\ UNCHANGED <<mempool, candidate>> => PoolInv'
BY DEF PoolInv, CandidateTyped, PoolOK, Pools

LEMMA NextPoolOK ==
  ASSUME NEW pool, PoolOK(pool), mempool' = pool
  PROVE  PoolOK(mempool)'
BY DEF PoolOK

LEMMA ViewExists ==
  ASSUME OutputsExist, NEW S \in SUBSET Txs
  PROVE  ViewAfter(utxos, S) \subseteq OutputsOf(Txs)
BY DEF OutputsExist, ViewAfter, OutputsOf

LEMMA BuildTyped ==
  ASSUME IndexInv, OutputsExist, PoolInv, BuildCandidate
  PROVE  CandidateTyped'
<1>1. PICK txs, fees, reward :
        /\ txs = Included(Batch(mempool, MaxTxsPerBlock))
        /\ fees = SumFunction([i \in DOMAIN txs |-> Fee(txs[i])])
        /\ reward = AtMost(SubsidyForHeight(latest + 1) + fees, MaxAmount)
  OBVIOUS
<1>2. candidate' = [parent |-> blocks[latest], height |-> latest + 1,
                    target |-> TargetAtTip, txs |-> txs, reward |-> reward]
  BY <1>1 DEF BuildCandidate
<1>3. /\ txs \in Seq(Txs) /\ Len(txs) <= MaxTxsPerBlock
      /\ \A i \in 1..Len(txs) :
              txs[i] \in Txs /\ Applies(txs[i], ViewAfter(utxos, Between(txs, 1, i - 1)))
  BY <1>1, IncludedApply, NodeAssumption DEF PoolInv
<1>4. fees \in Nat
  <2>1. PICK n, D : n \in Nat /\ n = Len(txs) /\ D = 1..n /\ DOMAIN txs = D
    BY <1>3
  <2>2. ASSUME NEW i \in D
        PROVE  Fee(txs[i]) \in Nat
    <3>1. Between(txs, 1, i - 1) \in SUBSET Txs
      <4>1. \A j \in 1..i - 1 : j \in 1..n
        BY <2>1
      <4> QED
        BY <1>3, <2>1, <4>1 DEF Between
    <3>2. PICK view : view = ViewAfter(utxos, Between(txs, 1, i - 1)) /\ view \subseteq OutputsOf(Txs)
      BY <3>1, ViewExists
    <3> QED
      BY <1>3, <2>1, <3>2, FeeType
  <2>3. PICK f : f = [i \in D |-> Fee(txs[i])]
    OBVIOUS
  <2>4. IsFiniteSet(D) /\ f \in [D -> Nat]
    <3>1. IsFiniteSet(1..n)
      BY <2>1, FS_Interval
    <3> QED
      BY <2>1, <2>2, <2>3, <3>1
  <2> QED
    BY <1>1, <2>1, <2>3, <2>4, SumNatural
<1>5. latest \in Nat
  BY DEF BuildCandidate, LockFree, IndexInv, ReorgOK
<1>6. SubsidyForHeight(latest + 1) \in Nat
  BY <1>5, SubsidyType
<1>7. reward \in 0..MaxAmount
  BY <1>1, <1>4, <1>6, MaxAmountType DEF AtMost
<1>8. blocks[latest] \in Blocks
  BY <1>5 DEF IndexInv, IndexesAgree, TypeOK, StorageTypeOK
<1>9. /\ candidate'.parent = blocks[latest] /\ candidate'.txs = txs
      /\ candidate'.reward = reward
  BY <1>2
<1> QED
  BY <1>3, <1>7, <1>8, <1>9 DEF CandidateTyped

LEMMA NextPool == IndexInv /\ OutputsExist /\ PoolInv /\ [NodeNext]_nodeVars => PoolInv'
<1> SUFFICES ASSUME IndexInv, OutputsExist, PoolInv, [NodeNext]_nodeVars PROVE PoolInv'
  OBVIOUS
<1>0. ASSUME mempool' = EmptyMempool, candidate' = NoCandidate PROVE PoolInv'
  BY <1>0, EmptyPoolOK, NextPoolOK DEF PoolInv, CandidateTyped
<1>1. CASE ChainStep
  BY <1>0, <1>1, UnchangedPool DEF ChainStep
<1>2. ASSUME NEW t \in Txs, Submit(t) PROVE PoolInv'
  <2>1. PoolOK(Insert(mempool, utxos, t))
    BY InsertKeepsPool DEF PoolInv
  <2>2. mempool' = Insert(mempool, utxos, t) /\ candidate' = candidate
    BY <1>2 DEF Submit
  <2> QED
    BY <2>1, <2>2, NextPoolOK DEF PoolInv, CandidateTyped
<1>3. CASE BuildCandidate
  <2>1. PoolOK(AfterBatch(mempool, MaxTxsPerBlock))
    BY BatchKeepsPool, NodeAssumption DEF PoolInv
  <2>2. mempool' = AfterBatch(mempool, MaxTxsPerBlock)
    BY <1>3 DEF BuildCandidate
  <2> QED
    BY <1>3, <2>1, <2>2, NextPoolOK, BuildTyped DEF PoolInv
<1>4. CASE RequeueCandidate
  <2>1. PoolOK(Requeued)
    BY <1>4, RequeuedOK DEF RequeueCandidate, PoolInv, CandidateTyped
  <2>2. mempool' = Requeued /\ candidate' = NoCandidate
    BY <1>4 DEF RequeueCandidate
  <2> QED
    BY <2>1, <2>2, NextPoolOK DEF PoolInv, CandidateTyped
<1>5. ASSUME NEW b \in Blocks, SubmitOwnBlock(b) PROVE PoolInv'
  <2>1. mempool' = mempool /\ candidate' = NoCandidate
    BY <1>5 DEF SubmitOwnBlock
  <2> QED
    BY <2>1, NextPoolOK DEF PoolInv, CandidateTyped
<1>6. CASE UNCHANGED nodeVars
  BY <1>6, UnchangedPool DEF nodeVars
<1> QED
  BY <1>1, <1>2, <1>3, <1>4, <1>5, <1>6 DEF NodeNext, MinerDone

LEMMA PoolInvariant == NodeSpec => []PoolInv
<1>1. NodeInit => PoolInv
  BY EmptyPoolOK DEF NodeInit, PoolInv, CandidateTyped, PoolOK, Pools
<1> QED
  BY <1>1, NextPool, NodeIsChain, IndexInvariant, OutputsInvariant, PTL DEF NodeSpec

(* The chain, the pool and the candidate of a node keep their types,       *)
(* whatever the tasks do in between: the pool never outgrows its size, not *)
(* even when a candidate that failed is requeued, a candidate has a        *)
(* block's worth of transactions at most, and its reward has the width of  *)
(* an amount.                                                              *)
THEOREM NodeTypeCorrect == NodeSpec => []NodeTypeOK
<1>1. IndexInv /\ PoolInv => NodeTypeOK
  <2> SUFFICES ASSUME IndexInv, PoolInv PROVE NodeTypeOK
    OBVIOUS
  <2>1. MempoolTypeOK
    BY PoolTypes DEF PoolInv, PoolOK, Pools, MempoolTypeOK
  <2> QED
    BY <2>1 DEF NodeTypeOK, IndexInv, PoolInv, CandidateTyped
<1> QED
  BY <1>1, NodeIsChain, IndexInvariant, PoolInvariant, PTL

(* insert and next_batch keep the set of claimed outpoints equal to what   *)
(* the pending transactions spend, for any size of the pool and any order  *)
(* of insertions, batches and requeues: no claim outlives its transaction, *)
(* which would keep an output from ever being spent, and no two            *)
(* transactions share one.                                                 *)
THEOREM ClaimsAreExact == NodeSpec => []ClaimsExact
<1>1. PoolInv => ClaimsExact
  BY DEF PoolInv, PoolOK, ClaimsExact, Pending
<1> QED
  BY <1>1, PoolInvariant, PTL

-----------------------------------------------------------------------------
(* The whole supply fits the width of an amount: the genesis file of a     *)
(* network that runs on past its last halving.                             *)
SupplyFits == \A n \in Nat : Premine + Subsidies(n) <= MaxAmount

(* A chain of blocks, each on its parent.                                  *)
Linked(f, n) ==
  \A h \in 0..n :
    /\ f[h] \in Blocks /\ Height(f[h]) = h
    /\ h > 0 => Parent(f[h]) = f[h - 1]

(* The candidate is one that was built on this chain.                      *)
CandidateOn(f, n) ==
  /\ Linked(f, n)
  /\ candidate.parent = f[n] /\ candidate.height = n + 1
  /\ candidate.target = TargetAt(f, n + 1)
  /\ \A i \in 1..Len(candidate.txs) :
       Applies(candidate.txs[i],
               ViewAfter(CoinsOf(TxsBelow(f, n + 1)), Between(candidate.txs, 1, i - 1)))
  /\ candidate.reward = SubsidyForHeight(n + 1)
                        + FeesBetween(candidate.txs, 1, Len(candidate.txs))
  /\ candidate.reward <= MaxAmount
  /\ \A i \in 1..Len(candidate.txs) : Fee(candidate.txs[i]) \in Nat

(* The candidate was built on some chain, which need not be the local one  *)
(* any more.                                                               *)
CandidateInv == candidate # NoCandidate => \E f : \E n \in Nat : CandidateOn(f, n)

(* A block determines the chain under it.                                  *)
LEMMA LinkedAlike ==
  ASSUME NEW f, NEW g, NEW n \in Nat, Linked(f, n), Linked(g, n), f[n] = g[n]
  PROVE  \A h \in 0..n : f[h] = g[h]
<1>1. PICK T : T = {k \in Nat : k <= n => f[n - k] = g[n - k]}
  OBVIOUS
<1>2. 0 \in T
  <2>1. n - 0 = n
    OBVIOUS
  <2> QED
    BY <1>1, <2>1
<1>3. ASSUME NEW k \in T
      PROVE  k + 1 \in T
  <2>1. CASE k + 1 <= n
    <3>1. PICK h \in 1..n : h = n - k /\ h - 1 = n - (k + 1) /\ f[h] = g[h]
      BY <1>1, <2>1
    <3>2. Parent(f[h]) = f[h - 1] /\ Parent(g[h]) = g[h - 1]
      BY DEF Linked
    <3>3. f[n - (k + 1)] = g[n - (k + 1)]
      BY <3>1, <3>2
    <3> QED
      BY <1>1, <3>3
  <2>2. CASE ~(k + 1 <= n)
    BY <1>1, <2>2
  <2> QED
    BY <2>1, <2>2
<1>4. T = Nat
  <2>1. T \in SUBSET Nat
    BY <1>1
  <2> QED
    BY <1>2, <1>3, <2>1, NumberInduction
<1>5. ASSUME NEW h \in 0..n
      PROVE  f[h] = g[h]
  <2>1. PICK k \in Nat : k = n - h /\ k <= n /\ n - k = h
    OBVIOUS
  <2>2. f[n - k] = g[n - k]
    BY <1>1, <1>4, <2>1
  <2> QED
    BY <2>1, <2>2
<1> QED
  BY <1>5

(* The database, seen as a chain.                                          *)
LEMMA LocalLinked ==
  ASSUME NodeInv, latest \in Nat, phase = "running"
  PROVE  /\ Linked(blocks, latest)
         /\ utxos = CoinsOf(TxsBelow(blocks, latest + 1))
         /\ TargetAtTip = TargetAt(blocks, latest + 1)
         /\ Coins(utxos) /\ ValueOf(utxos) <= Premine + Subsidies(latest)
<1>0. IndexInv /\ CoinsInv /\ RestoreInv
  BY DEF NodeInv
<1>1. DOMAIN blocks = 0..latest
  BY <1>0 DEF IndexInv, IndexesAgree
<1>2. \A h \in 0..latest : blocks[h] \in Blocks
  BY <1>0, <1>1 DEF IndexInv, TypeOK, StorageTypeOK
<1>3. Linked(blocks, latest)
  BY <1>0, <1>2 DEF IndexInv, IndexesAgree, Linked
<1>4. Below(latest + 1) = TxsBelow(blocks, latest + 1)
  BY DEF Below, TxsBelow
<1>5. utxos = CoinsOf(TxsBelow(blocks, latest + 1))
  BY <1>0, <1>4 DEF CoinsInv
<1>6. TargetAtTip = TargetAt(blocks, latest + 1)
  <2>1. PICK k : k = latest + 1 /\ 0..k - 1 = 0..latest
    OBVIOUS
  <2> QED
    BY <1>1, <2>1 DEF TargetAtTip, TargetAt
<1>7. blocks[0] = GenesisBlock /\ \A k \in 1..latest : Fits(blocks, k)
  BY <1>0 DEF CoinsInv, BlocksSound, RestoreInv, LocalFits
<1>8. Coins(utxos) /\ ValueOf(utxos) <= Premine + Subsidies(latest)
  BY <1>2, <1>5, <1>7, SupplyOfChain
<1> QED
  BY <1>3, <1>5, <1>6, <1>8

LEMMA BuildInv ==
  ASSUME SupplyFits, NodeInv, PoolInv, BuildCandidate
  PROVE  CandidateInv'
<1>0. latest \in Nat /\ phase = "running" /\ IndexInv
  BY DEF BuildCandidate, LockFree, NodeInv, IndexInv, ReorgOK
<1>1. /\ Linked(blocks, latest)
      /\ utxos = CoinsOf(TxsBelow(blocks, latest + 1))
      /\ TargetAtTip = TargetAt(blocks, latest + 1)
      /\ Coins(utxos) /\ ValueOf(utxos) <= Premine + Subsidies(latest)
  BY <1>0, LocalLinked
<1>2. PICK txs, fees, reward :
        /\ txs = Included(Batch(mempool, MaxTxsPerBlock))
        /\ fees = SumFunction([i \in DOMAIN txs |-> Fee(txs[i])])
        /\ reward = AtMost(SubsidyForHeight(latest + 1) + fees, MaxAmount)
  OBVIOUS
<1>3. candidate' = [parent |-> blocks[latest], height |-> latest + 1,
                    target |-> TargetAtTip, txs |-> txs, reward |-> reward]
  BY <1>2 DEF BuildCandidate
<1>4. PICK n \in Nat : n = Len(txs) /\ txs \in Seq(Txs) /\ DOMAIN txs = 1..n
      /\ \A i \in 1..n :
           txs[i] \in Txs /\ Applies(txs[i], ViewAfter(utxos, Between(txs, 1, i - 1)))
  <2>1. /\ txs \in Seq(Txs)
        /\ \A i \in 1..Len(txs) :
             txs[i] \in Txs /\ Applies(txs[i], ViewAfter(utxos, Between(txs, 1, i - 1)))
    BY <1>2, IncludedApply, NodeAssumption DEF PoolInv
  <2>2. Len(txs) \in Nat /\ DOMAIN txs = 1..Len(txs)
    BY <2>1
  <2> QED
    BY <2>1, <2>2
<1>5. /\ ValueOf(ViewAfter(utxos, Between(txs, 1, n))) + FeesBetween(txs, 1, n) <= ValueOf(utxos)
      /\ Coins(ViewAfter(utxos, Between(txs, 1, n)))
      /\ FeesBetween(txs, 1, n) \in Nat /\ \A i \in 1..n : Fee(txs[i]) \in Nat
  <2>1. 1 \in Nat \ {0} /\ 1 - 1 <= n
    OBVIOUS
  <2> QED
    BY <1>1, <1>4, <2>1, ValueAfterTxs
<1>6. fees = FeesBetween(txs, 1, n)
  BY <1>2, <1>4 DEF FeesBetween
<1>7. fees <= ValueOf(utxos) /\ ValueOf(utxos) \in Nat
  <2>1. PICK view : view = ViewAfter(utxos, Between(txs, 1, n))
    OBVIOUS
  <2>2. ValueOf(view) \in Nat /\ ValueOf(utxos) \in Nat
    BY <1>1, <1>5, <2>1, ValueType
  <2> QED
    BY <1>5, <1>6, <2>1, <2>2
<1>8. reward = SubsidyForHeight(latest + 1) + fees /\ reward <= MaxAmount
  <2>1. PICK s \in Nat : s = SubsidyForHeight(latest + 1)
    BY <1>0, SubsidyType
  <2>2. Subsidies(latest + 1) = Subsidies(latest) + s /\ Subsidies(latest) \in Nat
    BY <1>0, <2>1, SubsidiesGrow
  <2>3. Premine + Subsidies(latest + 1) <= MaxAmount
    <3>1. latest + 1 \in Nat
      BY <1>0
    <3> QED
      BY <3>1 DEF SupplyFits
  <2>4. s + fees <= MaxAmount
    BY <1>1, <1>5, <1>6, <1>7, <2>2, <2>3, PremineValue, MaxAmountType
  <2> QED
    BY <1>2, <1>5, <1>6, <2>1, <2>4, MaxAmountType DEF AtMost
<1>9. /\ candidate'.parent = blocks[latest] /\ candidate'.height = latest + 1
      /\ candidate'.target = TargetAtTip /\ candidate'.txs = txs /\ candidate'.reward = reward
  BY <1>3
<1>10. PICK f, k : f = blocks /\ k = latest /\ k \in Nat
  BY <1>0
<1>11. CandidateOn(f, k)'
  BY <1>1, <1>4, <1>5, <1>6, <1>8, <1>9, <1>10 DEF CandidateOn
<1>12. \E g : \E m \in Nat : CandidateOn(g, m)'
  BY <1>10, <1>11
<1> QED
  BY <1>12 DEF CandidateInv

(* A block that was mined from a candidate carries its transactions.       *)
LEMMA MinedBody ==
  ASSUME NEW b \in Blocks, NEW txs \in Seq(Txs), Body[b] # <<>>, Tail(Body[b]) = txs
  PROVE  /\ Len(txs) \in Nat /\ Len(Body[b]) = Len(txs) + 1
         /\ Body[b][1] \in Txs
         /\ \A i \in 2..Len(Body[b]) :
              /\ i - 1 \in 1..Len(txs) /\ Body[b][i] = txs[i - 1]
              /\ {Body[b][j] : j \in 2..i - 1} = Between(txs, 1, (i - 1) - 1)
<1>1. PICK body, n : body = Body[b] /\ n = Len(txs)
  OBVIOUS
<1>2. body \in Seq(Txs) /\ body # <<>> /\ n \in Nat
  BY <1>1, TypesAssumption
<1>3. Len(body) \in Nat \ {0} /\ DOMAIN body = 1..Len(body) /\ body[1] \in Txs
  BY <1>2
<1>4. Len(txs) = Len(body) - 1 /\ \A i \in 1..Len(txs) : txs[i] = body[i + 1]
  BY <1>1, <1>2, HeadTailProperties
<1>5. Len(body) = n + 1
  BY <1>1, <1>3, <1>4
<1>6. \A i \in 2..n + 1 : i - 1 \in 1..n /\ body[i] = txs[i - 1]
  <2>1. \A i \in 2..n + 1 : i - 1 \in 1..n /\ (i - 1) + 1 = i
    BY <1>2
  <2> QED
    BY <1>1, <1>4, <2>1
<1>7. ASSUME NEW i \in 2..n + 1
      PROVE  {body[j] : j \in 2..i - 1} = Between(txs, 1, (i - 1) - 1)
  <2>1. \A j \in 2..i - 1 : j - 1 \in 1..(i - 1) - 1 /\ body[j] = txs[j - 1]
    BY <1>2, <1>6
  <2>2. \A j \in 1..(i - 1) - 1 : j + 1 \in 2..i - 1 /\ body[j + 1] = txs[j]
    <3>1. \A j \in 1..(i - 1) - 1 : j + 1 \in 2..i - 1 /\ j + 1 \in 2..n + 1 /\ (j + 1) - 1 = j
      BY <1>2
    <3> QED
      BY <1>6, <3>1
  <2>3. PICK S, T : S = {body[j] : j \in 2..i - 1} /\ T = {txs[j] : j \in 1..(i - 1) - 1}
    OBVIOUS
  <2>4. S \subseteq T
    BY <2>1, <2>3
  <2>5. T \subseteq S
    BY <2>2, <2>3
  <2> QED
    BY <2>3, <2>4, <2>5 DEF Between
<1> QED
  BY <1>1, <1>2, <1>3, <1>5, <1>6, <1>7

LEMMA MinedFees ==
  ASSUME NEW b \in Blocks, NEW txs \in Seq(Txs), Body[b] # <<>>, Tail(Body[b]) = txs,
         \A i \in 1..Len(txs) : Fee(txs[i]) \in Nat
  PROVE  FeesOf(b) = FeesBetween(txs, 1, Len(txs))
<1>1. PICK n \in Nat : n = Len(txs) /\ Len(Body[b]) = n + 1
        /\ \A i \in 2..n + 1 : i - 1 \in 1..n /\ Body[b][i] = txs[i - 1]
  BY MinedBody
<1>2. PICK D, E : D = 2..n + 1 /\ E = 1..n
  OBVIOUS
<1>4. PICK f, h : f = [j \in E |-> Fee(txs[j])] /\ h = [i \in D |-> Fee(Body[b][i])]
  OBVIOUS
<1>5. f \in [E -> Int]
  BY <1>1, <1>2, <1>4
<1>6. PICK g : g = [i \in D |-> i - 1] /\ Renames(g, D, E)
  BY <1>2, ShiftRenames
<1>7. h \in [D -> Int] /\ \A i \in D : h[i] = f[g[i]]
  <2>1. \A i \in D : i - 1 \in E /\ h[i] = Fee(txs[i - 1]) /\ f[i - 1] = Fee(txs[i - 1]) /\ g[i] = i - 1
    BY <1>1, <1>2, <1>4, <1>6
  <2>2. \A i \in D : h[i] \in Int
    BY <1>1, <1>2, <2>1
  <2> QED
    BY <1>4, <2>1, <2>2
<1>8. SumFunction(f) = SumFunction(h)
  <2>1. h \in [D -> Int]
    BY <1>7
  <2>2. \A i \in D : h[i] = f[g[i]]
    BY <1>7
  <2>3. Renames(g, D, E)
    BY <1>6
  <2> QED
    BY <1>5, <2>1, <2>2, <2>3, SumReordered
<1> QED
  BY <1>1, <1>2, <1>4, <1>8 DEF FeesOf, FeesBetween

LEMMA OwnBlockFits ==
  ASSUME NodeInv, PoolInv, CandidateInv, LockFree, candidate # NoCandidate,
         blocks[latest] = candidate.parent, NEW b \in Blocks, Mined(b)
  PROVE  NewTipOk(b)
<1>0. latest \in Nat /\ phase = "running"
  BY DEF LockFree, NodeInv, IndexInv, ReorgOK
<1>1. /\ Linked(blocks, latest)
      /\ utxos = CoinsOf(TxsBelow(blocks, latest + 1))
      /\ TargetAtTip = TargetAt(blocks, latest + 1)
  BY <1>0, LocalLinked
<1>2. PICK f : \E n \in Nat : CandidateOn(f, n)
  BY DEF CandidateInv
<1>3. PICK n \in Nat : CandidateOn(f, n)
  BY <1>2
<1>4. n = latest
  <2>1. n \in 0..n /\ latest \in 0..latest
    BY <1>0
  <2>2. Height(f[n]) = n /\ f[n] = candidate.parent /\ Height(blocks[latest]) = latest
    BY <1>1, <1>3, <2>1 DEF CandidateOn, Linked
  <2> QED
    BY <2>2
<1>5. \A h \in 0..n : f[h] = blocks[h]
  <2>1. Linked(f, n) /\ Linked(blocks, n) /\ f[n] = blocks[n]
    BY <1>1, <1>3, <1>4 DEF CandidateOn
  <2>2. PICK g : g = blocks
    OBVIOUS
  <2> QED
    BY <2>1, <2>2, LinkedAlike
<1>6. TxsBelow(f, n + 1) = TxsBelow(blocks, n + 1) /\ TargetAt(f, n + 1) = TargetAt(blocks, n + 1)
  <2>1. 0..(n + 1) - 1 = 0..n
    OBVIOUS
  <2> QED
    BY <1>5, <2>1 DEF TxsBelow, TargetAt
<1>7a. PICK txs \in Seq(Txs) : txs = candidate.txs
  BY DEF PoolInv, CandidateTyped
<1>7. PICK reward : txs = candidate.txs /\ reward = candidate.reward
  BY <1>7a
<1>8. /\ candidate.parent = blocks[latest] /\ candidate.height = latest + 1
      /\ candidate.target = TargetAtTip
      /\ reward = SubsidyForHeight(latest + 1) + FeesBetween(txs, 1, Len(txs))
      /\ reward <= MaxAmount
  BY <1>1, <1>3, <1>4, <1>6, <1>7 DEF CandidateOn
<1>9. \A i \in 1..Len(txs) : Applies(txs[i], ViewAfter(utxos, Between(txs, 1, i - 1)))
                             /\ Fee(txs[i]) \in Nat
  BY <1>1, <1>3, <1>4, <1>6, <1>7 DEF CandidateOn
<1>10. LinksToTip(b)
  BY <1>8 DEF Mined, LinksToTip
<1>11. /\ VerifyPow(Header[b].powHash, Header[b].target) /\ Header[b].target = TargetAtTip
       /\ Header[b].txRootOk /\ Body[b] # <<>> /\ Tail(Body[b]) = txs
       /\ Height(b) = latest + 1
  BY <1>7, <1>8 DEF Mined
<1>12. ASSUME NEW i \in 2..Len(Body[b])
       PROVE  Applies(Body[b][i], ViewBefore(utxos, b, i))
  <2>1. /\ i - 1 \in 1..Len(txs) /\ Body[b][i] = txs[i - 1]
        /\ {Body[b][j] : j \in 2..i - 1} = Between(txs, 1, (i - 1) - 1)
    BY <1>11, MinedBody
  <2> QED
    BY <1>9, <2>1 DEF ViewBefore
<1>13. CoinbaseAllowance(b) = reward
  <2>1. FeesOf(b) = FeesBetween(txs, 1, Len(txs))
    BY <1>9, <1>11, MinedFees
  <2> QED
    BY <1>8, <1>11, <2>1 DEF CoinbaseAllowance
<1>14. CoinbaseApplies(Body[b][1], Height(b), CoinbaseAllowance(b))
  <2>1. reward \in Int
    BY <1>7, MaxAmountType DEF PoolInv, CandidateTyped
  <2>2. TxBody[Body[b][1]].outputs = <<reward>>
    BY <1>7 DEF Mined
  <2>3. TotalOut(Body[b][1]) = reward
    BY <2>1, <2>2, SumOfOne DEF TotalOut
  <2>4. TxBody[Body[b][1]].coinbase /\ TxBody[Body[b][1]].claimedHeight = Height(b)
    BY <1>8, <1>11 DEF Mined
  <2> QED
    BY <1>13, <2>1, <2>3, <2>4 DEF CoinbaseApplies
<1>15. BlockValid(utxos, b, TargetAtTip)
  BY <1>8, <1>11, <1>12, <1>13, <1>14 DEF BlockValid
<1> QED
  BY <1>10, <1>15 DEF NewTipOk

LEMMA KeptCandidate == CandidateInv /\ candidate' \in {candidate, NoCandidate} => CandidateInv'
<1> SUFFICES ASSUME CandidateInv, candidate' \in {candidate, NoCandidate}, candidate' # NoCandidate
             PROVE  \E f : \E n \in Nat : CandidateOn(f, n)'
  BY DEF CandidateInv
<1>1. candidate' = candidate
  OBVIOUS
<1>2. PICK f : \E n \in Nat : CandidateOn(f, n)
  BY <1>1 DEF CandidateInv
<1>3. PICK n \in Nat : CandidateOn(f, n)
  BY <1>2
<1>4. CandidateOn(f, n)'
  BY <1>1, <1>3 DEF CandidateOn
<1> QED
  BY <1>4

LEMMA NextCandidateInv ==
  ASSUME SupplyFits
  PROVE  NodeInv /\ PoolInv /\ CandidateInv /\ [NodeNext]_nodeVars => CandidateInv'
<1> SUFFICES ASSUME NodeInv, PoolInv, CandidateInv, [NodeNext]_nodeVars PROVE CandidateInv'
  OBVIOUS
<1>1. CASE BuildCandidate
  BY <1>1, BuildInv
<1>2. CASE ~BuildCandidate
  <2>1. candidate' \in {candidate, NoCandidate}
    BY <1>2 DEF NodeNext, ChainStep, Submit, MinerDone, RequeueCandidate, SubmitOwnBlock, nodeVars
  <2> QED
    BY <2>1, KeptCandidate
<1> QED
  BY <1>1, <1>2

(* A block that submit_own_block cannot commit was overtaken: as long as   *)
(* the tip is the one that build_mining_candidate saw, the block that the  *)
(* search ended with is valid, for every batch of the pool, whatever it    *)
(* spends and whatever was submitted meanwhile. The sum of the fees        *)
(* saturates in the candidate and is checked in the validation; SupplyFits *)
(* keeps the two alike.                                                    *)
THEOREM OwnBlocksLoseOnlyRaces ==
  ASSUME SupplyFits
  PROVE  NodeSpec /\ UndosAreClean => []OwnBlockLosesOnlyRaces
<1>1. NodeInit => CandidateInv
  BY DEF NodeInit, CandidateInv
<1>2. NodeInv /\ PoolInv /\ CandidateInv => OwnBlockLosesOnlyRaces
  BY OwnBlockFits DEF OwnBlockLosesOnlyRaces
<1>3. Spec /\ UndosAreClean => []NodeInv
  BY NodeInvariant
<1>4. NodeInv /\ PoolInv /\ CandidateInv /\ [NodeNext]_nodeVars => CandidateInv'
  BY NextCandidateInv
<1> QED
  BY <1>1, <1>2, <1>3, <1>4, NodeIsChain, PoolInvariant, PTL DEF NodeSpec

-----------------------------------------------------------------------------
(* The loop of validate_full_block.                                        *)
LEMMA FeesStep ==
  ASSUME NEW f, NEW low \in Int, NEW i \in Int, low <= i, \A j \in low..i : Fee(f[j]) \in Nat
  PROVE  /\ FeesBetween(f, low, i) = Fee(f[i]) + FeesBetween(f, low, i - 1)
         /\ FeesBetween(f, low, i - 1) \in Nat
<1>1. PICK D, g : D = low..i /\ g = [j \in D |-> Fee(f[j])]
  OBVIOUS
<1>2. PICK E, h : E = low..i - 1 /\ h = [j \in E |-> Fee(f[j])]
  OBVIOUS
<1>3. IsFiniteSet(D) /\ IsFiniteSet(E)
  <2>1. IsFiniteSet(low..i) /\ i - 1 \in Int
    BY FS_Interval
  <2>2. IsFiniteSet(low..i - 1)
    BY <2>1, FS_Interval
  <2> QED
    BY <1>1, <1>2, <2>1, <2>2
<1>4. i \in D /\ D \ {i} = E
  BY <1>1, <1>2
<1>5. g \in [D -> Int] /\ h \in [E -> Nat]
  BY <1>1, <1>2, <1>4
<1>6. SumFunction(g) = g[i] + SumFunction(Part(g, D \ {i}))
  BY <1>3, <1>4, <1>5, SumWithout
<1>7. Part(g, D \ {i}) = h
  BY <1>1, <1>2, <1>4 DEF Part
<1>8. SumFunction(h) \in Nat
  BY <1>3, <1>5, SumNatural
<1> QED
  BY <1>1, <1>2, <1>4, <1>6, <1>7, <1>8 DEF FeesBetween

(* An overlay that holds the changes of some transactions, and no more.    *)
Holds(base, o, S) ==
  /\ o.spent = SpendsOf(S) /\ o.undo = SpendsOf(S)
  /\ o.created \subseteq OutputsOf(S) /\ OutputsOf(S) \subseteq o.created \cup o.spent
  /\ SpendsOf(S) \subseteq base \cup OutputsOf(S)

(* It shows what the closed form says.                                     *)
LEMMA OverlayShows ==
  ASSUME NEW base, NEW o, NEW S, Holds(base, o, S)
  PROVE  GetUtxos(base, o) = ViewAfter(base, S)
BY DEF Holds, GetUtxos, ViewAfter

LEMMA OneMoreTx ==
  ASSUME NEW S, NEW t
  PROVE  /\ SpendsOf(S \cup {t}) = SpendsOf(S) \cup Spends(t)
         /\ OutputsOf(S \cup {t}) = OutputsOf(S) \cup Outputs(t)
BY DEF SpendsOf, OutputsOf

LEMMA ApplyHolds ==
  ASSUME NEW base, NEW o, NEW S, Holds(base, o, S), NEW t,
         NEW p, p = ApplyNext(base, o, t), p.ok, o.ok \in BOOLEAN, o \in Overlays
  PROVE  /\ o.ok /\ Applies(t, ViewAfter(base, S)) /\ Holds(base, p, S \cup {t})
         /\ p.fees = o.fees + Fee(t) /\ p.fees <= MaxAmount
         /\ p.created = (o.created \ Spends(t)) \cup Outputs(t)
<1>1. o.ok /\ Applies(t, GetUtxos(base, o)) /\ o.fees + Fee(t) <= MaxAmount
  <2> SUFFICES ASSUME ~(o.ok /\ Applies(t, GetUtxos(base, o)) /\ o.fees + Fee(t) <= MaxAmount)
               PROVE  FALSE
    OBVIOUS
  <2>1. p = [o EXCEPT !.ok = FALSE]
    BY DEF ApplyNext
  <2>2. p.ok = FALSE
    BY <2>1 DEF Overlays
  <2> QED
    BY <2>2
<1>2. /\ p.spent = o.spent \cup Spends(t) /\ p.undo = o.undo \cup Spends(t)
      /\ p.created = (o.created \ Spends(t)) \cup Outputs(t)
      /\ p.fees = o.fees + Fee(t)
  BY <1>1 DEF ApplyNext
<1>3. GetUtxos(base, o) = ViewAfter(base, S)
  BY OverlayShows
<1>4. Spends(t) \subseteq base \cup OutputsOf(S)
  BY <1>1, <1>3 DEF Applies, ViewAfter
<1>5. Holds(base, p, S \cup {t})
  <2>1. PICK after : after = S \cup {t}
    OBVIOUS
  <2>2. /\ SpendsOf(after) = SpendsOf(S) \cup Spends(t)
        /\ OutputsOf(after) = OutputsOf(S) \cup Outputs(t)
    BY <2>1, OneMoreTx
  <2>3. p.spent = SpendsOf(after) /\ p.undo = SpendsOf(after)
    BY <1>2, <2>2 DEF Holds
  <2>4. p.created \subseteq OutputsOf(after) /\ OutputsOf(after) \subseteq p.created \cup p.spent
    BY <1>2, <2>2 DEF Holds
  <2>5. SpendsOf(after) \subseteq base \cup OutputsOf(after)
    BY <1>4, <2>2 DEF Holds
  <2> QED
    BY <2>1, <2>3, <2>4, <2>5 DEF Holds
<1> QED
  BY <1>1, <1>2, <1>3, <1>5

(* Unless an output of the transaction is in the base already, nothing is  *)
(* created that was spent before: to create it again, a transaction would  *)
(* have to apply a second time, and its inputs are spent.                  *)
LEMMA ApplyStaysClean ==
  ASSUME NEW base, NEW o, NEW S, Holds(base, o, S), NEW t \in Txs,
         o.created \cap o.spent = {}, Outputs(t) \cap base = {},
         NEW p, Applies(t, ViewAfter(base, S)), Holds(base, p, S \cup {t}),
         p.created = (o.created \ Spends(t)) \cup Outputs(t)
  PROVE  p.created \cap p.spent = {}
<1>1. p.spent = o.spent \cup Spends(t) /\ o.spent = SpendsOf(S)
  BY OneMoreTx DEF Holds
<1>2. ASSUME NEW x \in Outputs(t), x \in SpendsOf(S)
      PROVE  FALSE
  <2>1. x \in OutputsOf(S)
    BY <1>2 DEF Holds
  <2>2. t \in S
    BY <1>2, <2>1 DEF OutputsOf, Outputs
  <2>3. Spends(t) \subseteq SpendsOf(S)
    BY <2>2 DEF SpendsOf
  <2>4. Spends(t) \cap SpendsOf(S) = {}
    BY DEF Applies, ViewAfter
  <2>5. Spends(t) # {}
    <3>1. ~TxBody[t].coinbase /\ TxBody[t].inputs # <<>> /\ TxBody[t].inputs \in Seq(OutPoint)
      BY TypesAssumption DEF Applies, Transaction
    <3>2. 1 \in DOMAIN TxBody[t].inputs
      BY <3>1
    <3> QED
      BY <3>1, <3>2 DEF Spends
  <2> QED
    BY <2>3, <2>4, <2>5
<1>3. Spends(t) \cap Outputs(t) = {}
  BY HashAssumption
<1> QED
  BY <1>1, <1>2, <1>3

(* The overlays that the rounds of the loop leave.                         *)
StagedOverlays == {o \in Overlays : o.created \subseteq OutputsOf(Txs)}

LEMMA ApplyStages ==
  ASSUME NEW base, base \subseteq OutputsOf(Txs), NEW o \in StagedOverlays, NEW t \in Txs
  PROVE  ApplyNext(base, o, t) \in StagedOverlays
<1>1. Spends(t) \subseteq OutPoint /\ Outputs(t) \subseteq OutPoint /\ Outputs(t) \subseteq OutputsOf(Txs)
  BY TxTypes DEF OutputsOf
<1>2. o \in Overlays /\ o.created \subseteq OutputsOf(Txs)
  BY DEF StagedOverlays
<1>3. /\ o.ok \in BOOLEAN /\ o.spent \subseteq OutPoint /\ o.created \subseteq OutPoint
      /\ o.undo \subseteq OutPoint /\ o.fees \in Nat
  BY <1>2 DEF Overlays
<1>4. CASE o.ok /\ Applies(t, GetUtxos(base, o)) /\ o.fees + Fee(t) <= MaxAmount
  <2>1. PICK view : view = GetUtxos(base, o) /\ view \subseteq OutputsOf(Txs)
    BY <1>2 DEF GetUtxos
  <2>2. Fee(t) \in Nat
    BY <1>4, <2>1, FeeType
  <2>3. o.fees + Fee(t) \in Nat
    BY <1>3, <2>2
  <2>4. PICK p : p = ApplyNext(base, o, t)
    OBVIOUS
  <2>5. p = [ok      |-> TRUE,
             spent   |-> o.spent \cup Spends(t),
             created |-> (o.created \ Spends(t)) \cup Outputs(t),
             undo    |-> o.undo \cup Spends(t),
             fees    |-> o.fees + Fee(t)]
    BY <1>4, <2>4 DEF ApplyNext
  <2>6. p \in Overlays /\ p.created \subseteq OutputsOf(Txs)
    BY <1>1, <1>2, <1>3, <2>3, <2>5 DEF Overlays
  <2> QED
    BY <2>4, <2>6 DEF StagedOverlays
<1>5. CASE ~(o.ok /\ Applies(t, GetUtxos(base, o)) /\ o.fees + Fee(t) <= MaxAmount)
  <2>1. PICK p : p = [o EXCEPT !.ok = FALSE] /\ p = ApplyNext(base, o, t)
    BY <1>5 DEF ApplyNext
  <2>2. p \in Overlays /\ p.created = o.created
    BY <1>2, <2>1 DEF Overlays
  <2> QED
    BY <1>2, <2>1, <2>2 DEF StagedOverlays
<1> QED
  BY <1>4, <1>5

RestTable(iter, base, rest) ==
  iter = [s \in SUBSET DOMAIN rest |->
            IF s = {} THEN NewOverlay ELSE ApplyNext(base, iter[s \ {Max(s)}], rest[Max(s)])]

LEMMA RestIsTable ==
  ASSUME NEW base, NEW b
  PROVE  ApplyRest(base, b) =
           (CHOOSE iter : RestTable(iter, base, Tail(Body[b])))[DOMAIN Tail(Body[b])]
BY DEF ApplyRest, FoldLeft, MapThenFoldSet, RestTable

(* The loop as the sequence of the overlays that its rounds leave.         *)
RunsAs(F, base, b, rest, n) ==
  /\ F \in [0..n -> StagedOverlays]
  /\ F[0] = NewOverlay /\ F[n] = ApplyRest(base, b)
  /\ \A i \in 1..n : F[i] = ApplyNext(base, F[i - 1], rest[i])

LEMMA RestSteps ==
  ASSUME NEW base, base \subseteq OutputsOf(Txs), NEW b \in Blocks,
         NEW n \in Nat, NEW rest \in Seq(Txs), rest = Tail(Body[b]), n = Len(rest)
  PROVE  \E F : RunsAs(F, base, b, rest, n)
<1>1. PICK D : D = 1..n /\ DOMAIN rest = D /\ \A i \in D : rest[i] \in Txs
  OBVIOUS
<1>2. PICK V, first : V = StagedOverlays /\ first = NewOverlay /\ first \in V
  <2>1. NewOverlay \in Overlays /\ NewOverlay.created = {}
    BY DEF NewOverlay, Overlays
  <2>2. NewOverlay \in StagedOverlays
    BY <2>1 DEF StagedOverlays
  <2> QED
    BY <2>2
<1>3. PICK step : step = [p \in (1..n) \X V |-> ApplyNext(base, p[2], rest[p[1]])]
  OBVIOUS
<1>4. \A x \in 1..n, v \in V : /\ step[<<x, v>>] = ApplyNext(base, v, rest[x])
                               /\ ApplyNext(base, v, rest[x]) \in V
  BY <1>1, <1>2, <1>3, ApplyStages
<1>5. step \in [(1..n) \X V -> V]
  BY <1>3, <1>4
<1>6. PICK iter \in [SUBSET (1..n) -> V] : IsFold(iter, 1..n, first, step)
  BY <1>2, <1>5, FoldExists
<1>7. RestTable(iter, base, rest)
  <2>1. ASSUME NEW s \in SUBSET D, s # {}
        PROVE  step[<<Max(s), iter[s \ {Max(s)}]>>] = ApplyNext(base, iter[s \ {Max(s)}], rest[Max(s)])
    <3>1. PICK x, r : x = Max(s) /\ r = s \ {x}
      OBVIOUS
    <3>2. x \in 1..n /\ r \in SUBSET (1..n)
      BY <1>1, <2>1, <3>1, LastNumber
    <3>3. iter[r] \in V
      BY <3>2
    <3> QED
      BY <1>4, <3>1, <3>2, <3>3
  <2>2. iter = [s \in SUBSET D |-> IF s = {} THEN first ELSE step[<<Max(s), iter[s \ {Max(s)}]>>]]
    BY <1>1, <1>6 DEF IsFold
  <2>3. iter = [s \in SUBSET D |-> IF s = {} THEN NewOverlay
                  ELSE ApplyNext(base, iter[s \ {Max(s)}], rest[Max(s)])]
    BY <1>2, <2>1, <2>2
  <2> QED
    BY <1>1, <2>3 DEF RestTable
<1>8. PICK it : RestTable(it, base, rest) /\ ApplyRest(base, b) = it[D]
  <2>1. ApplyRest(base, b) = (CHOOSE i : RestTable(i, base, rest))[D]
    BY <1>1, RestIsTable
  <2> QED
    BY <1>7, <2>1
<1>9. PICK F : F = [i \in 0..n |-> it[1..i]]
  OBVIOUS
<1>10. \A s \in SUBSET D : it[s] = IF s = {} THEN first
                             ELSE ApplyNext(base, it[s \ {Max(s)}], rest[Max(s)])
  BY <1>1, <1>2, <1>8 DEF RestTable
<1>11. F[0] = first /\ F[n] = ApplyRest(base, b)
  <2>1. 1..0 = {} /\ 0 \in 0..n /\ n \in 0..n
    OBVIOUS
  <2> QED
    BY <1>1, <1>8, <1>9, <1>10, <2>1
<1>12. ASSUME NEW i \in 1..n
       PROVE  F[i] = ApplyNext(base, F[i - 1], rest[i])
  <2>1. PICK m \in Nat : m = i - 1 /\ i = m + 1
    OBVIOUS
  <2>2. PICK s : s = 1..i
    OBVIOUS
  <2>3. Max(s) = i /\ s \ {i} = 1..i - 1
    BY <2>1, <2>2, LastOfInterval
  <2>4. s \in SUBSET D /\ s # {}
    <3>1. 1..i \in SUBSET (1..n) /\ i \in 1..i
      OBVIOUS
    <3> QED
      BY <1>1, <2>2, <3>1
  <2>5. i \in 0..n /\ i - 1 \in 0..n
    OBVIOUS
  <2> QED
    BY <1>9, <1>10, <2>2, <2>3, <2>4, <2>5
<1>13. PICK T : T = {i \in Nat : i <= n => F[i] \in V}
  OBVIOUS
<1>14. 0 \in T
  BY <1>2, <1>11, <1>13
<1>15. ASSUME NEW i \in T
       PROVE  i + 1 \in T
  <2>1. CASE i + 1 <= n
    <3>1. i \in Nat /\ i + 1 \in 1..n /\ (i + 1) - 1 = i /\ F[i] \in V
      BY <1>13, <2>1
    <3>2. PICK k \in 1..n, v \in V : k = i + 1 /\ v = F[i]
      BY <3>1
    <3>3. F[k] = ApplyNext(base, v, rest[k])
      BY <1>12, <3>1, <3>2
    <3>4. F[k] \in V
      BY <1>4, <3>3
    <3>5. i + 1 \in Nat /\ F[i + 1] \in V
      BY <3>1, <3>2, <3>4
    <3> QED
      BY <1>13, <3>5
  <2>2. CASE ~(i + 1 <= n)
    BY <1>13, <2>2
  <2> QED
    BY <2>1, <2>2
<1>16. T = Nat
  <2>1. T \in SUBSET Nat
    BY <1>13
  <2> QED
    BY <1>14, <1>15, <2>1, NumberInduction
<1>17. F \in [0..n -> V]
  <2>1. \A i \in 0..n : F[i] \in V
    BY <1>13, <1>16
  <2> QED
    BY <1>9, <2>1
<1>18. F \in [0..n -> StagedOverlays] /\ F[0] = NewOverlay
  BY <1>2, <1>11, <1>17
<1> QED
  BY <1>11, <1>12, <1>18 DEF RunsAs

(* What the overlay is after i rounds: the loop goes on while each         *)
(* transaction applies after those before it and the fees fit.             *)
AllApply(base, body, i) ==
  \A j \in 2..i + 1 : Applies(body[j], ViewAfter(base, Between(body, 2, j - 1)))

AfterRounds(base, body, o, i) ==
  /\ o.ok => /\ AllApply(base, body, i)
             /\ Holds(base, o, Between(body, 2, i + 1))
             /\ \A j \in 2..i + 1 : Fee(body[j]) \in Nat
             /\ o.fees = FeesBetween(body, 2, i + 1) /\ o.fees <= MaxAmount
  /\ (\A j \in 2..i + 1 : Outputs(body[j]) \cap base = {}) /\ o.ok
       => o.created \cap o.spent = {}

LEMMA OneRound ==
  ASSUME NEW base, base \subseteq OutputsOf(Txs), NEW body, NEW i \in Nat, NEW o \in StagedOverlays,
         AfterRounds(base, body, o, i), body[i + 2] \in Txs,
         NEW p \in StagedOverlays, p = ApplyNext(base, o, body[i + 2])
  PROVE  AfterRounds(base, body, p, i + 1)
<1>1. PICK t, S, all :
        /\ t = body[i + 2] /\ t \in Txs
        /\ S = Between(body, 2, i + 1) /\ all = Between(body, 2, i + 2)
  OBVIOUS
<1>2. /\ \A j \in 2..(i + 1) + 1 : j \in 2..i + 1 \/ j = i + 2
      /\ \A j \in 2..i + 1 : j \in 2..(i + 1) + 1
      /\ (i + 1) + 1 = i + 2 /\ (i + 2) - 1 = i + 1 /\ i + 2 \in 2..(i + 1) + 1
  OBVIOUS
<1>3. all = S \cup {t}
  BY <1>1, <1>2 DEF Between
<1>4. o \in Overlays /\ o.ok \in BOOLEAN /\ o.created \subseteq OutputsOf(Txs)
  BY DEF StagedOverlays, Overlays
<1> SUFFICES ASSUME p.ok
             PROVE  AfterRounds(base, body, p, i + 1)
  BY DEF AfterRounds
<1>5. o.ok
  BY <1>4 DEF ApplyNext, Overlays
<1>6. /\ AllApply(base, body, i) /\ Holds(base, o, S)
      /\ \A j \in 2..i + 1 : Fee(body[j]) \in Nat
      /\ o.fees = FeesBetween(body, 2, i + 1)
  BY <1>1, <1>5 DEF AfterRounds
<1>7. /\ Applies(t, ViewAfter(base, S)) /\ Holds(base, p, S \cup {t})
      /\ p.fees = o.fees + Fee(t) /\ p.fees <= MaxAmount
      /\ p.created = (o.created \ Spends(t)) \cup Outputs(t)
  BY <1>1, <1>4, <1>6, ApplyHolds
<1>8. AllApply(base, body, i + 1)
  BY <1>1, <1>2, <1>6, <1>7 DEF AllApply
<1>9. Fee(t) \in Nat
  <2>1. PICK view : view = GetUtxos(base, o) /\ view \subseteq OutputsOf(Txs)
    BY <1>4 DEF GetUtxos
  <2>2. Applies(t, view)
    BY <1>6, <1>7, <2>1, OverlayShows
  <2> QED
    BY <1>1, <2>1, <2>2, FeeType
<1>10. \A j \in 2..(i + 1) + 1 : Fee(body[j]) \in Nat
  BY <1>1, <1>2, <1>6, <1>9
<1>11. p.fees = FeesBetween(body, 2, (i + 1) + 1)
  <2>1. PICK k \in Int : k = i + 2 /\ 2 <= k /\ k - 1 = i + 1 /\ k = (i + 1) + 1
    OBVIOUS
  <2>2. /\ FeesBetween(body, 2, k) = Fee(t) + FeesBetween(body, 2, k - 1)
        /\ FeesBetween(body, 2, k - 1) \in Nat
    <3>1. \A j \in 2..k : Fee(body[j]) \in Nat
      BY <1>10, <2>1
    <3>2. 2 \in Int
      OBVIOUS
    <3> QED
      BY <1>1, <2>1, <3>1, <3>2, FeesStep
  <2>3. FeesBetween(body, 2, k - 1) = o.fees
    BY <1>6, <2>1
  <2> QED
    BY <1>7, <1>9, <2>1, <2>2, <2>3
<1>12. ASSUME \A j \in 2..(i + 1) + 1 : Outputs(body[j]) \cap base = {}
       PROVE  p.created \cap p.spent = {}
  <2>1. o.created \cap o.spent = {}
    BY <1>2, <1>5, <1>12 DEF AfterRounds
  <2>2. Outputs(t) \cap base = {}
    BY <1>1, <1>2, <1>12
  <2> QED
    BY <1>1, <1>6, <1>7, <2>1, <2>2, ApplyStaysClean
<1>13. Holds(base, p, Between(body, 2, (i + 1) + 1))
  BY <1>1, <1>2, <1>3, <1>7
<1> QED
  BY <1>7, <1>8, <1>10, <1>11, <1>12, <1>13 DEF AfterRounds


LEMMA FeesOfFewer ==
  ASSUME NEW f, NEW low \in Int, NEW i \in Int, NEW n \in Int, i <= n,
         \A j \in low..n : Fee(f[j]) \in Nat
  PROVE  FeesBetween(f, low, i) <= FeesBetween(f, low, n)
<1>1. PICK D, E : D = low..n /\ E = low..i
  OBVIOUS
<1>2. PICK g : g = [j \in D |-> Fee(f[j])]
  OBVIOUS
<1>3. IsFiniteSet(D) /\ E \in SUBSET D
  BY <1>1, FS_Interval
<1>4. g \in [D -> Nat] /\ g \in [D -> Int]
  BY <1>1, <1>2
<1>5. SumFunction(g) = SumFunction(Part(g, E)) + SumFunction(Part(g, D \ E))
  BY <1>3, <1>4, SumSplit
<1>6. SumFunction(Part(g, E)) \in Nat /\ SumFunction(Part(g, D \ E)) \in Nat
  <2>1. IsFiniteSet(E) /\ IsFiniteSet(D \ E)
    BY <1>3, FS_Subset
  <2>2. Part(g, E) \in [E -> Nat] /\ Part(g, D \ E) \in [D \ E -> Nat]
    BY <1>3, <1>4 DEF Part
  <2> QED
    BY <2>1, <2>2, SumNatural
<1>7. Part(g, E) = [j \in low..i |-> Fee(f[j])]
  BY <1>1, <1>2, <1>3 DEF Part
<1>8. PICK x \in Nat, y \in Nat :
        x = SumFunction(Part(g, E)) /\ y = SumFunction(Part(g, D \ E)) /\ SumFunction(g) = x + y
  BY <1>5, <1>6
<1>9. x <= SumFunction(g)
  BY <1>8
<1> QED
  BY <1>1, <1>2, <1>7, <1>8, <1>9 DEF FeesBetween

LEMMA FeesNatural ==
  ASSUME NEW f, NEW low \in Int, NEW n \in Int, \A j \in low..n : Fee(f[j]) \in Nat
  PROVE  FeesBetween(f, low, n) \in Nat
<1>1. IsFiniteSet(low..n)
  BY FS_Interval
<1>2. [j \in low..n |-> Fee(f[j])] \in [low..n -> Nat]
  OBVIOUS
<1> QED
  BY <1>1, <1>2, SumNatural DEF FeesBetween

(* What applies to coins that exist pays no negative fee.                  *)
LEMMA AllFees ==
  ASSUME NEW base, base \subseteq OutputsOf(Txs), NEW body, NEW n \in Nat,
         \A j \in 1..n + 1 : body[j] \in Txs,
         \A j \in 2..n + 1 : Applies(body[j], ViewAfter(base, Between(body, 2, j - 1)))
  PROVE  \A j \in 2..n + 1 : Fee(body[j]) \in Nat
<1> SUFFICES ASSUME NEW j \in 2..n + 1
             PROVE  Fee(body[j]) \in Nat
  OBVIOUS
<1>1. body[j] \in Txs
  OBVIOUS
<1>2. Between(body, 2, j - 1) \subseteq Txs
  <2>1. \A i \in 2..j - 1 : i \in 1..n + 1
    OBVIOUS
  <2> QED
    BY <2>1 DEF Between
<1>3. ViewAfter(base, Between(body, 2, j - 1)) \subseteq OutputsOf(Txs)
  BY <1>2 DEF ViewAfter, OutputsOf
<1> QED
  BY <1>1, <1>3, FeeType

(* The transactions of a block that the loop takes are those after the     *)
(* first, in their order.                                                  *)
LEMMA RestOfBody ==
  ASSUME NEW b \in Blocks, Body[b] # <<>>
  PROVE  \E n \in Nat, rest \in Seq(Txs) :
           /\ rest = Tail(Body[b]) /\ n = Len(rest) /\ n + 1 = Len(Body[b])
           /\ DOMAIN Body[b] = 1..n + 1
           /\ \A j \in 1..n + 1 : Body[b][j] \in Txs
           /\ \A i \in 1..n : rest[i] = Body[b][i + 1]
<1>1. PICK body \in Seq(Txs) : body = Body[b] /\ body # <<>>
  BY TypesAssumption
<1>2. PICK rest \in Seq(Txs) :
        /\ rest = Tail(body) /\ Len(rest) = Len(body) - 1
        /\ \A i \in 1..Len(rest) : rest[i] = body[i + 1]
  BY <1>1, HeadTailProperties
<1>3. PICK n \in Nat : n = Len(rest)
  OBVIOUS
<1>4. PICK m \in Nat : m = Len(body) /\ DOMAIN body = 1..m /\ \A j \in 1..m : body[j] \in Txs
  OBVIOUS
<1>5. m = n + 1
  BY <1>2, <1>3, <1>4
<1> QED
  BY <1>1, <1>2, <1>3, <1>4, <1>5

(* The whole loop: what it leaves when nothing was refused, and that it    *)
(* refuses nothing that applies.                                           *)
LEMMA LoopResult ==
  ASSUME NEW base, base \subseteq OutputsOf(Txs), NEW b \in Blocks, Body[b] # <<>>,
         NEW n \in Nat, n + 1 = Len(Body[b])
  PROVE  \E o \in StagedOverlays :
           /\ o = ApplyRest(base, b) /\ AfterRounds(base, Body[b], o, n)
           /\ AllApply(base, Body[b], n) /\ FeesBetween(Body[b], 2, n + 1) <= MaxAmount => o.ok
<1>1. PICK body : body = Body[b]
  OBVIOUS
<1>2. PICK rest \in Seq(Txs) :
        /\ rest = Tail(body) /\ n = Len(rest)
        /\ \A j \in 1..n + 1 : body[j] \in Txs
        /\ \A i \in 1..n : rest[i] = body[i + 1]
  <2>1. PICK k \in Nat, r \in Seq(Txs) :
           /\ r = Tail(body) /\ k = Len(r) /\ k + 1 = Len(body)
           /\ \A j \in 1..k + 1 : body[j] \in Txs
           /\ \A i \in 1..k : r[i] = body[i + 1]
    BY <1>1, RestOfBody
  <2>2. k = n
    BY <1>1, <2>1
  <2> QED
    BY <2>1, <2>2
<1>3. PICK F \in [0..n -> StagedOverlays] :
           /\ F[0] = NewOverlay /\ F[n] = ApplyRest(base, b)
           /\ \A i \in 1..n : F[i] = ApplyNext(base, F[i - 1], rest[i])
  <2>1. rest = Tail(Body[b]) /\ n = Len(rest)
    BY <1>1, <1>2
  <2>2. PICK F : RunsAs(F, base, b, rest, n)
    BY <2>1, RestSteps
  <2> QED
    BY <2>2 DEF RunsAs
<1>4. ASSUME NEW i \in Nat, i + 1 <= n
      PROVE  /\ F[i] \in StagedOverlays /\ F[i + 1] \in StagedOverlays
             /\ body[i + 2] \in Txs
             /\ F[i + 1] = ApplyNext(base, F[i], body[i + 2])
  <2>1. i + 1 \in 1..n /\ (i + 1) - 1 = i /\ (i + 1) + 1 = i + 2 /\ i + 2 \in 1..n + 1
        /\ i \in 0..n /\ i + 1 \in 0..n
    BY <1>4
  <2>2. PICK k \in 1..n : k = i + 1
    BY <2>1
  <2>3. F[k] = ApplyNext(base, F[k - 1], rest[k]) /\ rest[k] = body[k + 1]
    BY <1>2, <1>3
  <2>4. F[i + 1] = ApplyNext(base, F[i], body[i + 2])
    BY <2>1, <2>2, <2>3
  <2> QED
    BY <1>2, <1>3, <2>1, <2>4
<1>5. PICK T : T = {i \in Nat : i <= n => AfterRounds(base, body, F[i], i)}
  OBVIOUS
<1>6. 0 \in T
  <2>1. Between(body, 2, 0 + 1) = {} /\ 2..0 + 1 = {}
    BY DEF Between
  <2>2. FeesBetween(body, 2, 0 + 1) = 0
    <3>1. DOMAIN [j \in 2..0 + 1 |-> Fee(body[j])] = {}
      BY <2>1
    <3> QED
      BY <3>1, SumEmpty DEF FeesBetween
  <2>3. F[0].spent = {} /\ F[0].created = {} /\ F[0].undo = {} /\ F[0].fees = 0
    BY <1>3 DEF NewOverlay
  <2>4. SpendsOf({}) = {} /\ OutputsOf({}) = {}
    BY DEF SpendsOf, OutputsOf
  <2>5. Holds(base, F[0], {})
    BY <2>3, <2>4 DEF Holds
  <2>6. F[0].fees <= MaxAmount
    BY <2>3, MaxAmountType
  <2>7. AllApply(base, body, 0)
    BY <2>1 DEF AllApply
  <2>8. AfterRounds(base, body, F[0], 0)
    BY <2>1, <2>2, <2>3, <2>5, <2>6, <2>7 DEF AfterRounds
  <2> QED
    BY <1>5, <2>8
<1>7. ASSUME NEW i \in T
      PROVE  i + 1 \in T
  <2>1. i \in Nat /\ i + 1 \in Nat
    BY <1>5
  <2>2. CASE i + 1 <= n
    <3>1. AfterRounds(base, body, F[i], i)
      BY <1>5, <2>1, <2>2
    <3>2. AfterRounds(base, body, F[i + 1], i + 1)
      BY <1>4, <2>1, <2>2, <3>1, OneRound
    <3> QED
      BY <1>5, <2>1, <3>2
  <2>3. CASE ~(i + 1 <= n)
    BY <1>5, <2>1, <2>3
  <2> QED
    BY <2>2, <2>3
<1>8. T = Nat
  <2>1. T \in SUBSET Nat
    BY <1>5
  <2> QED
    BY <1>6, <1>7, <2>1, NumberInduction
<1>9. ASSUME AllApply(base, body, n), FeesBetween(body, 2, n + 1) <= MaxAmount
      PROVE  F[n].ok
  <2>1. ASSUME NEW j \in 2..n + 1
        PROVE  Applies(body[j], ViewAfter(base, Between(body, 2, j - 1)))
    BY <1>9 DEF AllApply
  <2>2. PICK U : U = {i \in Nat : i <= n => F[i].ok}
    OBVIOUS
  <2>3. 0 \in U
    BY <1>3, <2>2 DEF NewOverlay
  <2>4. ASSUME NEW i \in U, i + 1 <= n
        PROVE  F[i + 1].ok
    <3>1. i \in Nat /\ F[i].ok /\ AfterRounds(base, body, F[i], i)
      BY <1>5, <1>8, <2>2, <2>4
    <3>2. PICK t, o, S :
            /\ t = body[i + 2] /\ t \in Txs /\ o = F[i] /\ o \in StagedOverlays
            /\ S = Between(body, 2, i + 1)
      BY <1>4, <2>4, <3>1
    <3>3. /\ Holds(base, o, S) /\ o.fees = FeesBetween(body, 2, i + 1)
          /\ \A j \in 2..i + 1 : Fee(body[j]) \in Nat
      BY <3>1, <3>2 DEF AfterRounds
    <3>4. Applies(t, ViewAfter(base, S))
      <4>1. i + 2 \in 2..n + 1 /\ (i + 2) - 1 = i + 1
        BY <2>4, <3>1
      <4> QED
        BY <2>1, <3>2, <4>1
    <3>5. GetUtxos(base, o) = ViewAfter(base, S)
      BY <3>3, OverlayShows
    <3>6. o.fees + Fee(t) <= MaxAmount
      <4>1. \A j \in 2..n + 1 : Fee(body[j]) \in Nat
        BY <1>2, <2>1, AllFees
      <4>2. PICK k \in Int : k = i + 2 /\ 2 <= k /\ k - 1 = i + 1 /\ k <= n + 1
        BY <2>4, <3>1
      <4>3. /\ FeesBetween(body, 2, k) = Fee(t) + FeesBetween(body, 2, k - 1)
            /\ FeesBetween(body, 2, k - 1) \in Nat
        <5>1. \A j \in 2..k : Fee(body[j]) \in Nat
          BY <4>1, <4>2
        <5>2. 2 \in Int
          OBVIOUS
        <5> QED
          BY <3>2, <4>2, <5>1, <5>2, FeesStep
      <4>4. FeesBetween(body, 2, k) <= FeesBetween(body, 2, n + 1)
        <5>1. 2 \in Int /\ n + 1 \in Int
          OBVIOUS
        <5> QED
          BY <4>1, <4>2, <5>1, FeesOfFewer
      <4>5. FeesBetween(body, 2, n + 1) \in Nat
        BY <4>1, FeesNatural
      <4>6. Fee(t) \in Nat
        BY <3>2, <4>1, <4>2
      <4>7. PICK p \in Nat, q \in Nat, r \in Nat :
              /\ p = Fee(t) /\ q = FeesBetween(body, 2, k - 1)
              /\ r = FeesBetween(body, 2, n + 1) /\ p + q <= r
        BY <4>3, <4>4, <4>5, <4>6
      <4>8. o.fees = q
        BY <3>3, <4>2, <4>7
      <4> QED
        BY <1>9, <4>7, <4>8, MaxAmountType
    <3>7. F[i + 1] = ApplyNext(base, o, t)
      BY <1>4, <2>4, <3>1, <3>2
    <3> QED
      BY <3>1, <3>2, <3>4, <3>5, <3>6, <3>7 DEF ApplyNext
  <2>5. U = Nat
    <3>1. U \in SUBSET Nat
      BY <2>2
    <3>2. ASSUME NEW i \in U
          PROVE  i + 1 \in U
      <4>1. i \in Nat /\ i + 1 \in Nat
        BY <3>1
      <4> QED
        BY <2>2, <2>4, <4>1
    <3> QED
      BY <2>3, <3>1, <3>2, NumberInduction
  <2> QED
    BY <2>2, <2>5
<1>10. n \in 0..n /\ F[n] \in StagedOverlays /\ AfterRounds(base, body, F[n], n)
  BY <1>5, <1>8
<1> QED
  BY <1>1, <1>3, <1>9, <1>10

(* In the words of the closed form.                                        *)
LEMMA ClosedForm ==
  ASSUME NEW base, NEW b \in Blocks, NEW target, NEW n \in Nat, n + 1 = Len(Body[b])
  PROVE  /\ FeesOf(b) = FeesBetween(Body[b], 2, n + 1)
         /\ BlockValid(base, b, target) <=>
              /\ VerifyPow(Header[b].powHash, Header[b].target)
              /\ Header[b].target = target
              /\ Header[b].txRootOk
              /\ Body[b] # <<>>
              /\ AllApply(base, Body[b], n)
              /\ CoinbaseAllowance(b) <= MaxAmount
              /\ CoinbaseApplies(Body[b][1], Height(b), CoinbaseAllowance(b))
<1>1. \A i : ViewBefore(base, b, i) = ViewAfter(base, Between(Body[b], 2, i - 1))
  BY DEF ViewBefore, Between
<1>2. FeesOf(b) = FeesBetween(Body[b], 2, n + 1)
  BY DEF FeesOf, FeesBetween
<1>3. AllApply(base, Body[b], n) <=>
        \A i \in 2..Len(Body[b]) : Applies(Body[b][i], ViewBefore(base, b, i))
  BY <1>1 DEF AllApply
<1> QED
  BY <1>2, <1>3 DEF BlockValid

(* The loop accepts the blocks of the closed form, and no others.          *)
LEMMA LoopAccepts ==
  ASSUME NEW base, base \subseteq OutputsOf(Txs), NEW b \in Blocks, NEW target
  PROVE  ValidateFullBlock(base, b, target).ok <=> BlockValid(base, b, target)
<1>1. CASE Body[b] = <<>>
  BY <1>1 DEF ValidateFullBlock, NewOverlay, BlockValid
<1>2. CASE Body[b] # <<>>
  <2>1. PICK n \in Nat, rest \in Seq(Txs) :
           n + 1 = Len(Body[b]) /\ \A j \in 1..n + 1 : Body[b][j] \in Txs
    BY <1>2, RestOfBody
  <2>2. PICK o \in StagedOverlays :
           /\ o = ApplyRest(base, b) /\ AfterRounds(base, Body[b], o, n)
           /\ AllApply(base, Body[b], n) /\ FeesBetween(Body[b], 2, n + 1) <= MaxAmount => o.ok
    BY <1>2, <2>1, LoopResult
  <2>3. o.ok \in BOOLEAN /\ o \in Overlays
    BY DEF StagedOverlays, Overlays
  <2>4. ValidateFullBlock(base, b, target).ok <=> Accepted(b, target, o)
    <3>1. CASE Accepted(b, target, o)
      <4>1. PICK r : r = [o EXCEPT !.created = @ \cup Outputs(Body[b][1])]
        OBVIOUS
      <4>2. r.ok = o.ok /\ o.ok
        BY <2>3, <3>1, <4>1 DEF Overlays, Accepted
      <4>3. ValidateFullBlock(base, b, target) = r
        BY <1>2, <2>2, <3>1, <4>1 DEF ValidateFullBlock
      <4> QED
        BY <3>1, <4>2, <4>3
    <3>2. CASE ~Accepted(b, target, o)
      BY <2>2, <3>2 DEF ValidateFullBlock, NewOverlay
    <3> QED
      BY <3>1, <3>2
  <2>5. Accepted(b, target, o) => BlockValid(base, b, target)
    <3> SUFFICES ASSUME Accepted(b, target, o)
                 PROVE  BlockValid(base, b, target)
      OBVIOUS
    <3>1. AllApply(base, Body[b], n) /\ o.fees = FeesBetween(Body[b], 2, n + 1)
      BY <2>2 DEF Accepted, AfterRounds
    <3>2. SubsidyForHeight(Height(b)) + o.fees = CoinbaseAllowance(b)
      BY <2>1, <3>1, ClosedForm DEF CoinbaseAllowance
    <3> QED
      BY <1>2, <2>1, <3>1, <3>2, ClosedForm DEF Accepted
  <2>6. BlockValid(base, b, target) => Accepted(b, target, o)
    <3> SUFFICES ASSUME BlockValid(base, b, target)
                 PROVE  Accepted(b, target, o)
      OBVIOUS
    <3>1. AllApply(base, Body[b], n) /\ FeesOf(b) = FeesBetween(Body[b], 2, n + 1)
          /\ CoinbaseAllowance(b) <= MaxAmount
      BY <2>1, ClosedForm
    <3>2. FeesOf(b) \in Nat
      <4>1. \A j \in 2..n + 1 : Applies(Body[b][j], ViewAfter(base, Between(Body[b], 2, j - 1)))
        BY <3>1 DEF AllApply
      <4>2. \A j \in 2..n + 1 : Fee(Body[b][j]) \in Nat
        BY <2>1, <4>1, AllFees
      <4>3. 2 \in Int /\ n + 1 \in Int
        OBVIOUS
      <4> QED
        BY <3>1, <4>2, <4>3, FeesNatural
    <3>3. FeesOf(b) <= MaxAmount
      <4>1. SubsidyForHeight(Height(b)) \in Nat
        BY BlockTypes, SubsidyType
      <4> QED
        BY <3>1, <3>2, <4>1, MaxAmountType DEF CoinbaseAllowance
    <3>4. o.ok /\ o.fees = FeesOf(b)
      BY <2>2, <3>1, <3>3 DEF AfterRounds
    <3> QED
      BY <3>4 DEF BlockValid, Accepted, CoinbaseAllowance
  <2> QED
    BY <2>4, <2>5, <2>6
<1> QED
  BY <1>1, <1>2

(* And when the block makes nothing that the base has already, the diff,   *)
(* the data to undo it and the fees are those of the closed form.          *)
LEMMA LoopDiff ==
  ASSUME NEW base, base \subseteq OutputsOf(Txs), NEW b \in Blocks, NEW target,
         ValidateFullBlock(base, b, target).ok, OutputsOf(TxsOf(b)) \cap base = {},
         NEW r, r = ValidateFullBlock(base, b, target)
  PROVE  /\ r.spent = SpentBy(b) /\ r.created = CreatedBy(b)
         /\ r.undo = UndoOf(b) /\ r.fees = FeesOf(b)
<1>1. Body[b] # <<>> /\ Accepted(b, target, ApplyRest(base, b))
  BY DEF ValidateFullBlock, NewOverlay
<1>2. PICK n \in Nat, rest \in Seq(Txs) :
        /\ n + 1 = Len(Body[b]) /\ \A j \in 1..n + 1 : Body[b][j] \in Txs
        /\ DOMAIN Body[b] = 1..n + 1
  BY <1>1, RestOfBody
<1>3. PICK o \in StagedOverlays : o = ApplyRest(base, b) /\ AfterRounds(base, Body[b], o, n)
  BY <1>1, <1>2, LoopResult
<1>4. o \in Overlays /\ o.ok = TRUE
  BY <1>1, <1>3 DEF StagedOverlays, Overlays, Accepted
<1>5. PICK S, c : S = Between(Body[b], 2, n + 1) /\ c = Body[b][1]
  OBVIOUS
<1>6. TxsOf(b) = S \cup {c}
  <2>1. \A j \in 1..n + 1 : j = 1 \/ j \in 2..n + 1
    OBVIOUS
  <2>2. 1 \in 1..n + 1 /\ \A j \in 2..n + 1 : j \in 1..n + 1
    OBVIOUS
  <2> QED
    BY <1>2, <1>5, <2>1, <2>2 DEF TxsOf, Between
<1>7. /\ AllApply(base, Body[b], n) /\ Holds(base, o, S)
      /\ o.fees = FeesOf(b)
  BY <1>2, <1>3, <1>4, <1>5, ClosedForm DEF AfterRounds
<1>8. TxBody[c].coinbase /\ c \notin S
  <2>1. TxBody[c].coinbase
    BY <1>1, <1>5 DEF Accepted, CoinbaseApplies
  <2>2. \A j \in 2..n + 1 : ~TxBody[Body[b][j]].coinbase
    BY <1>7 DEF AllApply, Applies
  <2> QED
    BY <1>5, <2>1, <2>2 DEF Between
<1>9. /\ SpendsOf(TxsOf(b)) = SpendsOf(S) \cup Spends(c)
      /\ OutputsOf(TxsOf(b)) = OutputsOf(S) \cup Outputs(c)
      /\ Spends(c) = {}
  BY <1>6, <1>8, OneMoreTx DEF Spends
<1>10. o.created \cap o.spent = {}
  <2>1. \A j \in 2..n + 1 : Outputs(Body[b][j]) \subseteq OutputsOf(S)
    BY <1>5 DEF OutputsOf, Between
  <2>2. \A j \in 2..n + 1 : Outputs(Body[b][j]) \cap base = {}
    BY <1>9, <2>1
  <2> QED
    BY <1>3, <1>4, <2>2 DEF AfterRounds
<1>11. Outputs(c) \cap SpendsOf(S) = {}
  <2>1. OutputsOf({c}) = Outputs(c)
    BY DEF OutputsOf
  <2>2. OutputsOf({c}) \cap OutputsOf(S) = {}
    BY <1>8, OutputsApart
  <2>3. SpendsOf(S) \subseteq base \cup OutputsOf(S)
    BY <1>7 DEF Holds
  <2> QED
    BY <1>9, <2>1, <2>2, <2>3
<1>12. o.spent = SpentBy(b) /\ o.undo = UndoOf(b)
  BY <1>7, <1>9 DEF Holds, SpentBy, UndoOf
<1>13. o.created \cup Outputs(c) = CreatedBy(b)
  <2>1. o.created = OutputsOf(S) \ SpendsOf(S)
    BY <1>7, <1>10 DEF Holds
  <2> QED
    BY <1>9, <1>11, <2>1 DEF CreatedBy, SpentBy
<1>14. r = [o EXCEPT !.created = @ \cup Outputs(c)]
  BY <1>1, <1>3, <1>5 DEF ValidateFullBlock
<1>15. r.spent = o.spent /\ r.created = o.created \cup Outputs(c) /\ r.undo = o.undo
       /\ r.fees = o.fees
  BY <1>4, <1>14 DEF Overlays
<1> QED
  BY <1>7, <1>12, <1>13, <1>15

(* The loop and the closed form agree on a block that links to the tip.    *)
LoopAgrees ==
  phase = "running" =>
    \A b \in Blocks : LinksToTip(b) =>
      LET r == ValidateFullBlock(utxos, b, TargetAtTip)
      IN  /\ r.ok <=> NewTipOk(b)
          /\ r.ok => /\ r.spent = SpentBy(b) /\ r.created = CreatedBy(b)
                     /\ r.undo = UndoOf(b) /\ r.fees = FeesOf(b)

LEMMA LoopAgreesHere ==
  ASSUME IndexInv, CoinsInv, OutputsExist
  PROVE  LoopAgrees
<1> SUFFICES ASSUME phase = "running", NEW b \in Blocks, LinksToTip(b),
                    NEW r, r = ValidateFullBlock(utxos, b, TargetAtTip)
             PROVE  /\ r.ok <=> NewTipOk(b)
                    /\ r.ok => /\ r.spent = SpentBy(b) /\ r.created = CreatedBy(b)
                               /\ r.undo = UndoOf(b) /\ r.fees = FeesOf(b)
  BY DEF LoopAgrees
<1>1. utxos \subseteq OutputsOf(Txs)
  BY DEF OutputsExist
<1>2. r.ok <=> NewTipOk(b)
  BY <1>1, LoopAccepts DEF NewTipOk
<1>3. ASSUME r.ok
      PROVE  OutputsOf(TxsOf(b)) \cap utxos = {}
  <2>1. latest \in Nat /\ Height(b) = latest + 1
    BY DEF IndexInv, ReorgOK, LinksToTip
  <2>2. PICK C : C = Below(latest + 1) /\ utxos = CoinsOf(C)
    BY DEF CoinsInv
  <2>3. SpendsOf(C) \subseteq OutputsOf(C)
    BY <2>1, <2>2, SpendsAreOutputs DEF CoinsInv
  <2>4. \A t \in C : TxBody[t].coinbase => TxBody[t].claimedHeight # Height(b)
    <3> SUFFICES ASSUME NEW t \in C, TxBody[t].coinbase
                 PROVE  TxBody[t].claimedHeight # Height(b)
      OBVIOUS
    <3>1. PICK h \in 0..latest : t \in TxsOf(blocks[h])
      BY <2>1, <2>2 DEF Below
    <3>2. TxBody[t].claimedHeight = h
      BY <3>1 DEF CoinsInv, BlocksSound
    <3> QED
      BY <2>1, <3>2
  <2>5. BlockValid(utxos, b, TargetAtTip)
    BY <1>2, <1>3 DEF NewTipOk
  <2>6. TxsOf(b) \cap C = {}
    BY <2>2, <2>3, <2>4, <2>5, ValidBlockIsNew
  <2>7. OutputsOf(TxsOf(b)) \cap OutputsOf(C) = {}
    BY <2>6, OutputsApart
  <2> QED
    BY <2>2, <2>7 DEF CoinsOf
<1>4. ASSUME r.ok
      PROVE  /\ r.spent = SpentBy(b) /\ r.created = CreatedBy(b)
             /\ r.undo = UndoOf(b) /\ r.fees = FeesOf(b)
  BY <1>1, <1>3, <1>4, LoopDiff
<1> QED
  BY <1>2, <1>4

(* What the code commits is what the model commits: whenever a block is    *)
(* examined as the next of the local chain, the loop of                    *)
(* validate_full_block accepts it exactly when it is valid in the closed   *)
(* form of ZnxState, and the changes it collects are the closed form's, in *)
(* every state that the commits, reorgs, failed writes and crashes lead to *)
(* without undoing a block that spends an output of its own.               *)
THEOREM LoopIsClosedForm == Spec /\ UndosAreClean => []LoopAgrees
  BY CoinsInvariant, OutputsInvariant, LoopAgreesHere, PTL
=============================================================================
