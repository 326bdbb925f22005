------------------------------ MODULE ZnxChain ------------------------------
(***************************************************************************)
(* The chain of one znx-node: the genesis bootstrap, the extension of the  *)
(* tip and the fork choice, on top of the database.  Everything between    *)
(* two changes of the database runs under the storage lock, so an action   *)
(* is one handler up to its database write; a reorg, which writes once per *)
(* block, is a sequence of actions that holds the lock throughout and that *)
(* a crash or a failed write can cut short.                                *)
(***************************************************************************)
EXTENDS ZnxStorage

CONSTANTS
  MaxBackfillDepth,  \* MAX_BACKFILL_DEPTH, the longest candidate chain
  MaxHandlers,       \* bound: backfills that are past their last lookup
  MaxFaults          \* bound: crashes and failed writes of a behaviour

ASSUME ChainAssumption ==
  MaxBackfillDepth \in Nat /\ MaxHandlers \in Nat /\ MaxFaults \in Nat

VARIABLES
  phase,   \* of the process: "boot", "premine", "running"
  found,   \* backfilled chains whose ancestor was found under an earlier lock
  reorg,   \* the reorg that holds the storage lock; lost in a crash
  faults   \* crashes and failed writes so far

vars == <<storage, phase, found, reorg, faults>>

(* undone is the local chain above the fork, done counts the blocks of     *)
(* chain ("commit") or of undone ("restore") already in the database.      *)
Idle == [stage |-> "idle", fork |-> 0, chain |-> <<>>, undone |-> <<>>, done |-> 0]

Reorgs ==
  [stage : {"idle", "undo", "commit", "rollback", "restore"}, fork : Nat,
   chain : Seq(Blocks), undone : Seq(Blocks), done : Nat]

(* What a backfill can collect: the block received and, below it, what the *)
(* peer answered for each lower height.  A peer that runs this code sends  *)
(* a block of that height; nothing checks that it is the parent of the     *)
(* block above it.                                                         *)
CandidateChains ==
  {c \in UNION {[1..n -> Blocks] : n \in 1..MaxBackfillDepth} :
     \A i \in 2..Len(c) : Height(c[i]) = Height(c[i - 1]) + 1}

Init ==
  /\ StorageInit
  /\ phase = "boot"
  /\ found = {}
  /\ reorg = Idle
  /\ faults = 0

-----------------------------------------------------------------------------
(* Bootstrap: two writes, the block and then the outputs of its premine.   *)

PutGenesis ==
  /\ phase = "boot" /\ latest = NoHeight
  /\ PutBlock(GenesisBlock)
  /\ phase' = "premine"
  /\ UNCHANGED <<found, reorg, faults>>

ApplyPremine ==
  /\ phase = "premine"
  /\ ApplyChanges({}, OutputsOf(TxsOf(GenesisBlock)))
  /\ phase' = "running"
  /\ UNCHANGED <<found, reorg, faults>>

Restart ==
  /\ phase = "boot" /\ latest # NoHeight
  /\ phase' = "running"
  /\ UNCHANGED <<storage, found, reorg, faults>>

-----------------------------------------------------------------------------
LockFree == phase = "running" /\ reorg = Idle

TargetAtTip ==
  ExpectedTarget([h \in DOMAIN blocks |-> Header[blocks[h]].target],
                 [h \in DOMAIN blocks |-> Header[blocks[h]].timestamp],
                 latest + 1)

LinksToTip(b) == Height(b) = latest + 1 /\ Parent(b) = blocks[latest]

(* commit_new_tip succeeds.                                                *)
NewTipOk(b) == LinksToTip(b) /\ BlockValid(utxos, b, TargetAtTip)

CommitTip(b) == CommitBlock(b, SpentBy(b), CreatedBy(b), UndoOf(b))

(* A block from gossip, from the own miner or from a sync that extends the *)
(* tip.  One that does not, and is no sibling, changes nothing here.       *)
CommitNewTip(b) ==
  /\ LockFree
  /\ NewTipOk(b)
  /\ CommitTip(b)
  /\ UNCHANGED <<phase, found, reorg, faults>>

(* Mutant: the longer chain wins.                                          *)
CandidateWins_Longer(fork, chain) ==
  \/ Len(chain) > latest - fork
  \/ Len(chain) = latest - fork /\ chain[Len(chain)] < blocks[latest]

(* The candidate weighs more than the local blocks above the fork, by the  *)
(* targets that the blocks declare; a tie goes to the smaller tip hash.    *)
CandidateWins(fork, chain) ==
  LET local     == CumulativeWork([h \in fork + 1..latest |-> Header[blocks[h]].target])
      candidate == CumulativeWork([i \in DOMAIN chain |-> Header[chain[i]].target])
  IN  \/ candidate > local
      \/ candidate = local /\ chain[Len(chain)] < blocks[latest]

(* The entry of try_reorg_to_chain.                                        *)
TryReorg(fork, chain) ==
  reorg' = IF CandidateWins(fork, chain)
           THEN [Idle EXCEPT !.stage = IF latest = fork THEN "commit" ELSE "undo",
                             !.fork = fork, !.chain = chain]
           ELSE Idle

(* Mutant: the height under the genesis block is not 0 but -1.             *)
SiblingReorg_NotSaturating(b) ==
  /\ LockFree
  /\ Height(b) = latest
  /\ TryReorg(latest - 1, <<b>>)
  /\ UNCHANGED <<storage, phase, found, faults>>

(* A gossiped block at the local height that does not extend the tip.      *)
SiblingReorg(b) ==
  /\ LockFree
  /\ Height(b) = latest
  /\ TryReorg(IF latest = 0 THEN 0 ELSE latest - 1, <<b>>)
  /\ UNCHANGED <<storage, phase, found, faults>>

(* A backfill finds the parent of its earliest block and lets the lock go. *)
FindAncestor(c) ==
  /\ LockFree
  /\ c \notin found /\ Cardinality(found) < MaxHandlers
  /\ Parent(c[1]) \in DOMAIN hashIndex
  /\ found' = found \cup {c}
  /\ UNCHANGED <<storage, phase, reorg, faults>>

(* It takes the lock again and relies on the height it saw before.  If the *)
(* local chain has become shorter than that, the subtraction of heights    *)
(* underflows and the task dies before it touches the database.            *)
BackfillReorg(c) ==
  LET fork == Height(Parent(c[1]))
  IN  /\ LockFree
      /\ c \in found
      /\ found' = found \ {c}
      /\ IF fork <= latest THEN TryReorg(fork, c) ELSE reorg' = Idle
      /\ UNCHANGED <<storage, phase, faults>>

-----------------------------------------------------------------------------
(* The rest of try_reorg_to_chain, one database write per step.            *)

(* Mutant: the blocks undone are not put into their order.                 *)
ReorgUndo_Unreversed ==
  /\ reorg.stage = "undo"
  /\ UndoLatestBlock
  /\ reorg' = [reorg EXCEPT !.undone = Append(@, blocks[latest]),
                            !.stage = IF latest' = reorg.fork THEN "commit" ELSE "undo"]
  /\ UNCHANGED <<phase, found, faults>>

ReorgUndo ==
  /\ reorg.stage = "undo"
  /\ UndoLatestBlock
  /\ reorg' = [reorg EXCEPT !.undone = <<blocks[latest]>> \o @,
                            !.stage = IF latest' = reorg.fork THEN "commit" ELSE "undo"]
  /\ UNCHANGED <<phase, found, faults>>

NextCandidate == reorg.chain[reorg.done + 1]

ReorgCommit ==
  /\ reorg.stage = "commit"
  /\ NewTipOk(NextCandidate)
  /\ CommitTip(NextCandidate)
  /\ reorg' = IF reorg.done + 1 = Len(reorg.chain) THEN Idle
              ELSE [reorg EXCEPT !.done = @ + 1]
  /\ UNCHANGED <<phase, found, faults>>

(* After a failed commit: undo what was applied, then put the local blocks *)
(* back, and return the error.                                             *)
RestoreOrEnd ==
  IF reorg.undone = <<>> THEN Idle
  ELSE [reorg EXCEPT !.stage = "restore", !.done = 0]

(* Mutant: the block that failed is tried again.                           *)
GiveUp_Retries == reorg' = reorg

GiveUp == reorg' = IF latest > reorg.fork THEN [reorg EXCEPT !.stage = "rollback"]
                   ELSE RestoreOrEnd

ReorgReject ==
  /\ reorg.stage = "commit"
  /\ ~NewTipOk(NextCandidate)
  /\ GiveUp
  /\ UNCHANGED <<storage, phase, found, faults>>

ReorgRollback ==
  /\ reorg.stage = "rollback"
  /\ UndoLatestBlock
  /\ reorg' = IF latest' > reorg.fork THEN reorg ELSE RestoreOrEnd
  /\ UNCHANGED <<phase, found, faults>>

NextOriginal == reorg.undone[reorg.done + 1]

(* commit_new_tip(..).expect(..): RestoreNeverPanics says that it may.     *)
ReorgRestore ==
  /\ reorg.stage = "restore"
  /\ NewTipOk(NextOriginal)
  /\ CommitTip(NextOriginal)
  /\ reorg' = IF reorg.done + 1 = Len(reorg.undone) THEN Idle
              ELSE [reorg EXCEPT !.done = @ + 1]
  /\ UNCHANGED <<phase, found, faults>>

ReorgStep == ReorgUndo \/ ReorgCommit \/ ReorgReject \/ ReorgRollback \/ ReorgRestore

-----------------------------------------------------------------------------
(* Faults.                                                                 *)

Crash ==
  /\ phase = "running" /\ faults < MaxFaults
  /\ faults' = faults + 1
  /\ phase' = "boot" /\ found' = {} /\ reorg' = Idle
  /\ UNCHANGED storage

(* RocksDB refuses a write.  While candidates are committed the error is   *)
(* handled like an invalid block; elsewhere it leaves the function (or     *)
(* panics, in restore) and the node goes on with what is in the database.  *)
WriteFails ==
  /\ reorg # Idle /\ faults < MaxFaults
  /\ faults' = faults + 1
  /\ IF reorg.stage = "commit" THEN GiveUp ELSE reorg' = Idle
  /\ UNCHANGED <<storage, phase, found>>

-----------------------------------------------------------------------------
Next ==
  \/ PutGenesis \/ ApplyPremine \/ Restart
  \/ \E b \in Blocks : CommitNewTip(b) \/ SiblingReorg(b)
  \/ \E c \in CandidateChains : FindAncestor(c) \/ BackfillReorg(c)
  \/ ReorgStep
  \/ Crash \/ WriteFails

Spec == Init /\ [][Next]_vars

(* try_reorg_to_chain is synchronous code: once entered, it runs on.       *)
FairSpec == Spec /\ WF_vars(ReorgStep)

-----------------------------------------------------------------------------
(* Properties.                                                             *)

TypeOK ==
  /\ StorageTypeOK
  /\ phase \in {"boot", "premine", "running"}
  /\ found \subseteq CandidateChains
  /\ reorg \in Reorgs
  /\ faults \in 0..MaxFaults

(* The column families describe one chain: a block at every height up to   *)
(* the latest, linked by parent, found by its hash and by no other, with   *)
(* undo data for every block but the genesis.  commit_new_tip, the reorg   *)
(* and the answers to peers and to the RPC unwrap these reads.             *)
IndexesAgree ==
  /\ DOMAIN blocks = 0..latest
  /\ DOMAIN hashIndex = {blocks[h] : h \in 0..latest}
  /\ DOMAIN undo = 1..latest
  /\ \A h \in 0..latest :
       /\ Height(blocks[h]) = h
       /\ hashIndex[blocks[h]] = h
       /\ h > 0 => Parent(blocks[h]) = blocks[h - 1]

ChainTxs == UNION {TxsOf(blocks[h]) : h \in DOMAIN blocks}

(* The UTXO set is what replaying the local chain leaves, whichever blocks *)
(* the node committed and undid to get there and wherever it crashed.      *)
UtxosReplayChain ==
  phase = "running" => utxos = OutputsOf(ChainTxs) \ SpendsOf(ChainTxs)

(* The transaction index names exactly the confirmed transactions, each at *)
(* the height of the block that has it (get_transaction panics otherwise), *)
(* except the premine, which put_block does not index.                     *)
TxIndexAgrees ==
  /\ DOMAIN txIndex = ChainTxs \ TxsOf(GenesisBlock)
  /\ \A t \in DOMAIN txIndex : t \in TxsOf(blocks[txIndex[t]])

(* A local block that a failed reorg took off validates again when it is   *)
(* put back: the expect in try_reorg_to_chain never panics.                *)
RestoreNeverPanics ==
  reorg.stage = "restore" => NewTipOk(NextOriginal)

(* No coins beyond the premine and the subsidies of the heights reached.   *)
SupplyWithinSchedule ==
  SumFunction([o \in utxos |-> AmountOf(o)])
    <= SumFunction([t \in TxsOf(GenesisBlock) |-> TotalOut(t)])
       + SumFunction([h \in 1..latest |-> SubsidyForHeight(h)])

(* Every reorg ends and lets the storage lock go.                          *)
ReorgEnds == (reorg # Idle) ~> (reorg = Idle)

(* The chain that the other handlers have seen or will see: while a reorg  *)
(* holds the lock, the one it started from.                                *)
LocalChain == [i \in 1..latest + 1 |-> blocks[i - 1]]

VisibleChain ==
  IF phase = "premine" THEN <<>>
  ELSE IF reorg = Idle THEN LocalChain
  ELSE (IF reorg.stage = "undo" THEN LocalChain
        ELSE SubSeq(LocalChain, 1, reorg.fork + 1)) \o reorg.undone

VisibleCoins ==
  IF phase = "premine" THEN {}
  ELSE IF reorg = Idle THEN utxos
  ELSE Replay(VisibleChain)

Ledger == INSTANCE ZnxLedger WITH chain <- VisibleChain, coins <- VisibleCoins

(* The node implements the abstract ledger: seen from outside the lock, it *)
(* moves only to valid, strictly better chains and back from failed reorgs *)
(* to the very chain and coins it left, until a fault hits: that can leave *)
(* it halfway, on a valid chain made of the old one up to some height and  *)
(* the first blocks of a better one, and with the coins of that chain.     *)
ImplementsLedger == Ledger!Spec
=============================================================================
