----------------------------- MODULE ZnxNetwork -----------------------------
(***************************************************************************)
(* Several znx-nodes that exchange blocks: gossip, block requests, the     *)
(* backfill of forks, the initial block download (IBD), strikes and bans.  *)
(* Every message is handled by a task of its own, so a node has several at *)
(* once, each holding the storage lock for the steps that need it.  A      *)
(* reorg is one step here; ZnxChain opens it up and adds crashes.          *)
(***************************************************************************)
EXTENDS ZnxRules, SequencesExt

CONSTANTS
  Nodes,
  Miner,             \* the node that mines each block, if it is ever mined
  InitialChains,     \* what the nodes can have in their databases, [Nodes -> chain]
  StrikesBeforeBan,  \* STRIKES_BEFORE_BAN
  MaxBackfillDepth,  \* MAX_BACKFILL_DEPTH
  IbdWindow,         \* IBD_PIPELINE_WINDOW
  MaxIbdBlocks,      \* MAX_IBD_BLOCKS_PER_SYNC
  MaxTasks,          \* bound: handlers of one node that wait for something
  MaxConnects,       \* bound: connections opened
  MaxFaults          \* bound: messages lost, requests failed, connections lost

ASSUME NetworkAssumption ==
  /\ Miner \in [Blocks -> Nodes]
  /\ InitialChains \subseteq [Nodes -> Seq(Blocks) \ {<<>>}]
  /\ StrikesBeforeBan \in Nat \ {0} /\ IbdWindow \in Nat \ {0}
  /\ MaxBackfillDepth \in Nat /\ MaxIbdBlocks \in Nat
  /\ MaxTasks \in Nat /\ MaxConnects \in Nat /\ MaxFaults \in Nat

(* A database has only what a node has committed to it.                    *)
ASSUME DatabasesAssumption ==
  \A c \in InitialChains, n \in Nodes : ValidChain(c[n])

VARIABLES
  chain,     \* node -> its blocks, the one of height 0 first
  tasks,     \* node -> slot -> what the handler in it waits for
  strikes,   \* node -> peer -> SharedNode.strikes
  blocked,   \* node -> the peers in its block list
  linked,    \* the pairs of nodes that are connected
  outbox,    \* node -> own blocks not published yet
  gossip,    \* blocks in flight, in any order
  heard,     \* node -> message ids in the duplicate cache of gossipsub
  connects,  \* connections opened so far
  faults     \* faults so far

vars == <<chain, tasks, strikes, blocked, linked, outbox, gossip, heard, connects, faults>>

Slots == 1..MaxTasks
Free  == [stage |-> "free"]

(* What a request_block returns: a block or one of these.                  *)
NoBlock == -1
Waiting == -2

Init ==
  /\ chain \in InitialChains
  /\ tasks = [n \in Nodes |-> [i \in Slots |-> Free]]
  /\ strikes = [n \in Nodes |-> [p \in Nodes |-> 0]]
  /\ blocked = [n \in Nodes |-> {}]
  /\ linked = {}
  /\ outbox = [n \in Nodes |-> {}]
  /\ gossip = {}
  /\ heard = [n \in Nodes |-> {}]
  /\ connects = 0 /\ faults = 0

-----------------------------------------------------------------------------
(* What the storage of a node does, on a chain.                            *)

TipHeight(c) == Len(c) - 1

(* Neither UnexpectedHeight nor ParentMismatch.                            *)
Fits(c, b) == Height(b) = Len(c) /\ Parent(b) = Last(c)

CommitOk(c, b) == Fits(c, b) /\ BlockValid(Replay(c), b, TargetAfter(c))

(* The blocks from genesis to b, and whether a node can ever commit b.     *)
PathTo(b) ==
  LET ancestor[k \in Nat] == IF k = 0 THEN b ELSE Parent(ancestor[k - 1])
  IN  [i \in 1..Height(b) + 1 |-> ancestor[(Height(b) + 1) - i]]

Sound(b) == ValidChain(PathTo(b))

Below(c, fork) == SubSeq(c, 1, fork + 1)

(* try_reorg_to_chain weighs both sides above the fork.                    *)
CandidateWins(c, fork, candidate) ==
  LET local == SubSeq(c, fork + 2, Len(c))
  IN  \/ Work(candidate) > Work(local)
      \/ Work(candidate) = Work(local) /\ Last(candidate) < Last(c)

AllCommit(c, candidate) ==
  \A i \in DOMAIN candidate :
    CommitOk(c \o SubSeq(candidate, 1, i - 1), candidate[i])

(* Ok(true), Err and, otherwise, Ok(false).  An error restores the chain.  *)
ReorgMoves(c, fork, candidate) ==
  CandidateWins(c, fork, candidate) /\ AllCommit(Below(c, fork), candidate)

ReorgFails(c, fork, candidate) ==
  CandidateWins(c, fork, candidate) /\ ~AllCommit(Below(c, fork), candidate)

AfterReorg(c, fork, candidate) ==
  IF ReorgMoves(c, fork, candidate) THEN Below(c, fork) \o candidate ELSE c

-----------------------------------------------------------------------------
(* Peers.                                                                  *)

PeersOf(n) == {p \in Nodes : {n, p} \in linked /\ p # n}

(* record_strike.  At the threshold it tells the network task to ban.      *)
Strike(n, p) ==
  /\ strikes' = [strikes EXCEPT ![n][p] = @ + 1]
  /\ UNCHANGED <<blocked, linked>>

NoStrike == UNCHANGED <<strikes, blocked, linked>>

StrikeIf(guilty, n, p) == IF guilty THEN Strike(n, p) ELSE NoStrike

FreeSlots(n) == {i \in Slots : tasks[n][i] = Free}

Started(n, task) == [tasks[n] EXCEPT ![Min(FreeSlots(n))] = task]

Become(n, i, task) == tasks' = [tasks EXCEPT ![n][i] = task]

(* Either side tells its node that a peer has connected, which starts an   *)
(* initial download, also when the two are connected already.              *)
Sync(p) == [stage |-> "window", peer |-> p, synced |-> 0]

Connect(n, p) ==
  /\ n # p /\ p \notin blocked[n] /\ n \notin blocked[p]
  /\ connects < MaxConnects
  /\ FreeSlots(n) # {} /\ FreeSlots(p) # {}
  /\ connects' = connects + 1
  /\ linked' = linked \cup {{n, p}}
  /\ tasks' = [tasks EXCEPT ![n] = Started(n, Sync(p)), ![p] = Started(p, Sync(n))]
  /\ UNCHANGED <<chain, strikes, blocked, outbox, gossip, heard, faults>>

(* The network task gets to the ban of a peer.                             *)
Ban(n, p) ==
  /\ strikes[n][p] >= StrikesBeforeBan /\ p \notin blocked[n]
  /\ blocked' = [blocked EXCEPT ![n] = @ \cup {p}]
  /\ linked' = linked \ {{n, p}}
  /\ UNCHANGED <<chain, tasks, strikes, outbox, gossip, heard, connects, faults>>

(* A connection is lost, or rotated away.                                  *)
Disconnect(n, p) ==
  /\ {n, p} \in linked /\ faults < MaxFaults
  /\ faults' = faults + 1
  /\ linked' = linked \ {{n, p}}
  /\ UNCHANGED <<chain, tasks, strikes, blocked, outbox, gossip, heard, connects>>

-----------------------------------------------------------------------------
(* Gossip.                                                                 *)

(* submit_own_block, when the tip is still the parent; the block goes into *)
(* the command queue of the network task.                                  *)
Mine(n, b) ==
  /\ Miner[b] = n /\ b \notin heard[n]
  /\ CommitOk(chain[n], b)
  /\ chain' = [chain EXCEPT ![n] = Append(@, b)]
  /\ outbox' = [outbox EXCEPT ![n] = @ \cup {b}]
  /\ heard' = [heard EXCEPT ![n] = @ \cup {b}]
  /\ UNCHANGED <<tasks, strikes, blocked, linked, gossip, connects, faults>>

(* A peer that is not this program publishes a block that no node commits. *)
Misbehave(n, b) ==
  /\ Miner[b] = n /\ b \notin heard[n] /\ faults < MaxFaults
  /\ ~Sound(b)
  /\ faults' = faults + 1
  /\ outbox' = [outbox EXCEPT ![n] = @ \cup {b}]
  /\ heard' = [heard EXCEPT ![n] = @ \cup {b}]
  /\ UNCHANGED <<chain, tasks, strikes, blocked, linked, gossip, connects>>

(* What of a message reaches whom: gossipsub drops what a node has had.    *)
Copies(n, b, peers) == {[block |-> b, from |-> n, to |-> p] : p \in {q \in peers : b \notin heard[q]}}

(* Mutant: a block that nobody was there to hear is not tried again.       *)
Publish_Once(n, b) ==
  /\ b \in outbox[n]
  /\ gossip' = gossip \cup Copies(n, b, PeersOf(n))
  /\ outbox' = [outbox EXCEPT ![n] = @ \ {b}]
  /\ UNCHANGED <<chain, tasks, strikes, blocked, linked, heard, connects, faults>>

(* publish_or_retry: without peers the block is tried again later, that    *)
(* is, until there are some.                                               *)
Publish(n, b) ==
  /\ b \in outbox[n] /\ PeersOf(n) # {}
  /\ gossip' = gossip \cup Copies(n, b, PeersOf(n))
  /\ outbox' = [outbox EXCEPT ![n] = @ \ {b}]
  /\ UNCHANGED <<chain, tasks, strikes, blocked, linked, heard, connects, faults>>

(* A message for a node that has not heard it; its report decides whether  *)
(* gossipsub passes the message on.                                        *)
Hear(m, accepted) ==
  /\ m \in gossip
  /\ heard' = [heard EXCEPT ![m.to] = @ \cup {m.block}]
  /\ gossip' = {x \in gossip : x.to # m.to \/ x.block # m.block} \cup
       IF accepted THEN Copies(m.to, m.block, PeersOf(m.to) \ {m.from}) ELSE {}
  /\ UNCHANGED <<outbox, connects, faults>>

(* The branches of handle_inbound_block.                                   *)
InboundExtends(m) ==
  /\ Hear(m, TRUE)
  /\ CommitOk(chain[m.to], m.block)
  /\ chain' = [chain EXCEPT ![m.to] = Append(@, m.block)]
  /\ NoStrike /\ UNCHANGED tasks

InboundInvalid(m) ==
  /\ Hear(m, FALSE)
  /\ Fits(chain[m.to], m.block) /\ ~CommitOk(chain[m.to], m.block)
  /\ Strike(m.to, m.from)
  /\ UNCHANGED <<chain, tasks>>

(* Only the last block is compared and replaced, however deep the fork is. *)
InboundSibling(m) ==
  LET c    == chain[m.to]
      fork == AtLeast(TipHeight(c) - 1, 0)
  IN  /\ Hear(m, TRUE)
      /\ ~Fits(c, m.block) /\ Height(m.block) = TipHeight(c)
      /\ chain' = [chain EXCEPT ![m.to] = AfterReorg(c, fork, <<m.block>>)]
      /\ StrikeIf(ReorgFails(c, fork, <<m.block>>), m.to, m.from)
      /\ UNCHANGED tasks

(* The report is sent, and the block passed on, before its ancestors are   *)
(* known.                                                                  *)
InboundOrphan(m) ==
  LET c == chain[m.to]
  IN  /\ Hear(m, TRUE)
      /\ ~Fits(c, m.block) /\ Height(m.block) # TipHeight(c)
      /\ FreeSlots(m.to) # {}
      /\ tasks' = [tasks EXCEPT ![m.to] =
                     Started(m.to, [stage |-> "lookup", peer |-> m.from, blocks |-> <<m.block>>])]
      /\ NoStrike /\ UNCHANGED chain

HandleGossip(m) ==
  InboundExtends(m) \/ InboundInvalid(m) \/ InboundSibling(m) \/ InboundOrphan(m)

Lose(m) ==
  /\ m \in gossip /\ faults < MaxFaults
  /\ faults' = faults + 1
  /\ gossip' = gossip \ {m}
  /\ UNCHANGED <<chain, tasks, strikes, blocked, linked, outbox, heard, connects>>

-----------------------------------------------------------------------------
(* Requests.  handle_block_request reads the chain of the peer when the    *)
(* peer gets to it; the answer is used whenever the task gets to it.       *)

BlockAt(p, height) == IF height < Len(chain[p]) THEN chain[p][height + 1] ELSE NoBlock

(* Some answer to a request of a task of n, and what it costs in faults.   *)
Answered(n, peer, height, answer) ==
  \/ /\ peer \in PeersOf(n)
     /\ answer = BlockAt(peer, height)
     /\ UNCHANGED faults
  \/ /\ peer \notin PeersOf(n)
     /\ answer = NoBlock
     /\ UNCHANGED faults
  \/ /\ peer \in PeersOf(n) /\ faults < MaxFaults
     /\ answer = NoBlock
     /\ faults' = faults + 1

(* The steps of a task that are not under the storage lock of its node.    *)
TaskOnly == UNCHANGED <<chain, strikes, blocked, linked, outbox, gossip, heard, connects>>
TaskStep == UNCHANGED <<outbox, gossip, heard, connects, faults>>

-----------------------------------------------------------------------------
(* backfill_and_reorg: parents are asked for until one is in the local     *)
(* chain or there were too many.  The genesis block has no parent.         *)

ParentFound(n, b) == b # GenesisBlock /\ Parent(b) \in ToSet(chain[n])

BackfillLookup(n, i) ==
  LET task   == tasks[n][i]
      oldest == Head(task.blocks)
  IN  /\ task.stage = "lookup"
      /\ Become(n, i,
           IF Len(task.blocks) > MaxBackfillDepth THEN Free
           ELSE IF ParentFound(n, oldest) THEN [task EXCEPT !.stage = "reorg"]
           ELSE IF Height(oldest) = 0 THEN Free
           ELSE [task EXCEPT !.stage = "asked"])
      /\ TaskOnly /\ UNCHANGED faults

(* Mutant: the answer is asked for at the height of the block itself.      *)
ParentHeight_Same(b) == Height(b)

ParentHeight(b) == Height(b) - 1

BackfillAnswer(n, i) ==
  LET task == tasks[n][i]
  IN  /\ task.stage = "asked"
      /\ \E answer \in Blocks \cup {NoBlock} :
           /\ Answered(n, task.peer, ParentHeight(Head(task.blocks)), answer)
           /\ Become(n, i, IF answer = NoBlock THEN Free
                           ELSE [task EXCEPT !.stage = "lookup", !.blocks = <<answer>> \o @])
      /\ TaskOnly

(* If the chain has become shorter than the ancestor the task dies.        *)
BackfillReorg(n, i) ==
  LET task == tasks[n][i]
      c    == chain[n]
      fork == Height(Parent(Head(task.blocks)))
      runs == fork <= TipHeight(c)
  IN  /\ task.stage = "reorg"
      /\ chain' = [chain EXCEPT ![n] = IF runs THEN AfterReorg(c, fork, task.blocks) ELSE c]
      /\ StrikeIf(runs /\ ReorgFails(c, fork, task.blocks), n, task.peer)
      /\ Become(n, i, Free)
      /\ TaskStep

-----------------------------------------------------------------------------
(* run_ibd_sync: a window of heights above the tip of the moment is asked  *)
(* for at once, all answers are awaited, then applied in order.            *)

IbdWindowStart(n, i) ==
  LET task == tasks[n][i]
  IN  /\ task.stage = "window"
      /\ Become(n, i,
           IF task.synced >= MaxIbdBlocks THEN Free
           ELSE [stage |-> "download", peer |-> task.peer, synced |-> task.synced,
                 base |-> TipHeight(chain[n]), answers |-> [k \in 1..IbdWindow |-> Waiting]])
      /\ TaskOnly /\ UNCHANGED faults

IbdAnswer(n, i) ==
  LET task == tasks[n][i]
  IN  /\ task.stage = "download"
      /\ \E k \in DOMAIN task.answers, answer \in Blocks \cup {NoBlock} :
           /\ task.answers[k] = Waiting
           /\ Answered(n, task.peer, task.base + k, answer)
           /\ Become(n, i, [task EXCEPT !.answers[k] = answer])
      /\ TaskOnly

(* Mutant: the block is appended if its height is the next one.            *)
IbdAccepts_AnyParent(c, b) == Height(b) = Len(c)

IbdAccepts(c, b) == CommitOk(c, b)

(* The next block of the window, each under a lock of its own.  Any error  *)
(* is a strike, also that the tip is no more where it was.                 *)
IbdApply(n, i) ==
  LET task  == tasks[n][i]
      block == Head(task.answers)
      ok    == IbdAccepts(chain[n], block)
  IN  /\ task.stage = "download" /\ Waiting \notin ToSet(task.answers)
      /\ IF block = NoBlock
         THEN Become(n, i, Free) /\ NoStrike /\ UNCHANGED chain
         ELSE /\ chain' = IF ok THEN [chain EXCEPT ![n] = Append(@, block)] ELSE chain
              /\ StrikeIf(~ok, n, task.peer)
              /\ Become(n, i,
                   CASE ~ok -> Free
                     [] ok /\ Len(task.answers) > 1 ->
                          [task EXCEPT !.answers = Tail(@), !.synced = @ + 1]
                     [] OTHER -> [Sync(task.peer) EXCEPT !.synced = task.synced + 1])
      /\ TaskStep

TaskSteps(n, i) ==
  \/ BackfillLookup(n, i) \/ BackfillAnswer(n, i) \/ BackfillReorg(n, i)
  \/ IbdWindowStart(n, i) \/ IbdAnswer(n, i) \/ IbdApply(n, i)

-----------------------------------------------------------------------------
Progress ==
  \/ \E n \in Nodes, b \in Blocks : Publish(n, b)
  \/ \E m \in gossip : HandleGossip(m)
  \/ \E n, p \in Nodes : Ban(n, p)
  \/ \E n \in Nodes, i \in Slots : TaskSteps(n, i)

Next ==
  \/ \E n, p \in Nodes : Connect(n, p) \/ Disconnect(n, p)
  \/ \E n \in Nodes, b \in Blocks : Mine(n, b) \/ Misbehave(n, b)
  \/ \E m \in gossip : Lose(m)
  \/ Progress

Spec == Init /\ [][Next]_vars

(* Nothing that is under way stands still: the publish is retried, what is *)
(* not lost arrives, requests are answered or time out, tasks run.         *)
FairSpec == Spec /\ WF_vars(Progress)

-----------------------------------------------------------------------------
(* Types; the blocks that a backfill has gathered have consecutive heights *)
(* (lib.rs:667), which does not make them a chain.                         *)
NetTypeOK ==
  /\ chain \in [Nodes -> Seq(Blocks)]
  /\ strikes \in [Nodes -> [Nodes -> Nat]]
  /\ blocked \in [Nodes -> SUBSET Nodes]
  /\ linked \subseteq {{n, p} : n, p \in Nodes}
  /\ outbox \in [Nodes -> SUBSET Blocks] /\ heard \in [Nodes -> SUBSET Blocks]
  /\ gossip \subseteq [block : Blocks, from : Nodes, to : Nodes]
  /\ \A n \in Nodes, i \in Slots :
       tasks[n][i].stage \in {"lookup", "asked", "reorg"} =>
         \A k \in 2..Len(tasks[n][i].blocks) :
           Height(tasks[n][i].blocks[k]) = Height(tasks[n][i].blocks[k - 1]) + 1

(* Whatever the handlers of a node do between each other's steps, its      *)
(* chain only ever moves to a valid one that is better (lib.rs:867, 884).  *)
MovesToBetter ==
  [][\A n \in Nodes : chain'[n] # chain[n] =>
       ValidChain(chain'[n]) /\ Better(chain'[n], chain[n])]_vars

(* Without faults, of two nodes that stay connected none stays behind the  *)
(* other on the same chain: what the download leaves out, gossip brings    *)
(* (lib.rs:716, p2p lib.rs:640).                                           *)
NotLeftBehind ==
  \A n \in Nodes : \A p \in Nodes \ {n} :
    <>[](faults = 0 /\ {n, p} \in linked => ~IsStrictPrefix(chain[n], chain[p]))

(* The blocks of a peer that a node has at hand.                           *)
SentBy(p, n) ==
  {m.block : m \in {x \in gossip : x.from = p /\ x.to = n}} \cup
  UNION {LET task == tasks[n][i]
         IN  CASE task.stage \in {"free", "window"} -> {}
               [] task.peer # p -> {}
               [] task.stage = "download" -> ToSet(task.answers) \cap Blocks
               [] OTHER -> ToSet(task.blocks) : i \in Slots}

(* Strikes count the invalid blocks of a peer (lib.rs:134): who is struck  *)
(* has sent one that no node can commit.                                   *)
StruckForInvalid ==
  [][\A n, p \in Nodes : strikes'[n][p] > strikes[n][p] =>
       \E b \in SentBy(p, n) : ~Sound(b)]_vars
=============================================================================
