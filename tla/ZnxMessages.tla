---------------------------- MODULE ZnxMessages ----------------------------
(***************************************************************************)
(* The network tasks of some nodes and the handlers of znx-node that talk  *)
(* to them through channels: block requests from the call of one handler   *)
(* to the answer of another, and gossip from a publish, which is retried,  *)
(* to the report on which libp2p passes a message on.  What libp2p does    *)
(* between two nodes is external.  A block is named by its height; what is *)
(* done with blocks is in ZnxNetwork.                                      *)
(***************************************************************************)
EXTENDS Integers, SequencesExt

CONSTANTS
  Nodes,
  Requests,               \* calls of request_block, [from, to, height, id]
  Messages,               \* [kind, by, wellFormed]: what can be gossiped
  MaxTop,                 \* bound: node -> height of its chain
  SizeOf,                 \* the encoded size of the block of each height
  MaxBlockResponseBytes,  \* MAX_BLOCK_RESPONSE_BYTES
  MaxFaults               \* bound: failed reads and publishes, losses of all peers

ASSUME MessagesAssumption ==
  /\ \A r \in Requests : r.from \in Nodes /\ r.to \in Nodes /\ r.height \in Nat
  /\ \A m \in Messages :
       m.kind \in {"tx", "block", "other"} /\ m.wellFormed \in BOOLEAN
  /\ MaxTop \in [Nodes -> Nat] /\ MaxFaults \in Nat
  /\ \A r \in Requests : SizeOf[r.height] \in Nat
  /\ MaxBlockResponseBytes \in Nat

VARIABLES
  queue,              \* node -> the commands for its network task, in order
  handlers,           \* node -> Inbound messages, each in a task of its own
  pending_requests,   \* node -> requests without an answer
  pending_responses,  \* node -> requests of others, not answered yet
  wire,               \* request -> what libp2p carries for it
  answers,            \* request -> what request_block returned
  retrying,           \* node -> publishes that wait for PUBLISH_RETRY_DELAY
  mesh,               \* node -> whether there is a peer to publish to
  gossip,             \* messages in flight between two nodes
  unreported,         \* node -> messages that wait for their report
  published,          \* messages that went out to peers
  made,               \* own blocks and transactions of users, of all nodes
  mempool,            \* node -> its pending transactions
  top,                \* node -> height of its chain
  faults

calls == <<pending_requests, pending_responses, wire, answers>>
talk  == <<retrying, mesh, gossip, unreported, published, made, mempool>>
vars  == <<queue, handlers, calls, talk, top, faults>>

Service == INSTANCE ZnxBlockService

NotCalled == Service!NotCalled
Waiting   == Service!Waiting
NoBlock   == Service!NoBlock

Idle == [stage |-> "idle"]
On(stage) == [stage |-> stage]
Carries(answer) == [stage |-> "response", answer |-> answer]

Init ==
  /\ queue = [n \in Nodes |-> <<>>]
  /\ handlers = [n \in Nodes |-> {}]
  /\ pending_requests = [n \in Nodes |-> {}]
  /\ pending_responses = [n \in Nodes |-> {}]
  /\ wire = [r \in Requests |-> Idle]
  /\ answers = [r \in Requests |-> NotCalled]
  /\ retrying = [n \in Nodes |-> {}]
  /\ mesh = [n \in Nodes |-> FALSE]
  /\ gossip = {}
  /\ unreported = [n \in Nodes |-> {}]
  /\ published = {} /\ made = {}
  /\ mempool = [n \in Nodes |-> {}]
  /\ top = [n \in Nodes |-> 0]
  /\ faults = 0

Send(n, command) == queue' = [queue EXCEPT ![n] = Append(@, command)]

Taken(n, command) == queue[n] # <<>> /\ Head(queue[n]) = command /\ queue' = [queue EXCEPT ![n] = Tail(@)]

Fault == faults < MaxFaults /\ faults' = faults + 1

-----------------------------------------------------------------------------
(* A block request, in the order of its life.                              *)

Request(r)          == [do |-> "RequestBlock", request |-> r]
Respond(r, answer)  == [do |-> "RespondBlock", request |-> r, answer |-> answer]
BlockRequest(r)     == [is |-> "BlockRequest", request |-> r]

(* request_block, up to its await.                                         *)
RequestBlock(r) ==
  /\ answers[r] = NotCalled
  /\ answers' = [answers EXCEPT ![r] = Waiting]
  /\ Send(r.from, Request(r))
  /\ UNCHANGED <<handlers, pending_requests, pending_responses, wire, talk, top, faults>>

SendRequest(r) ==
  /\ Taken(r.from, Request(r))
  /\ pending_requests' = [pending_requests EXCEPT ![r.from] = @ \cup {r}]
  /\ wire' = [wire EXCEPT ![r] = On("request")]
  /\ UNCHANGED <<handlers, pending_responses, answers, talk, top, faults>>

(* The network task of the peer passes the request to a handler.           *)
ReceiveRequest(r) ==
  /\ wire[r] = On("request")
  /\ wire' = [wire EXCEPT ![r] = On("serving")]
  /\ pending_responses' = [pending_responses EXCEPT ![r.to] = @ \cup {r}]
  /\ handlers' = [handlers EXCEPT ![r.to] = @ \cup {BlockRequest(r)}]
  /\ UNCHANGED <<queue, pending_requests, answers, talk, top, faults>>

(* Mutants: the tip is answered for what is above it; one block too many.  *)
BlockAt_Nearest(n, height) == IF height <= top[n] THEN height ELSE top[n]

BlockAt_OneMore(n, height) == IF height <= top[n] + 1 THEN height ELSE NoBlock

BlockAt(n, height) == IF height <= top[n] THEN height ELSE NoBlock

(* Mutant: after a failed read nothing is answered.                        *)
HandleBlockRequest_Silent(r) ==
  /\ BlockRequest(r) \in handlers[r.to]
  /\ handlers' = [handlers EXCEPT ![r.to] = @ \ {BlockRequest(r)}]
  /\ \/ Send(r.to, Respond(r, BlockAt(r.to, r.height))) /\ UNCHANGED faults
     \/ Fault /\ UNCHANGED queue
  /\ UNCHANGED <<calls, talk, top>>

(* handle_block_request; a read that fails is answered like a block that   *)
(* is not there.                                                           *)
HandleBlockRequest(r) ==
  /\ BlockRequest(r) \in handlers[r.to]
  /\ handlers' = [handlers EXCEPT ![r.to] = @ \ {BlockRequest(r)}]
  /\ \/ Send(r.to, Respond(r, BlockAt(r.to, r.height))) /\ UNCHANGED faults
     \/ Send(r.to, Respond(r, NoBlock)) /\ Fault
  /\ UNCHANGED <<calls, talk, top>>

SendResponse(r) ==
  /\ \E answer \in {NoBlock, r.height} :
       /\ Taken(r.to, Respond(r, answer))
       /\ wire' = IF r \in pending_responses[r.to]
                  THEN [wire EXCEPT ![r] = Carries(answer)] ELSE wire
  /\ pending_responses' = [pending_responses EXCEPT ![r.to] = @ \ {r}]
  /\ UNCHANGED <<handlers, pending_requests, answers, talk, top, faults>>

(* read_response: one that is too long is an error, which ends the request *)
(* as a failure.                                                           *)
ReadResponse(answer) ==
  IF answer # NoBlock /\ SizeOf[answer] > MaxBlockResponseBytes THEN NoBlock ELSE answer

(* The sender of a request is taken out of the map and told.               *)
Resolve(r, answer) ==
  /\ pending_requests' = [pending_requests EXCEPT ![r.from] = @ \ {r}]
  /\ answers' = [answers EXCEPT ![r] = IF r \in pending_requests[r.from] THEN answer ELSE @]

ReceiveResponse(r) ==
  /\ wire[r].stage = "response"
  /\ wire' = [wire EXCEPT ![r] = On("over")]
  /\ Resolve(r, ReadResponse(wire[r].answer))
  /\ UNCHANGED <<queue, handlers, pending_responses, talk, top, faults>>

(* OutboundFailure: a timeout, a lost connection, nobody to ask.           *)
OutboundFailure(r) ==
  /\ r \in pending_requests[r.from]
  /\ Resolve(r, NoBlock)
  /\ UNCHANGED <<queue, handlers, pending_responses, wire, talk, top, faults>>

(* InboundFailure, while the answer is being made.                         *)
InboundFailure(r) ==
  /\ r \in pending_responses[r.to]
  /\ pending_responses' = [pending_responses EXCEPT ![r.to] = @ \ {r}]
  /\ wire' = [wire EXCEPT ![r] = On("over")]
  /\ UNCHANGED <<queue, handlers, pending_requests, answers, talk, top, faults>>

(* The chain of a node grows.                                              *)
Grow(n) ==
  /\ top[n] < MaxTop[n]
  /\ top' = [top EXCEPT ![n] = @ + 1]
  /\ UNCHANGED <<queue, handlers, calls, talk, faults>>

-----------------------------------------------------------------------------
(* Gossip.                                                                 *)

Publish(m)     == [do |-> "Publish", message |-> m]
Report(m, ok)  == [do |-> "ReportMessageValidity", message |-> m, accepted |-> ok]
Gossiped(m)    == [is |-> "Gossip", message |-> m]

(* publish_block, at the end of submit_own_block.                          *)
PublishBlock(m) ==
  /\ m.kind = "block" /\ m.by \in Nodes /\ m \notin made
  /\ made' = made \cup {m}
  /\ Send(m.by, Publish(m))
  /\ UNCHANGED <<handlers, calls, retrying, mesh, gossip, unreported, published, mempool, top, faults>>

(* submit_transaction of the RPC server puts a transaction into the        *)
(* mempool, and that is all: publish_transaction is never called.          *)
SubmitTransaction(m) ==
  /\ m.kind = "tx" /\ m.by \in Nodes /\ m \notin made
  /\ made' = made \cup {m}
  /\ mempool' = [mempool EXCEPT ![m.by] = @ \cup {m}]
  /\ UNCHANGED <<queue, handlers, calls, retrying, mesh, gossip, unreported, published, top, faults>>

ToAll(m) == {[message |-> m, to |-> p] : p \in Nodes \ {m.by}}

(* Mutant: a publish that finds no peer is given up.                       *)
PublishOrRetry_Once(m) ==
  /\ Taken(m.by, Publish(m))
  /\ IF mesh[m.by] THEN published' = published \cup {m} /\ gossip' = gossip \cup ToAll(m)
     ELSE UNCHANGED <<published, gossip>>
  /\ UNCHANGED <<handlers, calls, retrying, mesh, unreported, made, mempool, top, faults>>

(* publish_or_retry: sent, or kept for another try, or lost to an error of *)
(* another kind.                                                           *)
PublishOrRetry(m) ==
  /\ Taken(m.by, Publish(m))
  /\ \/ /\ mesh[m.by]
        /\ published' = published \cup {m}
        /\ gossip' = gossip \cup ToAll(m)
        /\ UNCHANGED <<retrying, faults>>
     \/ /\ ~mesh[m.by]
        /\ retrying' = [retrying EXCEPT ![m.by] = @ \cup {m}]
        /\ UNCHANGED <<published, gossip, faults>>
     \/ Fault /\ UNCHANGED <<published, gossip, retrying>>
  /\ UNCHANGED <<handlers, calls, mesh, unreported, made, mempool, top>>

Retry(m) ==
  /\ m \in retrying[m.by]
  /\ retrying' = [retrying EXCEPT ![m.by] = @ \ {m}]
  /\ Send(m.by, Publish(m))
  /\ UNCHANGED <<handlers, calls, mesh, gossip, unreported, published, made, mempool, top, faults>>

(* External: the peers of a node come and go, and those that are not in    *)
(* Nodes gossip transactions, or anything else.                            *)
MeshForms(n) ==
  /\ ~mesh[n]
  /\ mesh' = [mesh EXCEPT ![n] = TRUE]
  /\ UNCHANGED <<queue, handlers, calls, retrying, gossip, unreported, published, made, mempool, top, faults>>

MeshBreaks(n) ==
  /\ mesh[n] /\ Fault
  /\ mesh' = [mesh EXCEPT ![n] = FALSE]
  /\ UNCHANGED <<queue, handlers, calls, retrying, gossip, unreported, published, made, mempool, top>>

Stray(m) ==
  /\ m.kind # "block" \/ m.by \notin Nodes
  /\ m \notin published
  /\ published' = published \cup {m}
  /\ \E g \in ToAll(m) : gossip' = gossip \cup {g}
  /\ UNCHANGED <<queue, handlers, calls, retrying, mesh, unreported, made, mempool, top, faults>>

(* A message of one of the two topics goes to a handler; of any other, it  *)
(* is rejected at once.                                                    *)
ReceiveGossip(g) ==
  /\ gossip' = gossip \ {g}
  /\ IF g.message.kind = "other" THEN UNCHANGED <<handlers, unreported>>
     ELSE /\ handlers' = [handlers EXCEPT ![g.to] = @ \cup {Gossiped(g.message)}]
          /\ unreported' = [unreported EXCEPT ![g.to] = @ \cup {g.message}]
  /\ UNCHANGED <<queue, calls, retrying, mesh, published, made, mempool, top, faults>>

(* Mutant: the report of a block is left to what is done with it later.    *)
Verdicts_NotBlocks(m) == IF m.kind = "tx" THEN {m.wellFormed} ELSE {}

(* handle_inbound_transaction and handle_inbound_block report as soon as   *)
(* the message is decoded and, for a block, tried.  A transaction that the *)
(* mempool refuses is accepted all the same; a block is accepted or, when  *)
(* it extends the tip and is invalid, not.                                 *)
Verdicts(m) ==
  CASE ~m.wellFormed -> {FALSE}
    [] m.kind = "tx" -> {TRUE}
    [] OTHER         -> BOOLEAN

HandleGossip(n, m) ==
  /\ Gossiped(m) \in handlers[n]
  /\ handlers' = [handlers EXCEPT ![n] = @ \ {Gossiped(m)}]
  /\ IF Verdicts(m) = {} THEN UNCHANGED queue
     ELSE \E ok \in Verdicts(m) : Send(n, Report(m, ok))
  /\ \/ UNCHANGED mempool
     \/ /\ m.kind = "tx" /\ m.wellFormed
        /\ mempool' = [mempool EXCEPT ![n] = @ \cup {m}]
  /\ UNCHANGED <<calls, retrying, mesh, gossip, unreported, published, made, top, faults>>

HandleReport(n, m) ==
  /\ \E ok \in BOOLEAN : Taken(n, Report(m, ok))
  /\ unreported' = [unreported EXCEPT ![n] = @ \ {m}]
  /\ UNCHANGED <<handlers, calls, retrying, mesh, gossip, published, made, mempool, top, faults>>

-----------------------------------------------------------------------------
(* The network task takes events of libp2p and commands as they come, and  *)
(* each handler is a task.                                                 *)
Events(n) ==
  \/ \E r \in Requests : r.from = n /\ ReceiveResponse(r)
  \/ \E r \in Requests : r.to = n /\ ReceiveRequest(r)
  \/ \E g \in gossip : g.to = n /\ ReceiveGossip(g)

Commands(n) ==
  \/ \E r \in Requests : r.from = n /\ SendRequest(r)
  \/ \E r \in Requests : r.to = n /\ SendResponse(r)
  \/ \E m \in Messages : HandleReport(n, m)
  \/ \E m \in Messages : m.by = n /\ PublishOrRetry(m)

Handlers(n) ==
  \/ \E r \in Requests : r.to = n /\ HandleBlockRequest(r)
  \/ \E m \in Messages : HandleGossip(n, m)

Wakes(n) == \E m \in Messages : m.by = n /\ Retry(m)

External ==
  \/ \E r \in Requests : OutboundFailure(r) \/ InboundFailure(r)
  \/ \E n \in Nodes : MeshForms(n) \/ MeshBreaks(n)
  \/ \E m \in Messages : Stray(m)

Users ==
  \/ \E r \in Requests : RequestBlock(r)
  \/ \E n \in Nodes : Grow(n)
  \/ \E m \in Messages : PublishBlock(m) \/ SubmitTransaction(m)

Next ==
  \/ External \/ Users
  \/ \E n \in Nodes : Events(n) \/ Commands(n) \/ Handlers(n) \/ Wakes(n)

(* select! starves neither events nor commands, tasks run, a retry wakes   *)
(* up, and libp2p ends every request, if only by its timeout.              *)
Fairness ==
  /\ \A n \in Nodes : /\ WF_vars(Events(n)) /\ WF_vars(Commands(n))
                      /\ WF_vars(Handlers(n)) /\ WF_vars(Wakes(n))
  /\ \A r \in Requests : WF_vars(OutboundFailure(r))

Spec == Init /\ [][Next]_vars /\ Fairness

-----------------------------------------------------------------------------
Command(n) ==
  [do : {"RequestBlock"}, request : {r \in Requests : r.from = n}] \cup
  (UNION {[do : {"RespondBlock"}, request : {r}, answer : {NoBlock, r.height}] :
            r \in {x \in Requests : x.to = n}}) \cup
  [do : {"Publish"}, message : {m \in Messages : m.by = n}] \cup
  [do : {"ReportMessageValidity"}, message : Messages, accepted : BOOLEAN]

(* A request is answered with its own block, or none.                      *)
TypeOK ==
  /\ \A n \in Nodes : queue[n] \in Seq(Command(n))
  /\ \A n \in Nodes :
       handlers[n] \subseteq [is : {"BlockRequest"}, request : {r \in Requests : r.to = n}]
                             \cup [is : {"Gossip"}, message : Messages]
  /\ \A n \in Nodes : pending_requests[n] \subseteq {r \in Requests : r.from = n}
  /\ \A n \in Nodes : pending_responses[n] \subseteq {r \in Requests : r.to = n}
  /\ \A r \in Requests :
       /\ wire[r] \in {Idle, On("request"), On("serving"), On("over"),
                       Carries(NoBlock), Carries(r.height)}
       /\ answers[r] \in {NotCalled, Waiting, NoBlock, r.height}
  /\ retrying \in [Nodes -> SUBSET Messages]
  /\ mesh \in [Nodes -> BOOLEAN]
  /\ gossip \subseteq [message : Messages, to : Nodes]
  /\ unreported \in [Nodes -> SUBSET Messages]
  /\ published \subseteq Messages /\ made \subseteq Messages
  /\ mempool \in [Nodes -> SUBSET Messages]
  /\ top \in [Nodes -> Nat] /\ faults \in 0..MaxFaults

(* The handlers see of all this only that a call ends, with a block that   *)
(* the peer had (lib.rs:242).                                              *)
ImplementsService == Service!Spec

(* For each channel that is kept for an answer to a peer, the answer is in *)
(* the making: none stays in the map for ever (lib.rs:371).                *)
AnswerIsComing ==
  \A n \in Nodes : \A r \in pending_responses[n] :
    \/ BlockRequest(r) \in handlers[n]
    \/ \E answer \in {NoBlock, r.height} : Respond(r, answer) \in ToSet(queue[n])

(* Every message of the two topics is reported; one that is not would not  *)
(* be passed on (lib.rs:198).                                              *)
EachIsReported ==
  \A n \in Nodes, m \in Messages : m \in unreported[n] ~> m \notin unreported[n]

(* A node whose peers stay gets its own blocks to them, however often it   *)
(* found none before, unless the publish fails for another reason          *)
(* (lib.rs:636).                                                           *)
BlocksReachPeers ==
  \A m \in {x \in Messages : x.by \in Nodes /\ x.kind = "block"} :
    <>[]mesh[m.by] => (m \in made ~> (m \in published \/ faults > 0))
=============================================================================
