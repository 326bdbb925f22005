------------------------- MODULE ZnxMessages_proofs -------------------------
(***************************************************************************)
(* The network tasks give the handlers the block service that they rely    *)
(* on, for any nodes, requests and messages: that a call ends at all needs *)
(* fairness and is left to TLC, that it never ends wrongly is proved.      *)
(***************************************************************************)
EXTENDS ZnxMessages, TLAPS

Single(s, c) == \A i, j \in DOMAIN s : s[i] = c /\ s[j] = c => i = j

Queued(n, c) == c \in ToSet(queue[n])

Shape ==
  /\ DOMAIN queue = Nodes /\ DOMAIN handlers = Nodes
  /\ DOMAIN pending_requests = Nodes /\ DOMAIN pending_responses = Nodes
  /\ DOMAIN wire = Requests /\ answers \in [Requests -> Int]
  /\ top \in [Nodes -> Nat]

(* A call waits from its command to its answer, for which there is one     *)
(* command and then one channel; and a block that is under way is one that *)
(* the peer had, and still has.                                            *)
CallInv ==
  \A r \in Requests :
    /\ Single(queue[r.from], Request(r))
    /\ Queued(r.from, Request(r)) => answers[r] = Waiting /\ r \notin pending_requests[r.from]
    /\ r \in pending_requests[r.from] => answers[r] = Waiting
    /\ Queued(r.to, Respond(r, r.height)) => r.height <= top[r.to]
    /\ wire[r] = Carries(r.height) => r.height <= top[r.to]

Inv == Shape /\ TypeOK /\ CallInv /\ AnswerIsComing

-----------------------------------------------------------------------------
(* Queues.                                                                 *)

LEMMA Appending ==
  ASSUME NEW S, NEW s \in Seq(S), NEW d \in S
  PROVE  /\ Append(s, d) \in Seq(S)
         /\ ToSet(Append(s, d)) = ToSet(s) \cup {d}
         /\ \A c : Single(s, c) /\ (c = d => c \notin ToSet(s)) => Single(Append(s, d), c)
<1>1. /\ Append(s, d) \in Seq(S) /\ DOMAIN Append(s, d) = 1..Len(s) + 1 /\ DOMAIN s = 1..Len(s)
      /\ Len(s) \in Nat /\ Append(s, d)[Len(s) + 1] = d
      /\ \A i \in 1..Len(s) : Append(s, d)[i] = s[i]
  OBVIOUS
<1>2. ToSet(Append(s, d)) = ToSet(s) \cup {d}
  BY <1>1 DEF ToSet
<1>3. \A c : Single(s, c) /\ (c = d => c \notin ToSet(s)) => Single(Append(s, d), c)
  BY <1>1 DEF ToSet, Single
<1> QED
  BY <1>1, <1>2, <1>3

LEMMA Taking ==
  ASSUME NEW S, NEW s \in Seq(S), s # <<>>
  PROVE  /\ Head(s) \in S /\ Tail(s) \in Seq(S)
         /\ ToSet(s) = ToSet(Tail(s)) \cup {Head(s)}
         /\ \A c : Single(s, c) => Single(Tail(s), c)
         /\ Single(s, Head(s)) => Head(s) \notin ToSet(Tail(s))
<1>1. /\ Len(s) \in Nat \ {0} /\ DOMAIN s = 1..Len(s) /\ Head(s) = s[1] /\ Head(s) \in S
      /\ Tail(s) \in Seq(S) /\ DOMAIN Tail(s) = 1..Len(s) - 1
      /\ \A i \in 1..Len(s) - 1 : Tail(s)[i] = s[i + 1]
  OBVIOUS
<1>2. ToSet(s) = ToSet(Tail(s)) \cup {Head(s)}
  <2>1. ASSUME NEW i \in 1..Len(s)
        PROVE  s[i] \in ToSet(Tail(s)) \cup {Head(s)}
    <3>1. CASE i = 1
      BY <1>1, <3>1
    <3>2. CASE i # 1
      <4>1. i - 1 \in 1..Len(s) - 1 /\ Tail(s)[i - 1] = s[i]
        BY <1>1, <3>2
      <4> QED
        BY <1>1, <4>1 DEF ToSet
    <3> QED
      BY <3>1, <3>2
  <2>2. ASSUME NEW i \in 1..Len(s) - 1
        PROVE  Tail(s)[i] \in ToSet(s)
    BY <1>1 DEF ToSet
  <2>3. Head(s) \in ToSet(s)
    BY <1>1 DEF ToSet
  <2> QED
    BY <1>1, <2>1, <2>2, <2>3 DEF ToSet
<1>3. ASSUME NEW c, Single(s, c), NEW i \in 1..Len(s) - 1, NEW j \in 1..Len(s) - 1,
             Tail(s)[i] = c, Tail(s)[j] = c
      PROVE  i = j
  <2>1. i + 1 \in DOMAIN s /\ j + 1 \in DOMAIN s /\ s[i + 1] = c /\ s[j + 1] = c
    BY <1>1, <1>3
  <2> QED
    BY <1>3, <2>1 DEF Single
<1>4. ASSUME Single(s, Head(s)), NEW i \in 1..Len(s) - 1, Tail(s)[i] = Head(s)
      PROVE  FALSE
  <2>1. i + 1 \in DOMAIN s /\ 1 \in DOMAIN s /\ s[i + 1] = Head(s) /\ s[1] = Head(s) /\ i + 1 # 1
    BY <1>1, <1>4
  <2> QED
    BY <1>4, <2>1 DEF Single
<1> QED
  BY <1>1, <1>2, <1>3, <1>4 DEF Single, ToSet

LEMMA CommandsTyped ==
  /\ \A r \in Requests : Request(r) \in Command(r.from)
  /\ \A r \in Requests : \A a \in {NoBlock, r.height} : Respond(r, a) \in Command(r.to)
  /\ \A m \in Messages : Publish(m) \in Command(m.by)
  /\ \A n : \A m \in Messages, ok \in BOOLEAN : Report(m, ok) \in Command(n)
BY DEF Command, Request, Respond, Publish, Report

LEMMA CommandsDiffer ==
  /\ \A r, s : Request(r) = Request(s) => r = s
  /\ \A r, s, a : Request(r) # Respond(s, a)
  /\ \A r, s, a, b : Respond(r, a) = Respond(s, b) => r = s /\ a = b
  /\ \A r, m, a : Publish(m) # Request(r) /\ Publish(m) # Respond(r, a)
  /\ \A r, m, ok, a : Report(m, ok) # Request(r) /\ Report(m, ok) # Respond(r, a)
<1>1. \A r : Request(r).do = "RequestBlock" /\ Request(r).request = r
  BY DEF Request
<1>2. \A r, a : Respond(r, a).do = "RespondBlock" /\ Respond(r, a).request = r
                /\ Respond(r, a).answer = a
  BY DEF Respond
<1>3. \A m : Publish(m).do = "Publish"
  BY DEF Publish
<1>4. \A m, ok : Report(m, ok).do = "ReportMessageValidity"
  BY DEF Report
<1> QED
  BY <1>1, <1>2, <1>3, <1>4

LEMMA Sending ==
  ASSUME Shape, TypeOK, NEW n \in Nodes, NEW c \in Command(n), Send(n, c)
  PROVE  /\ DOMAIN queue' = Nodes /\ \A k \in Nodes : queue'[k] \in Seq(Command(k))
         /\ \A k \in Nodes : \A d : Queued(k, d)' <=> Queued(k, d) \/ (k = n /\ d = c)
         /\ \A k \in Nodes : \A d : Single(queue[k], d) /\ ~(k = n /\ d = c /\ Queued(k, d))
                                  => Single(queue'[k], d)
<1>1. DOMAIN queue' = Nodes /\ queue'[n] = Append(queue[n], c)
      /\ \A k \in Nodes : k # n => queue'[k] = queue[k]
  BY DEF Send, Shape
<1>2. \A k \in Nodes : queue[k] \in Seq(Command(k))
  BY DEF TypeOK
<1>3. /\ queue'[n] \in Seq(Command(n)) /\ ToSet(queue'[n]) = ToSet(queue[n]) \cup {c}
      /\ \A d : Single(queue[n], d) /\ (d = c => d \notin ToSet(queue[n])) => Single(queue'[n], d)
  BY <1>1, <1>2, Appending
<1> QED
  BY <1>1, <1>2, <1>3 DEF Queued

LEMMA Dequeuing ==
  ASSUME Shape, TypeOK, NEW n \in Nodes, NEW c, Taken(n, c)
  PROVE  /\ DOMAIN queue' = Nodes /\ \A k \in Nodes : queue'[k] \in Seq(Command(k))
         /\ Queued(n, c) /\ c \in Command(n)
         /\ \A k \in Nodes : \A d : Queued(k, d)' => Queued(k, d)
         /\ \A k \in Nodes : \A d : Queued(k, d) => Queued(k, d)' \/ (k = n /\ d = c)
         /\ \A k \in Nodes : \A d : Single(queue[k], d) => Single(queue'[k], d)
         /\ Single(queue[n], c) => ~Queued(n, c)'
<1>1. DOMAIN queue' = Nodes /\ queue'[n] = Tail(queue[n]) /\ queue[n] # <<>> /\ Head(queue[n]) = c
      /\ \A k \in Nodes : k # n => queue'[k] = queue[k]
  BY DEF Taken, Shape
<1>2. \A k \in Nodes : queue[k] \in Seq(Command(k))
  BY DEF TypeOK
<1>3. /\ c \in Command(n) /\ queue'[n] \in Seq(Command(n))
      /\ ToSet(queue[n]) = ToSet(queue'[n]) \cup {c}
      /\ \A d : Single(queue[n], d) => Single(queue'[n], d)
      /\ Single(queue[n], c) => c \notin ToSet(queue'[n])
  BY <1>1, <1>2, Taking
<1> QED
  BY <1>1, <1>2, <1>3 DEF Queued

-----------------------------------------------------------------------------
(* Steps of gossip: they leave the calls alone.                            *)

TalkOnly ==
  /\ UNCHANGED <<calls, top>>
  /\ DOMAIN queue' = Nodes /\ DOMAIN handlers' = Nodes
  /\ \A k \in Nodes, r \in Requests :
       /\ BlockRequest(r) \in handlers[k] => BlockRequest(r) \in handlers'[k]
       /\ Queued(k, Request(r))' => Queued(k, Request(r))
       /\ Single(queue[k], Request(r)) => Single(queue'[k], Request(r))
       /\ \A a \in {NoBlock, r.height} :
            Queued(k, Respond(r, a))' <=> Queued(k, Respond(r, a))

LEMMA TalkKeepsCalls ==
  ASSUME Inv, TalkOnly
  PROVE  Shape' /\ CallInv' /\ AnswerIsComing'
<1> USE DEF Inv
<1>1. Shape'
  BY DEF Shape, TalkOnly, calls
<1>2. ASSUME NEW r \in Requests
      PROVE  /\ Single(queue'[r.from], Request(r))
             /\ Queued(r.from, Request(r))' => answers'[r] = Waiting /\ r \notin pending_requests'[r.from]
             /\ r \in pending_requests'[r.from] => answers'[r] = Waiting
             /\ Queued(r.to, Respond(r, r.height))' => r.height <= top'[r.to]
             /\ wire'[r] = Carries(r.height) => r.height <= top'[r.to]
  BY MessagesAssumption DEF CallInv, TalkOnly, calls
<1>3. CallInv'
  BY <1>2 DEF CallInv
<1>4. ASSUME NEW n \in Nodes, NEW r \in pending_responses'[n]
      PROVE  \/ BlockRequest(r) \in handlers'[n]
             \/ \E a \in {NoBlock, r.height} : Queued(n, Respond(r, a))'
  <2>1. r \in pending_responses[n] /\ r \in Requests
    BY DEF TalkOnly, calls, TypeOK
  <2>2. \/ BlockRequest(r) \in handlers[n]
        \/ \E a \in {NoBlock, r.height} : Queued(n, Respond(r, a))
    BY <2>1 DEF AnswerIsComing, Queued
  <2> QED
    BY <2>1, <2>2 DEF TalkOnly
<1>5. AnswerIsComing'
  BY <1>4 DEF AnswerIsComing, Queued
<1> QED
  BY <1>1, <1>3, <1>5

GossipStep ==
  \/ \E n \in Nodes : MeshForms(n) \/ MeshBreaks(n)
  \/ \E m \in Messages : Stray(m) \/ PublishBlock(m) \/ SubmitTransaction(m)
  \/ \E g \in gossip : ReceiveGossip(g)
  \/ \E n \in Nodes, m \in Messages : HandleReport(n, m) \/ HandleGossip(n, m)
  \/ \E m \in Messages : m.by \in Nodes /\ (PublishOrRetry(m) \/ Retry(m))

LEMMA UntouchedQueue ==
  ASSUME Inv, UNCHANGED <<queue, handlers, calls, top>>
  PROVE  TalkOnly
BY DEF Inv, Shape, TalkOnly, Queued

LEMMA TalkSends ==
  ASSUME Inv, UNCHANGED <<handlers, calls, top>>, NEW n \in Nodes, NEW c \in Command(n),
         \A r, a : c # Request(r) /\ c # Respond(r, a),
         Send(n, c) \/ Taken(n, c)
  PROVE  TalkOnly /\ \A k \in Nodes : queue'[k] \in Seq(Command(k))
<1> USE DEF Inv
<1>1. CASE Send(n, c)
  BY <1>1, Sending DEF TalkOnly, Shape
<1>2. CASE Taken(n, c)
  BY <1>2, Dequeuing DEF TalkOnly, Shape
<1> QED
  BY <1>1, <1>2

LEMMA ToAllTyped ==
  ASSUME NEW m \in Messages
  PROVE  ToAll(m) \subseteq [message : Messages, to : Nodes]
BY DEF ToAll

LEMMA FaultTyped ==
  ASSUME TypeOK, Fault
  PROVE  faults' \in 0..MaxFaults
BY MessagesAssumption DEF TypeOK, Fault

LEMMA GossipSteps ==
  ASSUME Inv, GossipStep
  PROVE  Inv' /\ UNCHANGED <<top, answers>>
<1> USE DEF Inv
<1>1. ASSUME NEW n \in Nodes, MeshForms(n) \/ MeshBreaks(n)
      PROVE  TalkOnly /\ TypeOK'
  <2>1. /\ UNCHANGED <<queue, handlers, calls, top, retrying, gossip, unreported, published, made, mempool>>
        /\ mesh' \in [Nodes -> BOOLEAN] /\ faults' \in 0..MaxFaults
    BY <1>1, FaultTyped DEF MeshForms, MeshBreaks, TypeOK
  <2> QED
    BY <2>1, UntouchedQueue DEF TypeOK, calls
<1>2. ASSUME NEW m \in Messages, Stray(m)
      PROVE  TalkOnly /\ TypeOK'
  <2>1. /\ UNCHANGED <<queue, handlers, calls, top, retrying, mesh, unreported, made, mempool, faults>>
        /\ gossip' \subseteq [message : Messages, to : Nodes] /\ published' \subseteq Messages
    BY <1>2, ToAllTyped DEF Stray, TypeOK
  <2> QED
    BY <2>1, UntouchedQueue DEF TypeOK, calls
<1>3. ASSUME NEW m \in Messages, SubmitTransaction(m)
      PROVE  TalkOnly /\ TypeOK'
  <2>1. /\ UNCHANGED <<queue, handlers, calls, top, retrying, mesh, gossip, unreported, published, faults>>
        /\ made' \subseteq Messages /\ mempool' \in [Nodes -> SUBSET Messages]
    BY <1>3 DEF SubmitTransaction, TypeOK
  <2> QED
    BY <2>1, UntouchedQueue DEF TypeOK, calls
<1>4. ASSUME NEW m \in Messages, PublishBlock(m)
      PROVE  TalkOnly /\ TypeOK'
  <2>1. /\ UNCHANGED <<handlers, calls, top, retrying, mesh, gossip, unreported, published, mempool, faults>>
        /\ made' \subseteq Messages /\ m.by \in Nodes /\ Send(m.by, Publish(m))
    BY <1>4 DEF PublishBlock, TypeOK
  <2>2. TalkOnly /\ \A k \in Nodes : queue'[k] \in Seq(Command(k))
    BY <2>1, TalkSends, CommandsTyped, CommandsDiffer
  <2> QED
    BY <2>1, <2>2 DEF TypeOK, calls
<1>5. ASSUME NEW g \in gossip, ReceiveGossip(g)
      PROVE  TalkOnly /\ TypeOK'
  <2>1. g.message \in Messages /\ g.to \in Nodes
    BY DEF TypeOK
  <2>2. /\ UNCHANGED <<queue, calls, top, retrying, mesh, published, made, mempool, faults>>
        /\ gossip' \subseteq gossip
    BY <1>5 DEF ReceiveGossip
  <2>3. \/ UNCHANGED <<handlers, unreported>>
        \/ /\ handlers' = [handlers EXCEPT ![g.to] = @ \cup {Gossiped(g.message)}]
           /\ unreported' = [unreported EXCEPT ![g.to] = @ \cup {g.message}]
    BY <1>5 DEF ReceiveGossip
  <2>4. Gossiped(g.message) \in [is : {"Gossip"}, message : Messages]
    BY <2>1 DEF Gossiped
  <2>5. /\ DOMAIN handlers' = Nodes /\ unreported' \in [Nodes -> SUBSET Messages]
        /\ \A k \in Nodes : /\ handlers[k] \subseteq handlers'[k]
                            /\ handlers'[k] \subseteq handlers[k] \cup {Gossiped(g.message)}
    <3>1. unreported \in [Nodes -> SUBSET Messages] /\ DOMAIN handlers = Nodes
      BY DEF Shape, TypeOK
    <3>2. CASE UNCHANGED <<handlers, unreported>>
      BY <3>1, <3>2
    <3>3. CASE /\ handlers' = [handlers EXCEPT ![g.to] = @ \cup {Gossiped(g.message)}]
               /\ unreported' = [unreported EXCEPT ![g.to] = @ \cup {g.message}]
      <4>1. unreported' \in [Nodes -> SUBSET Messages]
        BY <2>1, <3>1, <3>3
      <4>2. handlers'[g.to] = handlers[g.to] \cup {Gossiped(g.message)}
            /\ \A k \in Nodes : k # g.to => handlers'[k] = handlers[k]
        BY <2>1, <3>1, <3>3
      <4> QED
        BY <3>1, <3>3, <4>1, <4>2
    <3> QED
      BY <2>3, <3>2, <3>3
  <2>6. TalkOnly
    BY <2>2, <2>5 DEF TalkOnly, Shape, Queued
  <2>7. \A k \in Nodes :
          handlers'[k] \subseteq [is : {"BlockRequest"}, request : {r \in Requests : r.to = k}]
                                 \cup [is : {"Gossip"}, message : Messages]
    BY <2>4, <2>5 DEF TypeOK
  <2> QED
    BY <2>2, <2>5, <2>6, <2>7 DEF TypeOK, calls
<1>6. ASSUME NEW n \in Nodes, NEW m \in Messages, HandleReport(n, m)
      PROVE  TalkOnly /\ TypeOK'
  <2>1. PICK ok \in BOOLEAN : Taken(n, Report(m, ok))
    BY <1>6 DEF HandleReport
  <2>2. /\ UNCHANGED <<handlers, calls, top, retrying, mesh, gossip, published, made, mempool, faults>>
        /\ unreported' \in [Nodes -> SUBSET Messages]
    BY <1>6 DEF HandleReport, TypeOK
  <2>3. TalkOnly /\ \A k \in Nodes : queue'[k] \in Seq(Command(k))
    <3>1. Report(m, ok) \in Command(n)
      BY CommandsTyped
    <3>2. \A r, a : Report(m, ok) # Request(r) /\ Report(m, ok) # Respond(r, a)
      BY CommandsDiffer
    <3> QED
      BY <2>1, <2>2, <3>1, <3>2, TalkSends
  <2> QED
    BY <2>2, <2>3 DEF TypeOK, calls
<1>7. ASSUME NEW n \in Nodes, NEW m \in Messages, HandleGossip(n, m)
      PROVE  TalkOnly /\ TypeOK'
  <2>1. /\ UNCHANGED <<calls, top, retrying, mesh, gossip, unreported, published, made, faults>>
        /\ handlers' = [handlers EXCEPT ![n] = @ \ {Gossiped(m)}]
        /\ mempool' \in [Nodes -> SUBSET Messages]
    BY <1>7 DEF HandleGossip, TypeOK
  <2>2. UNCHANGED queue \/ \E ok \in BOOLEAN : Send(n, Report(m, ok))
    <3>1. Verdicts(m) \subseteq BOOLEAN
      BY DEF Verdicts
    <3> QED
      BY <1>7, <3>1 DEF HandleGossip
  <2>3. /\ DOMAIN queue' = Nodes /\ \A k \in Nodes : queue'[k] \in Seq(Command(k))
        /\ \A k \in Nodes, r \in Requests :
             /\ Queued(k, Request(r))' => Queued(k, Request(r))
             /\ Single(queue[k], Request(r)) => Single(queue'[k], Request(r))
             /\ \A a \in {NoBlock, r.height} :
                  Queued(k, Respond(r, a))' <=> Queued(k, Respond(r, a))
    <3>1. CASE UNCHANGED queue
      BY <3>1 DEF Shape, TypeOK, Queued
    <3>2. CASE \E ok \in BOOLEAN : Send(n, Report(m, ok))
      <4>1. PICK ok \in BOOLEAN : Send(n, Report(m, ok))
        BY <3>2
      <4>2. Report(m, ok) \in Command(n)
        BY CommandsTyped
      <4>3. \A r, a : Report(m, ok) # Request(r) /\ Report(m, ok) # Respond(r, a)
        BY CommandsDiffer
      <4>4. /\ DOMAIN queue' = Nodes /\ \A k \in Nodes : queue'[k] \in Seq(Command(k))
            /\ \A k \in Nodes : \A d : Queued(k, d)' <=> Queued(k, d) \/ (k = n /\ d = Report(m, ok))
            /\ \A k \in Nodes : \A d : Single(queue[k], d) /\ ~(k = n /\ d = Report(m, ok) /\ Queued(k, d))
                                     => Single(queue'[k], d)
        BY <4>1, <4>2, Sending
      <4> QED
        BY <4>3, <4>4
    <3> QED
      BY <2>2, <3>1, <3>2
  <2>4. ASSUME NEW r, NEW k \in Nodes, BlockRequest(r) \in handlers[k]
        PROVE  BlockRequest(r) \in handlers'[k]
    <3>1. BlockRequest(r).is = "BlockRequest" /\ Gossiped(m).is = "Gossip"
      BY DEF BlockRequest, Gossiped
    <3> QED
      BY <2>1, <2>4, <3>1 DEF Shape
  <2>5. DOMAIN handlers' = Nodes /\ \A k \in Nodes : handlers'[k] \subseteq handlers[k]
    BY <2>1 DEF Shape
  <2>6. TalkOnly
    BY <2>1, <2>3, <2>4, <2>5 DEF TalkOnly
  <2>7. \A k \in Nodes :
          handlers'[k] \subseteq [is : {"BlockRequest"}, request : {r \in Requests : r.to = k}]
                                 \cup [is : {"Gossip"}, message : Messages]
    BY <2>5 DEF TypeOK
  <2> QED
    BY <2>1, <2>3, <2>6, <2>7 DEF TypeOK, calls
<1>8. ASSUME NEW m \in Messages, m.by \in Nodes, PublishOrRetry(m)
      PROVE  TalkOnly /\ TypeOK'
  <2>1. /\ UNCHANGED <<handlers, calls, top, mesh, unreported, made, mempool>>
        /\ Taken(m.by, Publish(m))
    BY <1>8 DEF PublishOrRetry
  <2>2. TalkOnly /\ \A k \in Nodes : queue'[k] \in Seq(Command(k))
    BY <1>8, <2>1, TalkSends, CommandsTyped, CommandsDiffer
  <2>3. /\ published' \subseteq Messages /\ retrying' \in [Nodes -> SUBSET Messages]
        /\ gossip' \subseteq [message : Messages, to : Nodes] /\ faults' \in 0..MaxFaults
    <3>1. /\ published \subseteq Messages /\ retrying \in [Nodes -> SUBSET Messages]
          /\ gossip \subseteq [message : Messages, to : Nodes] /\ faults \in 0..MaxFaults
      BY DEF TypeOK
    <3>2. ToAll(m) \subseteq [message : Messages, to : Nodes]
      BY ToAllTyped
    <3>3. CASE /\ published' = published \cup {m} /\ gossip' = gossip \cup ToAll(m)
               /\ UNCHANGED <<retrying, faults>>
      BY <3>1, <3>2, <3>3
    <3>4. CASE /\ retrying' = [retrying EXCEPT ![m.by] = @ \cup {m}]
               /\ UNCHANGED <<published, gossip, faults>>
      BY <3>1, <3>4
    <3>5. CASE Fault /\ UNCHANGED <<published, gossip, retrying>>
      BY <3>1, <3>5, FaultTyped
    <3> QED
      BY <1>8, <3>3, <3>4, <3>5 DEF PublishOrRetry
  <2> QED
    BY <2>1, <2>2, <2>3 DEF TypeOK, calls
<1>9. ASSUME NEW m \in Messages, m.by \in Nodes, Retry(m)
      PROVE  TalkOnly /\ TypeOK'
  <2>1. /\ UNCHANGED <<handlers, calls, top, mesh, gossip, unreported, published, made, mempool, faults>>
        /\ retrying' \in [Nodes -> SUBSET Messages] /\ Send(m.by, Publish(m))
    BY <1>9 DEF Retry, TypeOK
  <2>2. TalkOnly /\ \A k \in Nodes : queue'[k] \in Seq(Command(k))
    BY <1>9, <2>1, TalkSends, CommandsTyped, CommandsDiffer
  <2> QED
    BY <2>1, <2>2 DEF TypeOK, calls
<1>10. TalkOnly /\ TypeOK'
  BY <1>1, <1>2, <1>3, <1>4, <1>5, <1>6, <1>7, <1>8, <1>9 DEF GossipStep
<1> QED
  BY <1>10, TalkKeepsCalls DEF TalkOnly, calls

-----------------------------------------------------------------------------
(* Steps of calls.                                                         *)

LEMMA AnswersDiffer ==
  /\ NotCalled # Waiting /\ NoBlock # Waiting /\ NoBlock \notin Nat
  /\ \A h \in Nat : h # Waiting /\ h # NotCalled
BY DEF NotCalled, Waiting, NoBlock, Service!NotCalled, Service!Waiting, Service!NoBlock

LEMMA StagesDiffer ==
  /\ \A stage : On(stage).stage = stage
  /\ \A a : Carries(a).stage = "response" /\ Carries(a).answer = a
  /\ Idle.stage = "idle"
BY DEF On, Carries, Idle

LEMMA RequestBlockStep ==
  ASSUME Inv, NEW r \in Requests, RequestBlock(r)
  PROVE  Inv' /\ Service!Next
<1> USE MessagesAssumption DEF Inv
<1>1. /\ answers[r] = NotCalled /\ Send(r.from, Request(r)) /\ r.from \in Nodes
      /\ answers' = [answers EXCEPT ![r] = Waiting]
      /\ UNCHANGED <<handlers, pending_requests, pending_responses, wire, talk, top, faults>>
  BY DEF RequestBlock
<1>2. /\ DOMAIN queue' = Nodes /\ \A k \in Nodes : queue'[k] \in Seq(Command(k))
      /\ \A k \in Nodes : \A d : Queued(k, d)' <=> Queued(k, d) \/ (k = r.from /\ d = Request(r))
      /\ \A k \in Nodes : \A d : Single(queue[k], d) /\ ~(k = r.from /\ d = Request(r) /\ Queued(k, d))
                               => Single(queue'[k], d)
  BY <1>1, Sending, CommandsTyped
<1>3. /\ answers' \in [Requests -> Int] /\ answers'[r] = Waiting
      /\ \A s \in Requests : s # r => answers'[s] = answers[s]
  BY <1>1 DEF Shape, Waiting, Service!Waiting
<1>4. Shape'
  BY <1>1, <1>2, <1>3 DEF Shape
<1>5. TypeOK'
  BY <1>1, <1>2, <1>3 DEF TypeOK, talk
<1>6. ~Queued(r.from, Request(r)) /\ r \notin pending_requests[r.from]
  BY <1>1, AnswersDiffer DEF CallInv
<1>7. ASSUME NEW s \in Requests
      PROVE  /\ Single(queue'[s.from], Request(s))
             /\ Queued(s.from, Request(s))' => answers'[s] = Waiting /\ s \notin pending_requests'[s.from]
             /\ s \in pending_requests'[s.from] => answers'[s] = Waiting
             /\ Queued(s.to, Respond(s, s.height))' => s.height <= top'[s.to]
             /\ wire'[s] = Carries(s.height) => s.height <= top'[s.to]
  <2>1. Request(r) # Respond(s, s.height) /\ (Request(r) = Request(s) => r = s)
    BY CommandsDiffer
  <2> QED
    BY <1>1, <1>2, <1>3, <1>6, <2>1 DEF CallInv
<1>8. AnswerIsComing'
  BY <1>1, <1>2 DEF AnswerIsComing, Queued
<1>9. Service!Call(r)
  BY <1>1 DEF Service!Call, NotCalled, Waiting
<1> QED
  BY <1>4, <1>5, <1>7, <1>8, <1>9 DEF CallInv, Service!Next

LEMMA SendRequestStep ==
  ASSUME Inv, NEW r \in Requests, SendRequest(r)
  PROVE  Inv' /\ UNCHANGED <<top, answers>>
<1> USE MessagesAssumption DEF Inv
<1>1. /\ Taken(r.from, Request(r)) /\ r.from \in Nodes
      /\ pending_requests' = [pending_requests EXCEPT ![r.from] = @ \cup {r}]
      /\ wire' = [wire EXCEPT ![r] = On("request")]
      /\ UNCHANGED <<handlers, pending_responses, answers, talk, top, faults>>
  BY DEF SendRequest
<1>2. /\ DOMAIN queue' = Nodes /\ \A k \in Nodes : queue'[k] \in Seq(Command(k))
      /\ Queued(r.from, Request(r))
      /\ \A k \in Nodes : \A d : Queued(k, d)' => Queued(k, d)
      /\ \A k \in Nodes : \A d : Queued(k, d) => Queued(k, d)' \/ (k = r.from /\ d = Request(r))
      /\ \A k \in Nodes : \A d : Single(queue[k], d) => Single(queue'[k], d)
      /\ Single(queue[r.from], Request(r)) => ~Queued(r.from, Request(r))'
  BY <1>1, Dequeuing
<1>3. /\ DOMAIN pending_requests' = Nodes /\ DOMAIN wire' = Requests /\ wire'[r] = On("request")
      /\ \A s \in Requests : s # r => wire'[s] = wire[s]
      /\ \A k \in Nodes : pending_requests'[k] \subseteq pending_requests[k] \cup {r}
      /\ \A k \in Nodes : k # r.from => pending_requests'[k] = pending_requests[k]
  BY <1>1 DEF Shape
<1>4. Shape'
  BY <1>1, <1>2, <1>3 DEF Shape
<1>5. /\ \A k \in Nodes : pending_requests'[k] \subseteq {s \in Requests : s.from = k}
      /\ \A s \in Requests : wire'[s] \in {Idle, On("request"), On("serving"), On("over"),
                                           Carries(NoBlock), Carries(s.height)}
  <2>1. /\ \A k \in Nodes : pending_requests[k] \subseteq {s \in Requests : s.from = k}
        /\ \A s \in Requests : wire[s] \in {Idle, On("request"), On("serving"), On("over"),
                                            Carries(NoBlock), Carries(s.height)}
    BY DEF TypeOK
  <2>2. pending_requests'[r.from] \subseteq {s \in Requests : s.from = r.from}
    BY <1>1, <1>3, <2>1
  <2>3. \A k \in Nodes : pending_requests'[k] \subseteq {s \in Requests : s.from = k}
    BY <1>3, <2>1, <2>2
  <2> QED
    BY <1>3, <2>1, <2>3
<1>6. TypeOK'
  BY <1>1, <1>2, <1>5 DEF TypeOK, talk
<1>7. answers[r] = Waiting /\ ~Queued(r.from, Request(r))'
  BY <1>2 DEF CallInv
<1>8. ASSUME NEW s \in Requests
      PROVE  /\ Single(queue'[s.from], Request(s))
             /\ Queued(s.from, Request(s))' => answers'[s] = Waiting /\ s \notin pending_requests'[s.from]
             /\ s \in pending_requests'[s.from] => answers'[s] = Waiting
             /\ Queued(s.to, Respond(s, s.height))' => s.height <= top'[s.to]
             /\ wire'[s] = Carries(s.height) => s.height <= top'[s.to]
  <2>1. s \in pending_requests'[s.from] => s \in pending_requests[s.from] \/ s = r
    BY <1>3
  <2>2. On("request") # Carries(s.height)
    BY StagesDiffer
  <2> QED
    BY <1>1, <1>2, <1>3, <1>7, <2>1, <2>2 DEF CallInv
<1>9. AnswerIsComing'
  <2>1. ASSUME NEW n \in Nodes, NEW s \in pending_responses[n]
        PROVE  \/ BlockRequest(s) \in handlers[n]
               \/ \E a \in {NoBlock, s.height} : Queued(n, Respond(s, a))'
    <3>1. \A a : Request(r) # Respond(s, a)
      BY CommandsDiffer
    <3> QED
      BY <1>2, <3>1 DEF AnswerIsComing, Queued
  <2> QED
    BY <1>1, <2>1 DEF AnswerIsComing, Queued
<1> QED
  BY <1>1, <1>4, <1>6, <1>8, <1>9 DEF CallInv

LEMMA ReceiveRequestStep ==
  ASSUME Inv, NEW r \in Requests, ReceiveRequest(r)
  PROVE  Inv' /\ UNCHANGED <<top, answers>>
<1> USE MessagesAssumption DEF Inv
<1>1. /\ r.to \in Nodes
      /\ wire' = [wire EXCEPT ![r] = On("serving")]
      /\ pending_responses' = [pending_responses EXCEPT ![r.to] = @ \cup {r}]
      /\ handlers' = [handlers EXCEPT ![r.to] = @ \cup {BlockRequest(r)}]
      /\ UNCHANGED <<queue, pending_requests, answers, talk, top, faults>>
  BY DEF ReceiveRequest
<1>2. /\ DOMAIN wire' = Requests /\ wire'[r] = On("serving")
      /\ \A s \in Requests : s # r => wire'[s] = wire[s]
      /\ DOMAIN pending_responses' = Nodes /\ DOMAIN handlers' = Nodes
      /\ pending_responses'[r.to] = pending_responses[r.to] \cup {r}
      /\ handlers'[r.to] = handlers[r.to] \cup {BlockRequest(r)}
      /\ \A k \in Nodes : k # r.to => /\ handlers'[k] = handlers[k]
                                      /\ pending_responses'[k] = pending_responses[k]
  BY <1>1 DEF Shape
<1>3. Shape'
  BY <1>1, <1>2 DEF Shape
<1>4. BlockRequest(r) \in [is : {"BlockRequest"}, request : {s \in Requests : s.to = r.to}]
  BY DEF BlockRequest
<1>5. /\ \A k \in Nodes : pending_responses'[k] \subseteq {s \in Requests : s.to = k}
      /\ \A s \in Requests : wire'[s] \in {Idle, On("request"), On("serving"), On("over"),
                                           Carries(NoBlock), Carries(s.height)}
      /\ \A k \in Nodes :
           handlers'[k] \subseteq [is : {"BlockRequest"}, request : {s \in Requests : s.to = k}]
                                  \cup [is : {"Gossip"}, message : Messages]
  <2>1. /\ \A k \in Nodes : pending_responses[k] \subseteq {s \in Requests : s.to = k}
        /\ \A k \in Nodes :
             handlers[k] \subseteq [is : {"BlockRequest"}, request : {s \in Requests : s.to = k}]
                                   \cup [is : {"Gossip"}, message : Messages]
    BY DEF TypeOK
  <2>2. \A s \in Requests : wire'[s] \in {Idle, On("request"), On("serving"), On("over"),
                                           Carries(NoBlock), Carries(s.height)}
    BY <1>2 DEF TypeOK
  <2>3. /\ handlers'[r.to] \subseteq [is : {"BlockRequest"}, request : {s \in Requests : s.to = r.to}]
                                     \cup [is : {"Gossip"}, message : Messages]
        /\ pending_responses'[r.to] \subseteq {s \in Requests : s.to = r.to}
    BY <1>1, <1>2, <1>4, <2>1
  <2> QED
    BY <1>2, <2>1, <2>2, <2>3
<1>6. TypeOK'
  BY <1>1, <1>5 DEF TypeOK, talk
<1>7. CallInv'
  <2>1. \A s \in Requests : On("serving") # Carries(s.height)
    BY StagesDiffer
  <2> QED
    BY <1>1, <1>2, <2>1 DEF CallInv, Queued
<1>8. AnswerIsComing'
  BY <1>1, <1>2 DEF AnswerIsComing
<1> QED
  BY <1>1, <1>3, <1>6, <1>7, <1>8

LEMMA HandleBlockRequestStep ==
  ASSUME Inv, NEW r \in Requests, HandleBlockRequest(r)
  PROVE  Inv' /\ UNCHANGED <<top, answers>>
<1> USE MessagesAssumption DEF Inv
<1>1. /\ r.to \in Nodes /\ r.height \in Nat
      /\ handlers' = [handlers EXCEPT ![r.to] = @ \ {BlockRequest(r)}]
      /\ UNCHANGED <<calls, talk, top>>
  BY DEF HandleBlockRequest
<1>2. PICK a \in {NoBlock, r.height} :
        Send(r.to, Respond(r, a)) /\ (a = r.height => r.height <= top[r.to])
  <2>1. BlockAt(r.to, r.height) \in {NoBlock, r.height}
        /\ (BlockAt(r.to, r.height) = r.height => r.height <= top[r.to])
    BY AnswersDiffer DEF BlockAt
  <2> QED
    BY <2>1, AnswersDiffer DEF HandleBlockRequest
<1>3. faults' \in 0..MaxFaults
  BY FaultTyped DEF HandleBlockRequest, TypeOK
<1>4. /\ DOMAIN queue' = Nodes /\ \A k \in Nodes : queue'[k] \in Seq(Command(k))
      /\ \A k \in Nodes : \A d : Queued(k, d)' <=> Queued(k, d) \/ (k = r.to /\ d = Respond(r, a))
      /\ \A k \in Nodes : \A d : Single(queue[k], d) /\ ~(k = r.to /\ d = Respond(r, a) /\ Queued(k, d))
                               => Single(queue'[k], d)
  BY <1>1, <1>2, Sending, CommandsTyped
<1>5. /\ DOMAIN handlers' = Nodes /\ handlers'[r.to] = handlers[r.to] \ {BlockRequest(r)}
      /\ \A k \in Nodes : k # r.to => handlers'[k] = handlers[k]
  BY <1>1 DEF Shape
<1>6. Shape'
  BY <1>1, <1>4, <1>5 DEF Shape, calls
<1>7. \A k \in Nodes :
        handlers'[k] \subseteq [is : {"BlockRequest"}, request : {s \in Requests : s.to = k}]
                               \cup [is : {"Gossip"}, message : Messages]
  <2>1. \A k \in Nodes : handlers'[k] \subseteq handlers[k]
    BY <1>5
  <2> QED
    BY <2>1 DEF TypeOK
<1>8. TypeOK'
  BY <1>1, <1>3, <1>4, <1>7 DEF TypeOK, talk, calls
<1>9. ASSUME NEW s \in Requests
      PROVE  /\ Single(queue'[s.from], Request(s))
             /\ Queued(s.from, Request(s))' => answers'[s] = Waiting /\ s \notin pending_requests'[s.from]
             /\ s \in pending_requests'[s.from] => answers'[s] = Waiting
             /\ Queued(s.to, Respond(s, s.height))' => s.height <= top'[s.to]
             /\ wire'[s] = Carries(s.height) => s.height <= top'[s.to]
  <2>1. Respond(r, a) # Request(s) /\ (Respond(r, a) = Respond(s, s.height) => r = s /\ a = s.height)
    BY CommandsDiffer
  <2> QED
    BY <1>1, <1>2, <1>4, <2>1 DEF CallInv, calls
<1>10. AnswerIsComing'
  <2>1. ASSUME NEW n \in Nodes, NEW s \in pending_responses[n]
        PROVE  \/ BlockRequest(s) \in handlers'[n]
               \/ \E b \in {NoBlock, s.height} : Queued(n, Respond(s, b))'
    <3>1. \/ BlockRequest(s) \in handlers[n]
          \/ \E b \in {NoBlock, s.height} : Queued(n, Respond(s, b))
      BY DEF AnswerIsComing, Queued
    <3>2. BlockRequest(s) = BlockRequest(r) => s = r
      <4>1. BlockRequest(s).request = s /\ BlockRequest(r).request = r
        BY DEF BlockRequest
      <4> QED
        BY <4>1
    <3> QED
      BY <1>2, <1>4, <1>5, <3>1, <3>2
  <2> QED
    BY <1>1, <2>1 DEF AnswerIsComing, Queued, calls
<1> QED
  BY <1>1, <1>6, <1>8, <1>9, <1>10 DEF CallInv, calls

LEMMA SendResponseStep ==
  ASSUME Inv, NEW r \in Requests, SendResponse(r)
  PROVE  Inv' /\ UNCHANGED <<top, answers>>
<1> USE MessagesAssumption DEF Inv
<1>1. PICK a \in {NoBlock, r.height} :
        /\ Taken(r.to, Respond(r, a))
        /\ wire' = IF r \in pending_responses[r.to] THEN [wire EXCEPT ![r] = Carries(a)] ELSE wire
  BY DEF SendResponse
<1>2. /\ r.to \in Nodes
      /\ pending_responses' = [pending_responses EXCEPT ![r.to] = @ \ {r}]
      /\ UNCHANGED <<handlers, pending_requests, answers, talk, top, faults>>
  BY DEF SendResponse
<1>3. /\ DOMAIN queue' = Nodes /\ \A k \in Nodes : queue'[k] \in Seq(Command(k))
      /\ Queued(r.to, Respond(r, a))
      /\ \A k \in Nodes : \A d : Queued(k, d)' => Queued(k, d)
      /\ \A k \in Nodes : \A d : Queued(k, d) => Queued(k, d)' \/ (k = r.to /\ d = Respond(r, a))
      /\ \A k \in Nodes : \A d : Single(queue[k], d) => Single(queue'[k], d)
  <2>1. Shape /\ TypeOK /\ r.to \in Nodes /\ Taken(r.to, Respond(r, a))
    BY <1>1, <1>2
  <2>2. PICK c : c = Respond(r, a)
    OBVIOUS
  <2>3. Taken(r.to, c)
    BY <2>1, <2>2
  <2>4. /\ DOMAIN queue' = Nodes /\ \A k \in Nodes : queue'[k] \in Seq(Command(k))
        /\ Queued(r.to, c)
        /\ \A k \in Nodes : \A d : Queued(k, d)' => Queued(k, d)
        /\ \A k \in Nodes : \A d : Queued(k, d) => Queued(k, d)' \/ (k = r.to /\ d = c)
        /\ \A k \in Nodes : \A d : Single(queue[k], d) => Single(queue'[k], d)
    BY <2>1, <2>3, Dequeuing
  <2> QED
    BY <2>2, <2>4
<1>4. /\ DOMAIN wire' = Requests /\ wire'[r] \in {wire[r], Carries(a)}
      /\ \A s \in Requests : s # r => wire'[s] = wire[s]
  <2>1. DOMAIN wire = Requests
    BY DEF Shape
  <2>2. CASE r \in pending_responses[r.to]
    BY <1>1, <2>1, <2>2
  <2>3. CASE r \notin pending_responses[r.to]
    BY <1>1, <2>1, <2>3
  <2> QED
    BY <2>2, <2>3
<1>5. /\ DOMAIN pending_responses' = Nodes
      /\ pending_responses'[r.to] = pending_responses[r.to] \ {r}
      /\ \A k \in Nodes : k # r.to => pending_responses'[k] = pending_responses[k]
  BY <1>2 DEF Shape
<1>6. Shape'
  BY <1>2, <1>3, <1>4, <1>5 DEF Shape
<1>7. /\ \A k \in Nodes : pending_responses'[k] \subseteq {s \in Requests : s.to = k}
      /\ \A s \in Requests : wire'[s] \in {Idle, On("request"), On("serving"), On("over"),
                                           Carries(NoBlock), Carries(s.height)}
  <2>1. /\ \A k \in Nodes : pending_responses[k] \subseteq {s \in Requests : s.to = k}
        /\ \A s \in Requests : wire[s] \in {Idle, On("request"), On("serving"), On("over"),
                                            Carries(NoBlock), Carries(s.height)}
    BY DEF TypeOK
  <2>2. \A k \in Nodes : pending_responses'[k] \subseteq pending_responses[k]
    BY <1>5
  <2>3. \A k \in Nodes : pending_responses'[k] \subseteq {s \in Requests : s.to = k}
    BY <2>1, <2>2
  <2>4. wire'[r] \in {Idle, On("request"), On("serving"), On("over"),
                      Carries(NoBlock), Carries(r.height)}
    BY <1>4, <2>1
  <2> QED
    BY <1>4, <2>1, <2>3, <2>4
<1>8. TypeOK'
  BY <1>2, <1>3, <1>7 DEF TypeOK, talk
<1>9. a = r.height => r.height <= top[r.to]
  BY <1>3 DEF CallInv
<1>10. ASSUME NEW s \in Requests
       PROVE  /\ Single(queue'[s.from], Request(s))
              /\ Queued(s.from, Request(s))' => answers'[s] = Waiting /\ s \notin pending_requests'[s.from]
              /\ s \in pending_requests'[s.from] => answers'[s] = Waiting
              /\ Queued(s.to, Respond(s, s.height))' => s.height <= top'[s.to]
              /\ wire'[s] = Carries(s.height) => s.height <= top'[s.to]
  <2>1. Carries(a) = Carries(r.height) => a = r.height
    BY StagesDiffer
  <2>2. wire'[s] = Carries(s.height) => s.height <= top[s.to]
    BY <1>4, <1>9, <2>1 DEF CallInv
  <2> QED
    BY <1>2, <1>3, <2>2 DEF CallInv
<1>11. AnswerIsComing'
  <2>1. ASSUME NEW n \in Nodes, NEW s \in pending_responses'[n]
        PROVE  \/ BlockRequest(s) \in handlers[n]
               \/ \E b \in {NoBlock, s.height} : Queued(n, Respond(s, b))'
    <3>1. s \in pending_responses[n] /\ ~(n = r.to /\ s = r)
      BY <1>5
    <3>2. \A b : Respond(r, a) = Respond(s, b) => r = s
      BY CommandsDiffer
    <3>3. s.to = n
      BY <3>1 DEF TypeOK
    <3> QED
      BY <1>3, <3>1, <3>2, <3>3 DEF AnswerIsComing, Queued
  <2> QED
    BY <1>2, <2>1 DEF AnswerIsComing, Queued
<1> QED
  BY <1>2, <1>6, <1>8, <1>10, <1>11 DEF CallInv

(* What ends a call, either way.                                           *)
LEMMA Resolving ==
  ASSUME Inv, NEW r \in Requests, NEW a \in {NoBlock, r.height},
         a = r.height => r.height <= top[r.to],
         Resolve(r, a), UNCHANGED <<queue, handlers, pending_responses, talk, top, faults>>,
         DOMAIN wire' = Requests,
         \A s \in Requests : wire'[s] \in {wire[s], On("over")}
  PROVE  Inv' /\ [Service!Next]_<<top, answers>>
<1> USE MessagesAssumption DEF Inv
<1>1. /\ r.from \in Nodes /\ r.height \in Nat
      /\ pending_requests' = [pending_requests EXCEPT ![r.from] = @ \ {r}]
      /\ answers' = [answers EXCEPT ![r] = IF r \in pending_requests[r.from] THEN a ELSE @]
  BY DEF Resolve
<1>2. /\ DOMAIN pending_requests' = Nodes
      /\ pending_requests'[r.from] = pending_requests[r.from] \ {r}
      /\ \A k \in Nodes : pending_requests'[k] \subseteq pending_requests[k]
      /\ answers' \in [Requests -> Int]
      /\ answers'[r] = IF r \in pending_requests[r.from] THEN a ELSE answers[r]
      /\ \A s \in Requests : s # r => answers'[s] = answers[s]
  BY <1>1 DEF Shape, NoBlock, Service!NoBlock
<1>3. Shape'
  BY <1>2 DEF Shape
<1>4. /\ \A k \in Nodes : pending_requests'[k] \subseteq {s \in Requests : s.from = k}
      /\ \A s \in Requests : /\ wire'[s] \in {Idle, On("request"), On("serving"), On("over"),
                                              Carries(NoBlock), Carries(s.height)}
                             /\ answers'[s] \in {NotCalled, Waiting, NoBlock, s.height}
  <2>1. \A k \in Nodes : pending_requests'[k] \subseteq {s \in Requests : s.from = k}
    BY <1>2 DEF TypeOK
  <2>2. \A s \in Requests : answers[s] \in {NotCalled, Waiting, NoBlock, s.height}
    BY DEF TypeOK
  <2>3. \A s \in Requests : answers'[s] \in {NotCalled, Waiting, NoBlock, s.height}
    BY <1>2, <2>2
  <2>4. \A s \in Requests : wire'[s] \in {Idle, On("request"), On("serving"), On("over"),
                                          Carries(NoBlock), Carries(s.height)}
    BY DEF TypeOK
  <2> QED
    BY <2>1, <2>3, <2>4
<1>5. TypeOK'
  BY <1>4 DEF TypeOK, talk
<1>6. ASSUME NEW s \in Requests
      PROVE  /\ Single(queue'[s.from], Request(s))
             /\ Queued(s.from, Request(s))' => answers'[s] = Waiting /\ s \notin pending_requests'[s.from]
             /\ s \in pending_requests'[s.from] => answers'[s] = Waiting
             /\ Queued(s.to, Respond(s, s.height))' => s.height <= top'[s.to]
             /\ wire'[s] = Carries(s.height) => s.height <= top'[s.to]
  <2>1. On("over") # Carries(s.height)
    BY StagesDiffer
  <2>2. s.from \in Nodes /\ (s \in pending_requests'[s.from] => s \in pending_requests[s.from] /\ s # r)
    BY <1>2
  <2>3. Queued(s.from, Request(s)) => s \notin pending_requests[s.from] /\ answers'[s] = Waiting
    BY <1>2 DEF CallInv
  <2> QED
    BY <1>2, <2>1, <2>2, <2>3 DEF CallInv, Queued
<1>7. AnswerIsComing'
  BY DEF AnswerIsComing
<1>8. [Service!Next]_<<top, answers>>
  <2>1. CASE r \in pending_requests[r.from]
    <3>1. answers[r] = Waiting /\ answers' = [answers EXCEPT ![r] = a]
      BY <1>1, <2>1 DEF CallInv
    <3>2. a \in {NoBlock} \cup (IF r.height <= top[r.to] THEN {r.height} ELSE {})
      OBVIOUS
    <3>3. Service!Return(r)
      BY <3>1, <3>2 DEF Service!Return, NoBlock, Waiting
    <3> QED
      BY <3>3 DEF Service!Next
  <2>2. CASE r \notin pending_requests[r.from]
    <3>1. answers' = [answers EXCEPT ![r] = answers[r]]
      BY <1>1, <2>2
    <3>2. answers' = answers
      BY <3>1 DEF TypeOK, Shape
    <3> QED
      BY <3>2
  <2> QED
    BY <2>1, <2>2
<1> QED
  BY <1>3, <1>5, <1>6, <1>7, <1>8 DEF CallInv

LEMMA ReceiveResponseStep ==
  ASSUME Inv, NEW r \in Requests, ReceiveResponse(r)
  PROVE  Inv' /\ [Service!Next]_<<top, answers>>
<1> USE MessagesAssumption DEF Inv
<1> DEFINE a == ReadResponse(wire[r].answer)
<1>1. /\ wire[r].stage = "response" /\ wire' = [wire EXCEPT ![r] = On("over")]
      /\ Resolve(r, a) /\ UNCHANGED <<queue, handlers, pending_responses, talk, top, faults>>
  BY DEF ReceiveResponse
<1>2. wire[r] \in {Carries(NoBlock), Carries(r.height)}
  <2>1. wire[r] \in {Idle, On("request"), On("serving"), On("over"),
                     Carries(NoBlock), Carries(r.height)}
    BY DEF TypeOK
  <2> QED
    BY <1>1, <2>1, StagesDiffer
<1>3. a \in {NoBlock, r.height} /\ (a = r.height => wire[r] = Carries(r.height))
  <2>1. wire[r].answer \in {NoBlock, r.height} /\ wire[r] = Carries(wire[r].answer)
    BY <1>2, StagesDiffer
  <2>2. r.height # NoBlock
    BY AnswersDiffer
  <2> QED
    BY <2>1, <2>2 DEF ReadResponse
<1>4. a = r.height => r.height <= top[r.to]
  BY <1>3 DEF CallInv
<1>5. DOMAIN wire' = Requests /\ \A s \in Requests : wire'[s] \in {wire[s], On("over")}
  BY <1>1 DEF Shape
<1> HIDE DEF a
<1> QED
  BY <1>1, <1>3, <1>4, <1>5, Resolving

LEMMA OutboundFailureStep ==
  ASSUME Inv, NEW r \in Requests, OutboundFailure(r)
  PROVE  Inv' /\ [Service!Next]_<<top, answers>>
<1>1. NoBlock # r.height
  BY MessagesAssumption, AnswersDiffer
<1>2. /\ Resolve(r, NoBlock) /\ UNCHANGED wire
      /\ UNCHANGED <<queue, handlers, pending_responses, talk, top, faults>>
  BY DEF OutboundFailure
<1>3. DOMAIN wire' = Requests /\ \A s \in Requests : wire'[s] \in {wire[s], On("over")}
  BY <1>2 DEF Inv, Shape
<1> QED
  BY <1>1, <1>2, <1>3, Resolving

LEMMA InboundFailureStep ==
  ASSUME Inv, NEW r \in Requests, InboundFailure(r)
  PROVE  Inv' /\ UNCHANGED <<top, answers>>
<1> USE MessagesAssumption DEF Inv
<1>1. /\ r.to \in Nodes /\ wire' = [wire EXCEPT ![r] = On("over")]
      /\ pending_responses' = [pending_responses EXCEPT ![r.to] = @ \ {r}]
      /\ UNCHANGED <<queue, handlers, pending_requests, answers, talk, top, faults>>
  BY DEF InboundFailure
<1>2. /\ DOMAIN wire' = Requests /\ DOMAIN pending_responses' = Nodes
      /\ \A s \in Requests : wire'[s] \in {wire[s], On("over")}
      /\ \A k \in Nodes : pending_responses'[k] \subseteq pending_responses[k]
  BY <1>1 DEF Shape
<1>3. Shape'
  BY <1>1, <1>2 DEF Shape
<1>4. /\ \A k \in Nodes : pending_responses'[k] \subseteq {s \in Requests : s.to = k}
      /\ \A s \in Requests : wire'[s] \in {Idle, On("request"), On("serving"), On("over"),
                                           Carries(NoBlock), Carries(s.height)}
  <2>1. \A k \in Nodes : pending_responses'[k] \subseteq {s \in Requests : s.to = k}
    BY <1>2 DEF TypeOK
  <2>2. \A s \in Requests : wire'[s] \in {Idle, On("request"), On("serving"), On("over"),
                                          Carries(NoBlock), Carries(s.height)}
    BY <1>2 DEF TypeOK
  <2> QED
    BY <2>1, <2>2
<1>5. TypeOK'
  BY <1>1, <1>4 DEF TypeOK, talk
<1>6. CallInv'
  <2>1. \A s \in Requests : On("over") # Carries(s.height)
    BY StagesDiffer
  <2> QED
    BY <1>1, <1>2, <2>1 DEF CallInv, Queued
<1>7. AnswerIsComing'
  BY <1>1, <1>2 DEF AnswerIsComing
<1> QED
  BY <1>1, <1>3, <1>5, <1>6, <1>7

LEMMA GrowStep ==
  ASSUME Inv, NEW n \in Nodes, Grow(n)
  PROVE  Inv' /\ Service!Next
<1> USE MessagesAssumption DEF Inv
<1>1. /\ top' = [top EXCEPT ![n] = @ + 1] /\ UNCHANGED <<queue, handlers, calls, talk, faults>>
      /\ top \in [Nodes -> Nat]
  BY DEF Grow, Shape
<1>2. top' \in [Nodes -> Nat] /\ \A k \in Nodes : top[k] <= top'[k]
  BY <1>1
<1>3. Shape' /\ TypeOK'
  BY <1>1, <1>2 DEF Shape, TypeOK, calls, talk
<1>4. ASSUME NEW s \in Requests, s.height <= top[s.to]
      PROVE  s.height <= top'[s.to]
  BY <1>1, <1>2, <1>4
<1>5. CallInv'
  BY <1>1, <1>4 DEF CallInv, Queued, calls
<1>6. AnswerIsComing'
  BY <1>1 DEF AnswerIsComing, calls
<1>7. Service!Grow(n)
  BY <1>1 DEF Service!Grow, calls
<1> QED
  BY <1>3, <1>5, <1>6, <1>7 DEF Service!Next

-----------------------------------------------------------------------------
LEMMA InitInv == Init => Inv /\ Service!Init
<1> SUFFICES ASSUME Init
             PROVE  Inv /\ Service!Init
  OBVIOUS
<1> USE MessagesAssumption DEF Init
<1>1. Shape
  BY DEF Shape, NotCalled, Service!NotCalled
<1>2. TypeOK
  BY DEF TypeOK
<1>3. \A n \in Nodes : queue[n] = <<>> /\ ToSet(queue[n]) = {} /\ DOMAIN queue[n] = {}
  BY DEF ToSet
<1>4. CallInv
  <2>1. \A r \in Requests : Idle # Carries(r.height)
    BY StagesDiffer
  <2> QED
    BY <1>3, <2>1 DEF CallInv, Single, Queued
<1>5. AnswerIsComing
  BY DEF AnswerIsComing
<1>6. Service!Init
  BY DEF Service!Init, NotCalled
<1> QED
  BY <1>1, <1>2, <1>4, <1>5, <1>6 DEF Inv

LEMMA NextInv == Inv /\ [Next]_vars => Inv' /\ [Service!Next]_<<top, answers>>
<1> SUFFICES ASSUME Inv, [Next]_vars
             PROVE  Inv' /\ [Service!Next]_<<top, answers>>
  OBVIOUS
<1>1. CASE UNCHANGED vars
  <2>1. Shape' /\ TypeOK'
    BY <1>1 DEF Inv, Shape, TypeOK, vars, calls, talk
  <2>2. CallInv'
    BY <1>1 DEF Inv, CallInv, Queued, vars, calls
  <2>3. AnswerIsComing'
    BY <1>1 DEF Inv, AnswerIsComing, vars, calls
  <2> QED
    BY <1>1, <2>1, <2>2, <2>3 DEF Inv, vars, calls
<1>2. CASE GossipStep
  BY <1>2, GossipSteps
<1>3. CASE \E r \in Requests :
             \/ RequestBlock(r) \/ SendRequest(r) \/ ReceiveRequest(r) \/ HandleBlockRequest(r)
             \/ SendResponse(r) \/ ReceiveResponse(r) \/ OutboundFailure(r) \/ InboundFailure(r)
  BY <1>3, RequestBlockStep, SendRequestStep, ReceiveRequestStep, HandleBlockRequestStep,
     SendResponseStep, ReceiveResponseStep, OutboundFailureStep, InboundFailureStep
<1>4. CASE \E n \in Nodes : Grow(n)
  BY <1>4, GrowStep
<1>5. ASSUME Next
      PROVE  \/ GossipStep
             \/ \E r \in Requests :
                  \/ RequestBlock(r) \/ SendRequest(r) \/ ReceiveRequest(r) \/ HandleBlockRequest(r)
                  \/ SendResponse(r) \/ ReceiveResponse(r) \/ OutboundFailure(r) \/ InboundFailure(r)
             \/ \E n \in Nodes : Grow(n)
  <2>1. CASE External
    BY <2>1 DEF External, GossipStep
  <2>2. CASE Users
    BY <2>2 DEF Users, GossipStep
  <2>3. ASSUME NEW n \in Nodes, Events(n) \/ Commands(n)
        PROVE  \/ GossipStep
               \/ \E r \in Requests :
                    SendRequest(r) \/ SendResponse(r) \/ ReceiveRequest(r) \/ ReceiveResponse(r)
    BY <2>3 DEF Events, Commands, GossipStep
  <2>4. ASSUME NEW n \in Nodes, Handlers(n) \/ Wakes(n)
        PROVE  GossipStep \/ \E r \in Requests : HandleBlockRequest(r)
    BY <2>4 DEF Handlers, Wakes, GossipStep
  <2> QED
    BY <1>5, <2>1, <2>2, <2>3, <2>4 DEF Next
<1> QED
  BY <1>1, <1>2, <1>3, <1>4, <1>5

LEMMA MessagesInvariant == Spec => []Inv
<1>1. Init => Inv
  BY InitInv
<1>2. Inv /\ [Next]_vars => Inv'
  BY NextInv
<1> QED
  BY <1>1, <1>2, PTL DEF Spec

-----------------------------------------------------------------------------
(* Commands, messages and maps of all network tasks keep their types; the  *)
(* answer to a request is its own block, or none.                          *)
THEOREM MessagesTypeCorrect == Spec => []TypeOK
<1>1. Inv => TypeOK
  BY DEF Inv
<1> QED
  BY <1>1, MessagesInvariant, PTL

(* No channel to a peer is kept without an answer in the making, whatever  *)
(* reads, connections and handlers fail.                                   *)
THEOREM AnswerIsAlwaysComing == Spec => []AnswerIsComing
<1>1. Inv => AnswerIsComing
  BY DEF Inv
<1> QED
  BY <1>1, MessagesInvariant, PTL

(* What the handlers see of the network tasks is the block service: a call *)
(* returns once, and with a block only if the peer had it.                 *)
THEOREM ServesBlocks == Spec => Service!SafeSpec
<1>1. Init => Service!Init
  BY InitInv
<1>2. Inv /\ [Next]_vars => [Service!Next]_Service!service
  BY NextInv DEF Service!service
<1> QED
  BY <1>1, <1>2, MessagesInvariant, PTL DEF Spec, Service!SafeSpec
=============================================================================
