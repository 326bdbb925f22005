-------------------------- MODULE ZnxBlockService --------------------------
(***************************************************************************)
(* What NetworkHandle::request_block promises to the handlers of a node:   *)
(* a call ends, with the block that the peer had at that height at some    *)
(* moment since, or with none.                                             *)
(***************************************************************************)
EXTENDS Integers

CONSTANTS
  Nodes,
  Requests   \* calls, [from, to, height, id]

VARIABLES
  top,      \* node -> height of its chain
  answers   \* request -> what came of it

NotCalled == -3
Waiting   == -2
NoBlock   == -1

service == <<top, answers>>

Init ==
  /\ top \in [Nodes -> Nat]
  /\ answers = [r \in Requests |-> NotCalled]

Grow(n) == top' = [top EXCEPT ![n] = @ + 1] /\ UNCHANGED answers

Call(r) ==
  /\ answers[r] = NotCalled
  /\ answers' = [answers EXCEPT ![r] = Waiting]
  /\ UNCHANGED top

Return(r) ==
  /\ answers[r] = Waiting
  /\ \E answer \in {NoBlock} \cup (IF r.height <= top[r.to] THEN {r.height} ELSE {}) :
       answers' = [answers EXCEPT ![r] = answer]
  /\ UNCHANGED top

Next ==
  \/ \E n \in Nodes : Grow(n)
  \/ \E r \in Requests : Call(r) \/ Return(r)

SafeSpec == Init /\ [][Next]_service

Spec == SafeSpec /\ \A r \in Requests : WF_service(Return(r))
=============================================================================
