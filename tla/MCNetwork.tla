----------------------------- MODULE MCNetwork -----------------------------
(***************************************************************************)
(* Two nodes, A and B.  Either B is behind A, or they are on a fork.       *)
(*                                                                         *)
(*   50 -- 30 -- 21 -- 12      A mines 21 and 12                           *)
(*     \     \-- 15            invalid, and it would win every tie         *)
(*     \-- 20                  B mines 20: a fork of the same work         *)
(***************************************************************************)
EXTENDS ZnxNetwork

MCNodes == {"A", "B"}

MCTxs == {"premine", "c1", "c2", "c3"}

MCTxBody ==
  [t \in MCTxs |->
     [coinbase |-> TRUE,
      claimedHeight |-> CASE t = "premine" -> 0 [] t = "c1" -> 1 [] t = "c2" -> 2 [] t = "c3" -> 3,
      inputs |-> <<>>, outputs |-> <<4>>, chainIdOk |-> TRUE, witnessOk |-> TRUE]]

MCBlocks == {50, 30, 21, 12, 20, 15}

MCHeader ==
  [b \in MCBlocks |->
     [height    |-> CASE b = 50 -> 0 [] b \in {30, 20} -> 1 [] b \in {21, 15} -> 2 [] b = 12 -> 3,
      parent    |-> CASE b \in {21, 15} -> 30 [] b = 12 -> 21 [] OTHER -> 50,
      target    |-> 7, timestamp |-> 10, powHash |-> 0, txRootOk |-> b # 15]]

MCBody ==
  [b \in MCBlocks |->
     CASE b = 50 -> <<"premine">>
       [] b \in {30, 20} -> <<"c1">>
       [] b \in {21, 15} -> <<"c2">>
       [] b = 12 -> <<"c3">>]

MCMiner == [b \in MCBlocks |-> IF b \in {30, 21, 12, 15} THEN "A" ELSE "B"]

MCInitialChains ==
  {[n \in MCNodes |-> IF n = "A" THEN <<50, 30, 21>> ELSE <<50>>],
   [n \in MCNodes |-> IF n = "A" THEN <<50, 30>> ELSE <<50, 20>>]}

MCSubsidySchedule == <<4>>
=============================================================================
