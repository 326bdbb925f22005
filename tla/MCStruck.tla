------------------------------ MODULE MCStruck ------------------------------
(***************************************************************************)
(* Two nodes on one chain, 50 -- 30 -- 21: A has it all, B the genesis     *)
(* block.  There is no fork, nothing left to mine and no fault: whatever   *)
(* comes to B it has asked A for in an initial download.                   *)
(***************************************************************************)
EXTENDS ZnxNetwork

MCNodes == {"A", "B"}

MCTxs == {"premine", "c1", "c2"}

MCTxBody ==
  [t \in MCTxs |->
     [coinbase |-> TRUE,
      claimedHeight |-> CASE t = "premine" -> 0 [] t = "c1" -> 1 [] t = "c2" -> 2,
      inputs |-> <<>>, outputs |-> <<4>>, chainIdOk |-> TRUE, witnessOk |-> TRUE]]

MCBlocks == {50, 30, 21}

MCHeader ==
  [b \in MCBlocks |->
     [height    |-> CASE b = 50 -> 0 [] b = 30 -> 1 [] b = 21 -> 2,
      parent    |-> IF b = 21 THEN 30 ELSE 50,
      target    |-> 7, timestamp |-> 10, powHash |-> 0, txRootOk |-> TRUE]]

MCBody == [b \in MCBlocks |-> CASE b = 50 -> <<"premine">> [] b = 30 -> <<"c1">> [] b = 21 -> <<"c2">>]

MCMiner == [b \in MCBlocks |-> "A"]

MCInitialChains == {[n \in MCNodes |-> IF n = "A" THEN <<50, 30, 21>> ELSE <<50>>]}

MCSubsidySchedule == <<4>>
=============================================================================
