------------------------------- MODULE MCNode -------------------------------
(***************************************************************************)
(* A small universe for ZnxNode.  A search for a nonce can end in any of   *)
(* these blocks that fits the candidate, and always in none.               *)
(*                                                                         *)
(*   50 -- 40 -- 41      40 confirms t1, 41 then t2, which spends t1       *)
(*     \      \- 42      42 confirms t1 again                              *)
(*     \-- 30 -- 31      30 is empty and beats 40 on a tie, 31 confirms t1 *)
(*     \-- 20            20 confirms t3, a rival of t1, and beats 30       *)
(*                                                                         *)
(* t4 spends the other output of the premine; no block confirms it.        *)
(***************************************************************************)
EXTENDS ZnxNode

MCTxs == {"premine", "c40", "c41", "c42", "c30", "c31", "c20", "t1", "t2", "t3", "t4"}

Coinbase(height, amounts) ==
  [coinbase |-> TRUE, claimedHeight |-> height, inputs |-> <<>>,
   outputs |-> amounts, chainIdOk |-> TRUE, witnessOk |-> TRUE]

Transfer(input, amount) ==
  [coinbase |-> FALSE, claimedHeight |-> 0, inputs |-> <<input>>,
   outputs |-> <<amount>>, chainIdOk |-> TRUE, witnessOk |-> TRUE]

MCTxBody ==
  [t \in MCTxs |->
     CASE t = "premine" -> Coinbase(0, <<4, 4>>)
       [] t = "c30" -> Coinbase(1, <<4>>)
       [] t \in {"c40", "c20"} -> Coinbase(1, <<5>>)
       [] t \in {"c41", "c42", "c31"} -> Coinbase(2, <<5>>)
       [] t = "t1" -> Transfer(<<"premine", 1>>, 3)
       [] t = "t2" -> Transfer(<<"t1", 1>>, 2)
       [] t = "t3" -> Transfer(<<"premine", 1>>, 3)
       [] t = "t4" -> Transfer(<<"premine", 2>>, 4)]

MCBlocks == {50, 40, 41, 42, 30, 31, 20}

MCHeader ==
  [b \in MCBlocks |->
     [height    |-> CASE b = 50 -> 0 [] b \in {40, 30, 20} -> 1 [] OTHER -> 2,
      parent    |-> CASE b \in {41, 42} -> 40 [] b = 31 -> 30 [] OTHER -> 50,
      target    |-> 7, timestamp |-> 10, powHash |-> 0, txRootOk |-> TRUE]]

MCBody ==
  [b \in MCBlocks |->
     CASE b = 50 -> <<"premine">>
       [] b = 40 -> <<"c40", "t1">>
       [] b = 41 -> <<"c41", "t2">>
       [] b = 42 -> <<"c42", "t1">>
       [] b = 30 -> <<"c30">>
       [] b = 31 -> <<"c31", "t1">>
       [] b = 20 -> <<"c20", "t3">>]

MCSubsidySchedule == <<4>>
=============================================================================
