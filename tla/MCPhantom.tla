----------------------------- MODULE MCPhantom -----------------------------
(***************************************************************************)
(* A universe with a block that spends its own output and with a block     *)
(* dated before the genesis block.                                         *)
(*                                                                         *)
(*   50 -- 30 -- 31      30 confirms t1, which spends the premine, and t2, *)
(*      \- 20 -- 21      which spends t1; 20 beats 30 on a tie             *)
(***************************************************************************)
EXTENDS MCChain

PhantomTxs == {"premine", "c30", "c31", "c20", "c21", "t1", "t2"}

PhantomTxBody ==
  [t \in PhantomTxs |->
     CASE t = "premine" -> Coinbase(0, <<4, 4>>)
       [] t \in {"c30", "c20"} -> Coinbase(1, <<4>>)
       [] t \in {"c31", "c21"} -> Coinbase(2, <<2>>)
       [] t = "t1" -> Transfer(<< <<"premine", 1>> >>, <<4>>)
       [] t = "t2" -> Transfer(<< <<"t1", 1>> >>, <<4>>)]

PhantomBlocks == {50, 30, 31, 20, 21}

PhantomHeader ==
  [b \in PhantomBlocks |->
     CASE b = 50 -> Hdr(0, 50, 7, 10)
       [] b = 30 -> Hdr(1, 50, 7, 14)
       [] b = 20 -> Hdr(1, 50, 7, 1)
       [] b = 31 -> Hdr(2, 30, 7, 15)
       [] b = 21 -> Hdr(2, 20, 7, 15)]

PhantomBody ==
  [b \in PhantomBlocks |->
     CASE b = 50 -> <<"premine">>
       [] b = 30 -> <<"c30", "t1", "t2">>
       [] b = 20 -> <<"c20">>
       [] b = 31 -> <<"c31">>
       [] b = 21 -> <<"c21">>]

PhantomOutputOwner ==
  [t \in PhantomTxs |-> [i \in DOMAIN PhantomTxBody[t].outputs |-> "alice"]]
=============================================================================
