------------------------------ MODULE MCChain ------------------------------
(***************************************************************************)
(* A small universe for ZnxChain.  Block names are their hashes:           *)
(*                                                                         *)
(*   50 -- 30 -- 31 -- 32          30 confirms t4, t1; 31 and 41 then t2   *)
(*      \     \- 20 -- 41          20 beats 31 and 32 beats 41 on a tie    *)
(*       \          \- 25          25 double-spends, with work to win      *)
(*       \          \- 24          24 claims more than subsidy and fees    *)
(*        33 -- 10                 33 loses to 30 on a tie; mined fast, so *)
(*   5                             that 10 outweighs two or three others;  *)
(*                                 5 is the genesis block of others        *)
(*                                                                         *)
(* t1 and t3 spend the same premine output, t4 the other, t2 spends t1.    *)
(***************************************************************************)
EXTENDS ZnxRpc, ZnxOverlay

MCTxs == {"premine", "c30", "c31", "c32", "c20", "c41", "c25", "c24", "c33", "c10",
          "t1", "t2", "t3", "t4"}

Coinbase(height, outputs) ==
  [coinbase |-> TRUE, claimedHeight |-> height, inputs |-> <<>>,
   outputs |-> outputs, chainIdOk |-> TRUE, witnessOk |-> TRUE]

Transfer(inputs, outputs) ==
  [coinbase |-> FALSE, claimedHeight |-> 0, inputs |-> inputs,
   outputs |-> outputs, chainIdOk |-> TRUE, witnessOk |-> TRUE]

MCTxBody ==
  [t \in MCTxs |->
     CASE t = "premine" -> Coinbase(0, <<4, 4>>)
       [] t \in {"c30", "c33"} -> Coinbase(1, <<5>>)
       [] t = "c31" -> Coinbase(2, <<3>>)
       [] t \in {"c20", "c10"} -> Coinbase(2, <<2>>)
       [] t = "c41" -> Coinbase(3, <<3>>)
       [] t \in {"c32", "c25"} -> Coinbase(3, <<2>>)
       [] t = "c24" -> Coinbase(3, <<9>>)
       [] t = "t1" -> Transfer(<< <<"premine", 1>> >>, <<3>>)
       [] t = "t2" -> Transfer(<< <<"t1", 1>> >>, <<2>>)
       [] t = "t3" -> Transfer(<< <<"premine", 1>> >>, <<1, 2>>)
       [] t = "t4" -> Transfer(<< <<"premine", 2>> >>, <<4>>)]

MCBlocks == {50, 30, 31, 32, 20, 41, 25, 24, 33, 10, 5}

Hdr(height, parent, target, timestamp) ==
  [height |-> height, parent |-> parent, target |-> target,
   timestamp |-> timestamp, powHash |-> 0, txRootOk |-> TRUE]

MCHeader ==
  [b \in MCBlocks |->
     CASE b = 50 -> Hdr(0, 50, 7, 10)
       [] b = 30 -> Hdr(1, 50, 7, 14)
       [] b = 33 -> Hdr(1, 50, 7, 11)
       [] b = 31 -> Hdr(2, 30, 7, 15)
       [] b = 20 -> Hdr(2, 30, 7, 15)
       [] b = 10 -> Hdr(2, 33, 1, 15)
       [] b = 32 -> Hdr(3, 31, 7, 16)
       [] b = 5  -> Hdr(0, 5, 7, 10)
       [] b \in {41, 25, 24} -> Hdr(3, 20, 7, 16)]

MCBody ==
  [b \in MCBlocks |->
     CASE b = 50 -> <<"premine">>
       [] b = 30 -> <<"c30", "t4", "t1">>
       [] b = 31 -> <<"c31", "t2">>
       [] b = 32 -> <<"c32">>
       [] b = 20 -> <<"c20">>
       [] b = 41 -> <<"c41", "t2">>
       [] b = 25 -> <<"c25", "t3">>
       [] b = 24 -> <<"c24">>
       [] b = 33 -> <<"c33", "t3">>
       [] b = 10 -> <<"c10">>
       [] b = 5  -> <<>>]

MCSubsidySchedule == <<4>>

(* Every first output is alice's, every second bob's.                      *)
MCAddresses   == {"alice", "bob"}
MCOutputOwner ==
  [t \in MCTxs |-> [i \in DOMAIN MCTxBody[t].outputs |-> IF i = 1 THEN "alice" ELSE "bob"]]

(* The loop of validate_full_block and its closed form agree on the coins  *)
(* that any of these blocks may leave, linked to one another or not.       *)
MCCoins == {OutputsOf(T) \ SpendsOf(T) : T \in {UNION {TxsOf(b) : b \in S} : S \in SUBSET Blocks}}

ASSUME LoopOnTheseBlocks ==
  \A base \in MCCoins, b \in Blocks :
    LET r == ValidateFullBlock(base, b, Header[b].target)
    IN  /\ r.ok <=> BlockValid(base, b, Header[b].target)
        /\ r.ok /\ OutputsOf(TxsOf(b)) \cap base = {}
             => /\ r.spent = SpentBy(b) /\ r.created = CreatedBy(b)
                /\ r.undo = r.spent /\ r.fees = FeesOf(b)
=============================================================================
