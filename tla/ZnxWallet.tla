----------------------------- MODULE ZnxWallet -----------------------------
(***************************************************************************)
(* How znx-wallet pays: largest outputs first until they suffice, and what *)
(* is left over as change.                                                 *)
(***************************************************************************)
EXTENDS Integers, Functions

SumOf(coins, amountOf) == SumFunction([c \in coins |-> amountOf[c]])

(* Mutant: the loop stops one short of the target.                         *)
Selections_Short(coins, amountOf, target) ==
  {s \in SUBSET coins :
     /\ SumOf(s, amountOf) >= target - 1
     /\ \A c \in s : \A d \in coins \ s : amountOf[c] >= amountOf[d]
     /\ \A c \in s : (\A d \in s : amountOf[c] <= amountOf[d])
                        => SumOf(s \ {c}, amountOf) < target - 1}

(* What select_utxos can return for a target, among outputs of the same    *)
(* amount in any order: none smaller than one left out, and no more than   *)
(* it takes.  The empty set if the funds do not suffice.                   *)
Selections(coins, amountOf, target) ==
  {s \in SUBSET coins :
     /\ SumOf(s, amountOf) >= target
     /\ \A c \in s : \A d \in coins \ s : amountOf[c] >= amountOf[d]
     /\ \A c \in s : (\A d \in s : amountOf[c] <= amountOf[d])
                        => SumOf(s \ {c}, amountOf) < target}

(* build_transfer; what is neither paid nor change is the fee.             *)
Transfer(inputs, amountOf, to, amount, fee) ==
  [inputs |-> inputs, to |-> to, amount |-> amount,
   change |-> SumOf(inputs, amountOf) - (amount + fee)]
=============================================================================
