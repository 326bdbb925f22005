----------------------------- MODULE MCDeposits -----------------------------
(***************************************************************************)
(* Two deposits on one address, two confirmations, and reorganisations of  *)
(* one block or two: the deeper ones take a credited deposit with them,    *)
(* and there is room to mine it again.  With two decimals the deposits are *)
(* 1.05 and 1.2, one with a zero in front and one that leaves a zero       *)
(* behind.                                                                 *)
(***************************************************************************)
EXTENDS ZnxDeposits

MCDepositSet == {"d1", "d2"}
MCAmount     == [c \in MCDepositSet |-> IF c = "d1" THEN 105 ELSE 120]
MCPasswords  == {"p1", NoPassword}
=============================================================================
