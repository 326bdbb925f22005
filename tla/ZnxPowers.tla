------------------------------ MODULE ZnxPowers ------------------------------
(***************************************************************************)
(* Powers by multiplication: what the scale of the decimals of an amount   *)
(* and the shifts of the subsidy are made of.                              *)
(***************************************************************************)
EXTENDS Integers

Power(base, exponent) ==
  LET power[n \in Nat] == IF n = 0 THEN 1 ELSE base * power[n - 1]
  IN  power[exponent]
=============================================================================
