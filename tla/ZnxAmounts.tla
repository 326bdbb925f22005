----------------------------- MODULE ZnxAmounts -----------------------------
(***************************************************************************)
(* How znx-custody converts between the decimal amounts of the backend and *)
(* the base units of the chain, by digits and never by floats.  A decimal  *)
(* is what it reads as: its whole part, the number that its decimals       *)
(* spell, and how many they are; or it is not a number at all.             *)
(***************************************************************************)
EXTENDS ZnxPowers

CONSTANTS
  Decimals,   \* ZNX_DECIMALS
  Width       \* bits of an amount, 128 in the code

ASSUME AmountsAssumption == Decimals \in Nat /\ Width \in Nat \ {0}

Scale  == Power(10, Decimals)
MaxAmt == Power(2, Width) - 1
NotAnAmount == -1

Decimal(whole, frac, places) ==
  [number |-> TRUE, whole |-> whole, frac |-> frac, places |-> places]
DecimalNumber == [number : BOOLEAN, whole : Nat, frac : Nat, places : Nat]
Garbage == [number |-> FALSE, whole |-> 0, frac |-> 0, places |-> 0]

(* Mutant: the decimals are not padded to their full number.               *)
ParseDecimal_Unpadded(d) ==
  IF ~d.number \/ d.places > Decimals THEN NotAnAmount
  ELSE LET total == d.whole * Scale + d.frac
       IN  IF total \in 1..MaxAmt THEN total ELSE NotAnAmount

(* parse_znx_decimal_to_base_units: no more decimals than there are, no    *)
(* overflow in the product or in the sum, and not zero.                    *)
ParseDecimal(d) ==
  IF ~d.number \/ d.places > Decimals THEN NotAnAmount
  ELSE LET total == d.whole * Scale + d.frac * Power(10, Decimals - d.places)
       IN  IF total \in 1..MaxAmt THEN total ELSE NotAnAmount

(* Mutant: the decimals are written without the zeros that precede them.   *)
FormatUnits_Unpadded(units) ==
  LET frac   == units % Scale
      digits == CHOOSE n \in 0..Decimals : frac < Power(10, n) /\ (n > 0 => frac >= Power(10, n - 1))
      zeros  == CHOOSE n \in 0..digits :
                  /\ frac % Power(10, n) = 0
                  /\ \A m \in n + 1..digits : frac % Power(10, m) # 0
  IN  Decimal(units \div Scale, frac \div Power(10, zeros), digits - zeros)

(* format_base_units_as_znx_decimal: padded in front, and without the      *)
(* zeros at the end.                                                       *)
FormatUnits(units) ==
  LET frac  == units % Scale
      zeros == CHOOSE n \in 0..Decimals :
                 /\ frac % Power(10, n) = 0
                 /\ \A m \in n + 1..Decimals : frac % Power(10, m) # 0
  IN  Decimal(units \div Scale, frac \div Power(10, zeros), Decimals - zeros)

(* A number of base units is what the decimal says, without rounding.      *)
SameAmount(units, d) ==
  units * Power(10, d.places) = (d.whole * Power(10, d.places) + d.frac) * Scale
=============================================================================
