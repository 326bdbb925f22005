--------------------------- MODULE MCWithdrawals ---------------------------
(***************************************************************************)
(* Two requests, one of which has more decimals than there are, so that    *)
(* the poll rejects its row, though sign_withdrawal pays it.  With two     *)
(* decimals, the other asks for 1.2; sign_withdrawal is asked for as much, *)
(* for the most that an amount can hold, and for a fee, which does not fit *)
(* on top of the latter.  Both requests want the largest output of the     *)
(* wallet; the funds suffice for two payments that the poll could make, or *)
(* one with a fee besides, and not for three.                              *)
(***************************************************************************)
EXTENDS ZnxWithdrawals

MCRequests == {"w1", "w2"}
MCMonto    == [r \in MCRequests |-> IF r = "w1" THEN Decimal(1, 2, 1) ELSE Decimal(0, 25, 3)]
MCFunds    == <<150, 96>>
=============================================================================
