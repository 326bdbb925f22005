------------------------------ MODULE ZnxRules ------------------------------
(***************************************************************************)
(* The rules of the chain, by which nodes agree: which chains of blocks    *)
(* are valid, and which of two is the better one.                          *)
(***************************************************************************)
EXTENDS ZnxState

(* Heights count from 0, places in a sequence from 1.                      *)
TargetAfter(c) ==
  ExpectedTarget([h \in 0..Len(c) - 1 |-> Header[c[h + 1]].target],
                 [h \in 0..Len(c) - 1 |-> Header[c[h + 1]].timestamp],
                 Len(c))

ValidChain(c) ==
  /\ c # <<>> /\ c[1] = GenesisBlock
  /\ \A i \in 2..Len(c) :
       LET below == SubSeq(c, 1, i - 1)
       IN  /\ Height(c[i]) = i - 1
           /\ Parent(c[i]) = c[i - 1]
           /\ BlockValid(Replay(below), c[i], TargetAfter(below))

Work(c) == CumulativeWork([i \in DOMAIN c |-> Header[c[i]].target])

Better(new, old) ==
  \/ Work(new) > Work(old)
  \/ Work(new) = Work(old) /\ new[Len(new)] < old[Len(old)]
=============================================================================
