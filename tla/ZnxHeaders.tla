----------------------------- MODULE ZnxHeaders -----------------------------
(***************************************************************************)
(* The part of a block that its height and the chain under it determine:   *)
(* the difficulty and the subsidy.  Miners extend one chain; each dates    *)
(* its block by its own clock, which nobody checks.                        *)
(***************************************************************************)
EXTENDS ZnxConsensus

CONSTANTS
  MaxHeight,  \* bound: the highest block mined
  Times       \* bound: what the clocks of the miners show

ASSUME HeadersAssumption == MaxHeight \in Nat /\ Times \subseteq Nat

VARIABLES
  targetAt,  \* height -> target declared
  timeAt,    \* height -> timestamp
  supply     \* what the coinbases have created, fees aside

vars == <<targetAt, timeAt, supply>>

Tip == Len(targetAt) - 1

(* Heights count from 0.                                                   *)
At(seq) == [h \in 0..Len(seq) - 1 |-> seq[h + 1]]

Init ==
  /\ targetAt = <<InitialTarget>>
  /\ timeAt \in {<<t>> : t \in Times}
  /\ supply = 0

(* build_mining_candidate and validate_full_block agree on all but the     *)
(* time, which is what the clock of the miner shows.                       *)
Mine(time) ==
  /\ Tip < MaxHeight
  /\ targetAt' = Append(targetAt, ExpectedTarget(At(targetAt), At(timeAt), Tip + 1))
  /\ timeAt' = Append(timeAt, time)
  /\ supply' = supply + SubsidyForHeight(Tip + 1)

Next == \E time \in Times : Mine(time)

Spec == Init /\ [][Next]_vars

-----------------------------------------------------------------------------
TypeOK ==
  /\ targetAt \in Seq(0..HashSpace - 1) /\ targetAt # <<>>
  /\ timeAt \in Seq(Times) /\ Len(timeAt) = Len(targetAt)
  /\ supply \in Nat

Target(h) == targetAt[h + 1]
Time(h)   == timeAt[h + 1]

Boundaries == {h \in 1..Tip : IsBoundary(h)}

(* The adjustment is the documented one, clamp(prev * actual / expected,   *)
(* prev / 4, prev * 4) under the ceiling, although the code clamps the     *)
(* timespan and not the target: miners with wild clocks move the target by *)
(* four at most.  The expected timespan is a multiple of four here.        *)
AdjustsAsDocumented ==
  \A h \in Boundaries :
    LET prev   == Target(h - 1)
        actual == AtLeast(Time(h - 1) - Time(h - AdjustmentInterval), 1)
        wanted == (prev * actual) \div ExpectedTimespan
    IN  Target(h) = AtMost(MaxTarget,
                      AtLeast(prev \div 4, AtMost(wanted, prev * 4)))

(* Past the declared schedule the subsidy of a period is half of the last, *)
(* and shifting by the number of halvings never differs from halving again *)
(* and again, down to the width of an amount and past it.                  *)
SubsidyHalves ==
  \A h \in 0..Tip :
    h \div SubsidyPeriod >= Len(SubsidySchedule) =>
      SubsidyForHeight(h) = SubsidyForHeight(h - SubsidyPeriod) \div 2

(* The cap on the coins mined that the schedule is published with: its     *)
(* steps for a period each, and the last step once more for the halvings.  *)
SupplyCapped ==
  supply <= SubsidyPeriod * (SumFunction(SubsidySchedule)
                             + SubsidySchedule[Len(SubsidySchedule)])
=============================================================================
