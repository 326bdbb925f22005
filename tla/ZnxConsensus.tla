---------------------------- MODULE ZnxConsensus ----------------------------
(***************************************************************************)
(* The consensus arithmetic of znx-consensus: proof of work, the subsidy   *)
(* schedule, the difficulty adjustment and the weight of a chain, with the *)
(* one function of znx-node that decides which headers they are fed with.  *)
(* 256-bit numbers are naturals below HashSpace, amounts naturals below    *)
(* 2^AmountBits: the code uses nothing else of their widths.               *)
(***************************************************************************)
EXTENDS Integers, Sequences, FiniteSetsExt, ZnxPowers

CONSTANTS
  HashSpace,           \* 2^256: hashes and targets are below it
  MaxTarget,           \* MAX_TARGET, the easiest difficulty of the network
  AmountBits,          \* 128, the width of an amount
  SubsidySchedule,     \* Genesis.subsidy_schedule
  SubsidyPeriod,       \* Genesis.subsidy_period_blocks
  InitialTarget,       \* Genesis.initial_target
  TargetBlockTime,     \* Genesis.target_block_time_secs
  AdjustmentInterval   \* Genesis.difficulty_adjustment_interval_blocks, 0: never

ASSUME ConsensusAssumption ==
  /\ HashSpace \in Nat \ {0}
  /\ MaxTarget \in 0..HashSpace - 1 /\ InitialTarget \in 0..HashSpace - 1
  /\ AmountBits \in Nat
  /\ SubsidySchedule \in Seq(0..Power(2, AmountBits) - 1) /\ SubsidySchedule # <<>>
  /\ SubsidyPeriod \in Nat \ {0}
  /\ TargetBlockTime \in Nat \ {0}
  /\ AdjustmentInterval \in Nat

MaxAdjustmentFactor == 4

AtMost(a, b)  == IF a < b THEN a ELSE b
AtLeast(a, b) == IF a < b THEN b ELSE a

(* A header carries enough work for the target that it declares itself.    *)
VerifyPow(powHash, target) == powHash <= target

(* Mutants: the last step lasts a period too long, or for ever.            *)
SubsidyForHeight_Late(height) ==
  LET period == height \div SubsidyPeriod
      last   == Len(SubsidySchedule) - 1
  IN  IF period <= last THEN SubsidySchedule[period + 1]
      ELSE SubsidySchedule[last + 1] \div Power(2, period - last - 1)

SubsidyForHeight_NoHalving(height) ==
  SubsidySchedule[AtMost(height \div SubsidyPeriod, Len(SubsidySchedule) - 1) + 1]

(* The steps of the schedule, then one halving per period; AmountBits      *)
(* halvings past the last step the subsidy is zero.                        *)
SubsidyForHeight(height) ==
  LET period == height \div SubsidyPeriod
      last   == Len(SubsidySchedule) - 1
      past   == period - last
  IN  IF past <= 0 THEN SubsidySchedule[period + 1]
      ELSE IF past >= AmountBits THEN 0
      ELSE SubsidySchedule[last + 1] \div Power(2, past)

(* Mutants: a period can be arbitrarily short, or the target too large.    *)
Retarget_AnyShorter(prev, actual, expected) ==
  AtMost((prev * AtMost(actual, expected * MaxAdjustmentFactor)) \div expected, MaxTarget)

Retarget_NoCeiling(prev, actual, expected) ==
  LET shortest == AtLeast(expected \div MaxAdjustmentFactor, 1)
      longest  == expected * MaxAdjustmentFactor
  IN  (prev * AtLeast(shortest, AtMost(actual, longest))) \div expected

(* The new target of an adjustment.  An expected timespan of 0 would panic *)
(* in clamp (its lower end is at least 1): TargetBlockTime is positive.    *)
Retarget(prev, actual, expected) ==
  LET shortest == AtLeast(expected \div MaxAdjustmentFactor, 1)
      longest  == expected * MaxAdjustmentFactor
      clamped  == AtLeast(shortest, AtMost(actual, longest))
  IN  AtMost((prev * clamped) \div expected, MaxTarget)

ExpectedTimespan == TargetBlockTime * AdjustmentInterval

IsBoundary(height) ==
  AdjustmentInterval # 0 /\ height % AdjustmentInterval = 0

(* The target a block at this height must declare, from the targets and    *)
(* timestamps of the blocks below it, two functions from heights.  The     *)
(* subtraction of timestamps saturates at 0.                               *)
ExpectedTarget(targetAt, timeAt, height) ==
  IF height = 0 THEN InitialTarget
  ELSE IF ~IsBoundary(height) THEN targetAt[height - 1]
  ELSE Retarget(targetAt[height - 1],
                AtLeast(timeAt[height - 1] - timeAt[height - AdjustmentInterval], 1),
                ExpectedTimespan)

(* The work a target stands for, and the weight of a run of headers given  *)
(* by their declared targets.                                              *)
BlockWork(target) == HashSpace \div (target + 1)

CumulativeWork(targets) ==
  SumFunction([i \in DOMAIN targets |-> BlockWork(targets[i])])
=============================================================================
