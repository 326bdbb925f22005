------------------------- MODULE ZnxHeaders_proofs --------------------------
(***************************************************************************)
(* Theorems about the chain of headers: the schedule of the subsidies and  *)
(* the adjustment of the difficulty, at every height, for every schedule   *)
(* of steps, every width of amounts and hashes and every clock of the      *)
(* miners.                                                                 *)
(***************************************************************************)
EXTENDS ZnxHeaders, ZnxSums_proofs

LEMMA QuotientIs ==
  ASSUME NEW a \in Nat, NEW e \in Nat \ {0}, NEW q \in Nat, e * q <= a, a < e * q + e
  PROVE  a \div e = q
<1>1. PICK p : p = a \div e /\ p \in Nat /\ e * p <= a /\ a < e * p + e
  BY Quotient
<1>2. ~(p < q)
  <2> SUFFICES ASSUME p + 1 <= q PROVE FALSE
    BY <1>1
  <2>1. e * (p + 1) <= e * q
    BY <1>1
  <2>2. e * (p + 1) = e * p + e
    BY <1>1
  <2> QED
    BY <1>1, <2>1, <2>2
<1>3. ~(q < p)
  <2> SUFFICES ASSUME q + 1 <= p PROVE FALSE
    BY <1>1
  <2>1. e * (q + 1) <= e * p
    BY <1>1
  <2>2. e * (q + 1) = e * q + e
    OBVIOUS
  <2> QED
    BY <1>1, <2>1, <2>2
<1> QED
  BY <1>1, <1>2, <1>3

LEMMA QuotientGrows ==
  ASSUME NEW a \in Nat, NEW b \in Nat, NEW e \in Nat \ {0}, a <= b
  PROVE  a \div e <= b \div e
<1>1. PICK p : p = a \div e /\ p \in Nat /\ e * p <= a
  BY Quotient
<1>2. PICK q : q = b \div e /\ q \in Nat /\ b < e * q + e
  BY Quotient
<1>3. ~(q < p)
  <2> SUFFICES ASSUME q + 1 <= p PROVE FALSE
    BY <1>1, <1>2
  <2>1. e * (q + 1) <= e * p
    BY <1>1, <1>2
  <2>2. e * (q + 1) = e * q + e
    BY <1>2
  <2> QED
    BY <1>1, <1>2, <2>1, <2>2
<1> QED
  BY <1>1, <1>2, <1>3

LEMMA QuotientOfProduct ==
  ASSUME NEW a \in Nat, NEW b \in Nat, NEW e \in Nat \ {0}
  PROVE  /\ (a * e) \div e = a
         /\ b > 0 => (a * e) \div (b * e) = a \div b
<1>1. (a * e) \div e = a
  <2>1. a * e \in Nat /\ e * a <= a * e /\ a * e < e * a + e
    OBVIOUS
  <2> QED
    BY <2>1, QuotientIs
<1>2. ASSUME b > 0
      PROVE  (a * e) \div (b * e) = a \div b
  <2>0. PICK q : q = a \div b /\ q \in Nat /\ b * q <= a /\ a < b * q + b
    BY <1>2, Quotient
  <2>1. q = a \div b /\ q \in Nat /\ b * q <= a /\ a + 1 <= b * q + b
    BY <2>0
  <2>2. (b * q) * e <= a * e
    BY <2>1
  <2>3. (a + 1) * e <= (b * q + b) * e
    BY <2>1
  <2>4. (a + 1) * e = a * e + e /\ (b * q + b) * e = (b * q) * e + b * e
    BY <2>1
  <2>5. (b * q) * e = (b * e) * q
    BY <2>1
  <2>6. a * e \in Nat /\ b * e \in Nat \ {0}
    BY <1>2
  <2>7. (b * e) * q <= a * e /\ a * e < (b * e) * q + b * e
    BY <2>1, <2>2, <2>3, <2>4, <2>5, <2>6
  <2> QED
    BY <2>1, <2>6, <2>7, QuotientIs
<1> QED
  BY <1>1, <1>2

LEMMA HalfOfQuotient ==
  ASSUME NEW a \in Nat, NEW e \in Nat \ {0}
  PROVE  (a \div e) \div 2 = a \div (2 * e)
<1>1. PICK q : q = a \div e /\ q \in Nat /\ e * q <= a /\ a < e * q + e
  BY Quotient
<1>2. PICK h : h = q \div 2 /\ h \in Nat /\ 2 * h <= q /\ q < 2 * h + 2
  BY <1>1
<1>3. e * (2 * h) <= e * q /\ e * q <= e * (2 * h + 1)
  BY <1>1, <1>2
<1>4. e * (2 * h) = (2 * e) * h /\ e * (2 * h + 1) = (2 * e) * h + e
  BY <1>2
<1>5. (2 * e) * h <= a /\ a < (2 * e) * h + 2 * e /\ 2 * e \in Nat \ {0}
  BY <1>1, <1>2, <1>3, <1>4
<1> QED
  BY <1>1, <1>2, <1>5, QuotientIs

-----------------------------------------------------------------------------
(* The targets.                                                            *)

LEMMA RetargetType ==
  ASSUME NEW prev \in 0..HashSpace - 1, NEW actual \in Nat, NEW expected \in Nat \ {0}
  PROVE  Retarget(prev, actual, expected) \in 0..HashSpace - 1
<1>1. PICK shortest, longest, clamped :
        /\ shortest = AtLeast(expected \div MaxAdjustmentFactor, 1)
        /\ longest = expected * MaxAdjustmentFactor
        /\ clamped = AtLeast(shortest, AtMost(actual, longest))
  OBVIOUS
<1>2. expected \div 4 \in Nat /\ expected * 4 \in Nat
  OBVIOUS
<1>3. clamped \in Nat
  BY <1>1, <1>2 DEF AtLeast, AtMost, MaxAdjustmentFactor
<1>4. HashSpace \in Nat \ {0} /\ MaxTarget \in 0..HashSpace - 1 /\ prev \in Nat
  BY ConsensusAssumption
<1>5. prev * clamped \in Nat
  BY <1>3, <1>4
<1>6. PICK t : t = (prev * clamped) \div expected /\ t \in Nat
  BY <1>5, Quotient
<1>7. Retarget(prev, actual, expected) = AtMost(t, MaxTarget)
  BY <1>1, <1>6 DEF Retarget
<1> QED
  BY <1>4, <1>6, <1>7 DEF AtMost

LEMMA TimespanType == AdjustmentInterval # 0 => ExpectedTimespan \in Nat \ {0}
<1> SUFFICES ASSUME AdjustmentInterval # 0
             PROVE  ExpectedTimespan \in Nat \ {0}
  OBVIOUS
<1>1. PICK a \in Nat \ {0}, b \in Nat \ {0} : a = TargetBlockTime /\ b = AdjustmentInterval
  BY ConsensusAssumption
<1>2. a * b \in Nat \ {0}
  OBVIOUS
<1> QED
  BY <1>1, <1>2 DEF ExpectedTimespan

(* An adjustment looks back at a block that there is.                      *)
LEMMA BoundaryLooksBack ==
  ASSUME NEW h \in Nat \ {0}, IsBoundary(h)
  PROVE  AdjustmentInterval \in Nat \ {0} /\ h - AdjustmentInterval \in 0..h - 1
<1>1. PICK i \in Nat \ {0} : i = AdjustmentInterval
  BY ConsensusAssumption DEF IsBoundary
<1>2. h % i = 0
  BY <1>1 DEF IsBoundary
<1>3. PICK q : q = h \div i /\ q \in Nat /\ h = i * q
  <2>1. PICK q, r : q = h \div i /\ r = h % i
    OBVIOUS
  <2>2. q \in Nat /\ r = 0
    BY <1>2, <2>1, Quotient
  <2>3. h = (i * q) + r
    BY <2>1
  <2> QED
    BY <2>1, <2>2, <2>3
<1>4. q >= 1
  BY <1>3
<1>5. i * q >= i * 1
  BY <1>3, <1>4
<1> QED
  BY <1>1, <1>3, <1>5

(* What a block at a height declares, by the blocks below it.              *)
LEMMA ExpectedType ==
  ASSUME NEW targets \in Seq(0..HashSpace - 1), NEW times \in Seq(Times), targets # <<>>,
         Len(times) = Len(targets)
  PROVE  ExpectedTarget(At(targets), At(times), Len(targets)) \in 0..HashSpace - 1
<1>1. PICK n : n = Len(targets) /\ n \in Nat \ {0}
  OBVIOUS
<1>2. \A h \in 0..n - 1 : At(targets)[h] \in 0..HashSpace - 1 /\ At(times)[h] \in Nat
  <2> SUFFICES ASSUME NEW h \in 0..n - 1
               PROVE  At(targets)[h] \in 0..HashSpace - 1 /\ At(times)[h] \in Nat
    OBVIOUS
  <2>1. h + 1 \in 1..n
    BY <1>1
  <2>2. PICK S : S = 0..HashSpace - 1
    OBVIOUS
  <2>3. targets \in Seq(S) /\ Len(targets) = n /\ Len(times) = n
    BY <1>1, <2>2
  <2>4. targets[h + 1] \in S
    BY <2>1, <2>3
  <2>5. times[h + 1] \in Times
    BY <2>1, <2>3
  <2>6. At(targets)[h] = targets[h + 1] /\ At(times)[h] = times[h + 1]
    BY <2>3 DEF At
  <2> QED
    BY <2>2, <2>4, <2>5, <2>6, HeadersAssumption
<1>3. n - 1 \in 0..n - 1
  BY <1>1
<1>4. CASE ~IsBoundary(n)
  BY <1>1, <1>2, <1>3, <1>4 DEF ExpectedTarget
<1>5. CASE IsBoundary(n)
  <2>1. AdjustmentInterval \in Nat \ {0} /\ n - AdjustmentInterval \in 0..n - 1
    BY <1>1, <1>5, BoundaryLooksBack
  <2>2. PICK x, y, p : /\ x = At(times)[n - 1] /\ y = At(times)[n - AdjustmentInterval]
                       /\ p = At(targets)[n - 1]
    OBVIOUS
  <2>3. x \in Nat /\ y \in Nat /\ p \in 0..HashSpace - 1
    BY <1>2, <1>3, <2>1, <2>2
  <2>d. PICK d \in Int : d = x - y
    BY <2>3
  <2>4. PICK a \in Nat : a = AtLeast(x - y, 1)
    BY <2>d DEF AtLeast
  <2>5. PICK e \in Nat \ {0} : e = ExpectedTimespan
    BY <2>1, TimespanType
  <2>6. Retarget(p, a, e) \in 0..HashSpace - 1
    BY <2>3, RetargetType
  <2>7. ExpectedTarget(At(targets), At(times), n) = Retarget(p, a, e)
    BY <1>1, <1>5, <2>2, <2>4, <2>5 DEF ExpectedTarget
  <2> QED
    BY <1>1, <2>6, <2>7
<1> QED
  BY <1>1, <1>4, <1>5

-----------------------------------------------------------------------------
(* The subsidy.                                                            *)

LEMMA ScheduleType ==
  /\ Len(SubsidySchedule) \in Nat \ {0} /\ SubsidyPeriod \in Nat \ {0} /\ AmountBits \in Nat
  /\ SubsidySchedule \in [1..Len(SubsidySchedule) -> Nat]
  /\ \A i \in 1..Len(SubsidySchedule) : SubsidySchedule[i] < Power(2, AmountBits)
<1>1. PICK top, S : top = Power(2, AmountBits) - 1 /\ S = 0..top
  OBVIOUS
<1>2. Power(2, AmountBits) \in Nat /\ AmountBits \in Nat
  BY ConsensusAssumption, PowerSteps
<1>3. S \subseteq Nat /\ (\A x \in S : x < Power(2, AmountBits)) /\ SubsidySchedule \in Seq(S)
  BY <1>1, <1>2, ConsensusAssumption
<1>4. PICK n : n = Len(SubsidySchedule) /\ SubsidySchedule \in [1..n -> S] /\ n \in Nat
  BY <1>3
<1>5. n # 0 /\ SubsidyPeriod \in Nat \ {0}
  BY <1>3, <1>4, ConsensusAssumption
<1> QED
  BY <1>2, <1>3, <1>4, <1>5

LEMMA LastType ==
  \E last \in Nat : last = Len(SubsidySchedule) - 1
<1>1. PICK n \in Nat \ {0} : n = Len(SubsidySchedule)
  BY ScheduleType
<1>2. n - 1 \in Nat
  OBVIOUS
<1> QED
  BY <1>1, <1>2

(* The subsidy of a period of heights.                                     *)
OfPeriod(k) ==
  LET last == Len(SubsidySchedule) - 1
  IN  IF k <= last THEN SubsidySchedule[k + 1]
      ELSE IF k - last >= AmountBits THEN 0
      ELSE SubsidySchedule[last + 1] \div Power(2, k - last)

LEMMA SubsidyOfPeriod ==
  ASSUME NEW h \in Nat
  PROVE  SubsidyForHeight(h) = OfPeriod(h \div SubsidyPeriod) /\ h \div SubsidyPeriod \in Nat
<1>1. PICK k \in Nat : k = h \div SubsidyPeriod
  BY ScheduleType, Quotient
<1>2. PICK last \in Nat : last = Len(SubsidySchedule) - 1
  BY LastType
<1>3. k - last <= 0 <=> k <= last
  OBVIOUS
<1> QED
  BY <1>1, <1>2, <1>3 DEF SubsidyForHeight, OfPeriod

LEMMA PeriodType == \A k \in Nat : OfPeriod(k) \in Nat
<1> SUFFICES ASSUME NEW k \in Nat PROVE OfPeriod(k) \in Nat
  OBVIOUS
<1>1. PICK last \in Nat : last = Len(SubsidySchedule) - 1
  BY LastType
<1>2. CASE k <= last
  <2>1. k + 1 \in 1..Len(SubsidySchedule)
    BY <1>1, <1>2, ScheduleType
  <2> QED
    BY <1>1, <1>2, <2>1, ScheduleType DEF OfPeriod
<1>3. CASE ~(k <= last) /\ k - last >= AmountBits
  BY <1>1, <1>3 DEF OfPeriod
<1>4. CASE ~(k <= last) /\ ~(k - last >= AmountBits)
  <2>1. PICK past \in Nat : past = k - last
    BY <1>4
  <2>2. PICK p \in Nat \ {0} : p = Power(2, past)
    BY PowerPositive
  <2>3. PICK s \in Nat : s = SubsidySchedule[last + 1]
    BY <1>1, ScheduleType
  <2>4. s \div p \in Nat
    BY Quotient
  <2> QED
    BY <1>1, <1>4, <2>1, <2>2, <2>3, <2>4 DEF OfPeriod
<1> QED
  BY <1>2, <1>3, <1>4

(* Past the schedule each period has half of the subsidy of the last.      *)
LEMMA PeriodsHalve ==
  ASSUME NEW k \in Nat, k >= Len(SubsidySchedule)
  PROVE  OfPeriod(k) = OfPeriod(k - 1) \div 2
<1>1. PICK last \in Nat : last = Len(SubsidySchedule) - 1
  BY LastType
<1>2. PICK s \in Nat : s = SubsidySchedule[last + 1] /\ s < Power(2, AmountBits)
  BY <1>1, ScheduleType
<1>3. PICK past \in Nat : past = k - 1 - last
  BY <1>1, ScheduleType
<1>4. k - last = past + 1 /\ (k - 1) - last = past /\ ~(k <= last) /\ (k - 1 <= last <=> past = 0)
  BY <1>3
<1>5. PICK p \in Nat \ {0} : p = Power(2, past) /\ Power(2, past + 1) = 2 * p
  <2>1. 2 \in Nat \ {0} /\ 2 \in Nat
    OBVIOUS
  <2> QED
    BY <2>1, PowerPositive, PowerSteps
<1>6. OfPeriod(k) = IF past + 1 >= AmountBits THEN 0 ELSE s \div (2 * p)
  BY <1>1, <1>2, <1>4, <1>5 DEF OfPeriod
<1>7. (s \div p) \div 2 = s \div (2 * p)
  BY HalfOfQuotient
<1>8. OfPeriod(k - 1) = IF past = 0 THEN s ELSE IF past >= AmountBits THEN 0 ELSE s \div p
  <2>1. CASE past = 0
    <3>1. k - 1 = last
      BY <1>3, <2>1
    <3> QED
      BY <1>1, <1>2, <2>1, <3>1 DEF OfPeriod
  <2>2. CASE past # 0
    BY <1>1, <1>2, <1>4, <1>5, <2>2 DEF OfPeriod
  <2> QED
    BY <2>1, <2>2
<1>9. past = 0 => p = 1 /\ s \div p = s
  <2>1. Power(2, 0) = 1
    BY PowerSteps
  <2> QED
    BY <1>5, <2>1
<1>10. AmountBits \in Nat
  BY ScheduleType
(* After as many halvings as an amount has bits nothing is left.           *)
<1>11. past + 1 >= AmountBits => s \div (2 * p) = 0
  <2> SUFFICES ASSUME past + 1 >= AmountBits
               PROVE  s \div (2 * p) = 0
    OBVIOUS
  <2>1. PICK more \in Nat : more = past + 1 - AmountBits
    BY <1>10
  <2>2. Power(2, AmountBits + more) = Power(2, AmountBits) * Power(2, more)
    BY <1>10, PowerAdds
  <2>3. PICK x \in Nat, y \in Nat \ {0} : x = Power(2, AmountBits) /\ y = Power(2, more)
    <3>1. 2 \in Nat \ {0}
      OBVIOUS
    <3> QED
      BY <1>10, <3>1, PowerPositive
  <2>4. AmountBits + more = past + 1
    BY <1>10, <2>1
  <2>5. 2 * p = x * y /\ s < x
    BY <1>2, <1>5, <2>2, <2>3, <2>4
  <2>6. x * y >= x * 1
    OBVIOUS
  <2>7. s < 2 * p
    BY <2>5, <2>6
  <2>8. 2 * p \in Nat \ {0} /\ (2 * p) * 0 = 0
    OBVIOUS
  <2> QED
    BY <2>7, <2>8, QuotientIs
<1>12. CASE past + 1 >= AmountBits
  <2>1. OfPeriod(k) = 0 /\ (s \div p) \div 2 = 0
    BY <1>6, <1>7, <1>11, <1>12
  <2>2. OfPeriod(k - 1) = s \div p \/ OfPeriod(k - 1) = 0
    BY <1>8, <1>9
  <2>3. 0 \div 2 = 0
    OBVIOUS
  <2> QED
    BY <2>1, <2>2, <2>3
<1>13. CASE ~(past + 1 >= AmountBits)
  <2>1. OfPeriod(k - 1) = s \div p
    BY <1>8, <1>9, <1>10, <1>13
  <2> QED
    BY <1>6, <1>7, <1>13, <2>1
<1> QED
  BY <1>12, <1>13

-----------------------------------------------------------------------------
(* The chain.                                                              *)

(* What Mine appends to: the new block leaves those below as they are.     *)
LEMMA Appended ==
  ASSUME NEW S, NEW seq \in Seq(S), NEW x \in S
  PROVE  /\ Append(seq, x) \in Seq(S) /\ Len(Append(seq, x)) = Len(seq) + 1
         /\ Append(seq, x)[Len(seq) + 1] = x
         /\ \A i \in 1..Len(seq) : Append(seq, x)[i] = seq[i]
OBVIOUS

LEMMA TipType ==
  ASSUME TypeOK
  PROVE  Tip \in Nat /\ Len(targetAt) = Tip + 1 /\ Len(timeAt) = Tip + 1
<1>1. PICK n \in Nat \ {0} : n = Len(targetAt)
  BY DEF TypeOK
<1>2. n - 1 \in Nat /\ (n - 1) + 1 = n
  OBVIOUS
<1> QED
  BY <1>1, <1>2 DEF Tip, TypeOK

LEMMA InitTypeOK == Init => TypeOK
<1> SUFFICES ASSUME Init PROVE TypeOK
  OBVIOUS
<1>1. PICK S : S = 0..HashSpace - 1
  OBVIOUS
<1>2. InitialTarget \in S
  BY <1>1, ConsensusAssumption
<1>3. targetAt \in Seq(S) /\ targetAt # <<>> /\ Len(targetAt) = 1
  BY <1>2 DEF Init
<1>4. PICK t \in Times : timeAt = <<t>>
  BY DEF Init
<1>5. timeAt \in Seq(Times) /\ Len(timeAt) = 1
  BY <1>4
<1> QED
  BY <1>1, <1>3, <1>5 DEF TypeOK, Init

(* What Mine does, with its types.                                         *)
LEMMA MineStep ==
  ASSUME TypeOK, NEW time \in Times, Mine(time)
  PROVE  \E target \in 0..HashSpace - 1, subsidy \in Nat :
           /\ target = ExpectedTarget(At(targetAt), At(timeAt), Tip + 1)
           /\ subsidy = SubsidyForHeight(Tip + 1)
           /\ targetAt' = Append(targetAt, target) /\ timeAt' = Append(timeAt, time)
           /\ supply' = supply + subsidy
<1>1. ExpectedTarget(At(targetAt), At(timeAt), Len(targetAt)) \in 0..HashSpace - 1
  BY ExpectedType DEF TypeOK
<1>2. Tip + 1 = Len(targetAt) /\ Tip + 1 \in Nat
  BY TipType
<1>3. SubsidyForHeight(Tip + 1) \in Nat
  BY <1>2, SubsidyOfPeriod, PeriodType
<1> QED
  BY <1>1, <1>2, <1>3 DEF Mine

LEMMA NextTypeOK == TypeOK /\ [Next]_vars => TypeOK'
<1> SUFFICES ASSUME TypeOK, [Next]_vars PROVE TypeOK'
  OBVIOUS
<1>1. CASE Next
  <2>1. PICK time \in Times : Mine(time)
    BY <1>1 DEF Next
  <2>2. PICK target \in 0..HashSpace - 1, subsidy \in Nat :
          /\ targetAt' = Append(targetAt, target) /\ timeAt' = Append(timeAt, time)
          /\ supply' = supply + subsidy
    BY <2>1, MineStep
  <2>3. PICK S : S = 0..HashSpace - 1
    OBVIOUS
  <2>4. targetAt \in Seq(S) /\ target \in S /\ timeAt \in Seq(Times)
    BY <2>2, <2>3 DEF TypeOK
  <2>5. targetAt' \in Seq(S) /\ Len(targetAt') = Len(targetAt) + 1
    BY <2>2, <2>4, Appended
  <2>6. timeAt' \in Seq(Times) /\ Len(timeAt') = Len(timeAt) + 1
    BY <2>1, <2>2, <2>4, Appended
  <2>7. targetAt' # <<>>
    BY <2>5, <2>4
  <2>8. supply' \in Nat
    BY <2>2 DEF TypeOK
  <2> QED
    BY <2>3, <2>5, <2>6, <2>7, <2>8 DEF TypeOK
<1>2. CASE UNCHANGED vars
  BY <1>2 DEF TypeOK, vars
<1> QED
  BY <1>1, <1>2

(* The types of the chain of headers: targets are hashes whatever the      *)
(* clocks of the miners show, and the supply is never less than nothing.   *)
THEOREM HeadersTypeOK == Spec => []TypeOK
<1>1. Init => TypeOK
  BY InitTypeOK
<1>2. TypeOK /\ [Next]_vars => TypeOK'
  BY NextTypeOK
<1> QED
  BY <1>1, <1>2, PTL DEF Spec

-----------------------------------------------------------------------------
(* The halvings.                                                           *)

LEMMA PeriodBefore ==
  ASSUME NEW h \in Nat, h \div SubsidyPeriod >= 1
  PROVE  h - SubsidyPeriod \in Nat
         /\ (h - SubsidyPeriod) \div SubsidyPeriod = (h \div SubsidyPeriod) - 1
<1>1. PICK p \in Nat \ {0} : p = SubsidyPeriod
  BY ScheduleType
<1>2. PICK k : k = h \div p /\ k \in Nat /\ p * k <= h /\ h < p * k + p
  BY Quotient
<1>3. PICK j \in Nat : j = k - 1 /\ k = j + 1
  BY <1>1, <1>2
<1>4. p * k = p * j + p /\ p * j \in Nat
  BY <1>3
<1>5. PICK g \in Nat : g = h - p /\ p * j <= g /\ g < p * j + p
  BY <1>2, <1>4
<1>6. g \div p = j
  BY <1>5, QuotientIs
<1> QED
  BY <1>1, <1>2, <1>3, <1>5, <1>6

(* Halving: shifting the last step by the number of periods past it is     *)
(* halving the subsidy of the period before, at every height, through the  *)
(* cut to zero where the shift would be as wide as an amount.              *)
THEOREM EachPeriodHalves == Spec => []SubsidyHalves
<1>1. TypeOK => SubsidyHalves
  <2> SUFFICES ASSUME TypeOK, NEW h \in 0..Tip,
                      h \div SubsidyPeriod >= Len(SubsidySchedule)
               PROVE  SubsidyForHeight(h) = SubsidyForHeight(h - SubsidyPeriod) \div 2
    BY DEF SubsidyHalves
  <2>1. h \in Nat
    BY TipType
  <2>2. PICK k \in Nat : k = h \div SubsidyPeriod /\ SubsidyForHeight(h) = OfPeriod(k)
    BY <2>1, SubsidyOfPeriod
  <2>3. k >= Len(SubsidySchedule) /\ k >= 1
    BY <2>2, ScheduleType
  <2>4. PICK g \in Nat : g = h - SubsidyPeriod /\ g \div SubsidyPeriod = k - 1
    BY <2>1, <2>2, <2>3, PeriodBefore
  <2>5. SubsidyForHeight(g) = OfPeriod(k - 1)
    BY <2>4, SubsidyOfPeriod
  <2>6. OfPeriod(k) = OfPeriod(k - 1) \div 2
    BY <2>3, PeriodsHalve
  <2> QED
    BY <2>2, <2>4, <2>5, <2>6
<1> QED
  BY <1>1, HeadersTypeOK, PTL

-----------------------------------------------------------------------------
(* The adjustment of the difficulty.                                       *)

(* Inductive: each block on a boundary declares what the code computes     *)
(* from the blocks below it.                                               *)
Elapsed(h) == AtLeast(Time(h - 1) - Time(h - AdjustmentInterval), 1)

Adjusted ==
  \A h \in Boundaries : Target(h) = Retarget(Target(h - 1), Elapsed(h), ExpectedTimespan)

LEMMA NextAdjusted == TypeOK /\ Adjusted /\ [Next]_vars => Adjusted'
<1> SUFFICES ASSUME TypeOK, Adjusted, [Next]_vars PROVE Adjusted'
  OBVIOUS
<1>0. PICK n \in Nat : n = Tip /\ Len(targetAt) = n + 1 /\ Len(timeAt) = n + 1
  BY TipType
<1>1. CASE Next
  <2>1. PICK time \in Times : Mine(time)
    BY <1>1 DEF Next
  <2>2. PICK target \in 0..HashSpace - 1 :
          /\ target = ExpectedTarget(At(targetAt), At(timeAt), n + 1)
          /\ targetAt' = Append(targetAt, target) /\ timeAt' = Append(timeAt, time)
    BY <1>0, <2>1, MineStep
  <2>3. PICK S : S = 0..HashSpace - 1
    OBVIOUS
  <2>4. targetAt \in Seq(S) /\ target \in S /\ timeAt \in Seq(Times)
    BY <2>2, <2>3 DEF TypeOK
  <2>5. /\ Len(targetAt') = n + 2 /\ targetAt'[n + 2] = target
        /\ \A i \in 1..n + 1 : targetAt'[i] = targetAt[i]
    <3>1. /\ Len(Append(targetAt, target)) = Len(targetAt) + 1
          /\ Append(targetAt, target)[Len(targetAt) + 1] = target
          /\ \A i \in 1..Len(targetAt) : Append(targetAt, target)[i] = targetAt[i]
      BY <2>4, Appended
    <3> QED
      BY <1>0, <2>2, <3>1
  <2>6. \A i \in 1..n + 1 : timeAt'[i] = timeAt[i]
    <3>1. \A i \in 1..Len(timeAt) : Append(timeAt, time)[i] = timeAt[i]
      BY <2>1, <2>4, Appended
    <3> QED
      BY <1>0, <2>2, <3>1
  <2>7. Tip' = n + 1
    BY <2>5 DEF Tip
  <2>8. SUFFICES ASSUME NEW h \in 1..n + 1, IsBoundary(h)
                 PROVE  targetAt'[h + 1] = Retarget(targetAt'[h],
                          AtLeast(timeAt'[h] - timeAt'[h - AdjustmentInterval + 1], 1),
                          ExpectedTimespan)
    <3>1. \A h \in 1..n + 1 : h - 1 + 1 = h
      OBVIOUS
    <3> QED
      BY <2>7, <3>1 DEF Adjusted, Boundaries, Target, Time, Elapsed
  <2>9. PICK i \in Nat \ {0}, b \in 0..h - 1 : i = AdjustmentInterval /\ b = h - i
    BY <2>8, BoundaryLooksBack
  <2>10. b + 1 \in 1..n + 1 /\ h \in 1..n + 1 /\ h - AdjustmentInterval + 1 = b + 1
    BY <2>9
  <2>11. timeAt'[h] = timeAt[h] /\ timeAt'[b + 1] = timeAt[b + 1] /\ targetAt'[h] = targetAt[h]
    BY <2>5, <2>6, <2>10
  <2>12. CASE h = n + 1
    <3>1. target = Retarget(At(targetAt)[n], AtLeast(At(timeAt)[n] - At(timeAt)[b], 1),
                            ExpectedTimespan)
      <4>1. n + 1 # 0 /\ (n + 1) - 1 = n /\ b = (n + 1) - AdjustmentInterval
        BY <2>9, <2>12
      <4> QED
        BY <2>2, <2>8, <2>12, <4>1 DEF ExpectedTarget
    <3>2. /\ At(targetAt)[n] = targetAt[n + 1] /\ At(timeAt)[n] = timeAt[n + 1]
          /\ At(timeAt)[b] = timeAt[b + 1]
      <4>1. n \in 0..n /\ b \in 0..n /\ (n + 1) - 1 = n
        BY <2>9
      <4> QED
        BY <1>0, <4>1 DEF At
    <3>3. targetAt'[h + 1] = target
      BY <2>5, <2>12
    <3> QED
      BY <2>10, <2>11, <2>12, <3>1, <3>2, <3>3
  <2>13. CASE h # n + 1
    <3>1. h \in 1..n /\ h + 1 \in 1..n + 1
      BY <2>13
    <3>2. h \in Boundaries
      BY <1>0, <2>8, <3>1 DEF Boundaries
    <3>3. targetAt[h + 1] = Retarget(targetAt[h], AtLeast(timeAt[h] - timeAt[b + 1], 1),
                                     ExpectedTimespan)
      <4>1. h - 1 + 1 = h
        OBVIOUS
      <4> QED
        BY <2>10, <3>2, <4>1 DEF Adjusted, Target, Time, Elapsed
    <3>4. targetAt'[h + 1] = targetAt[h + 1]
      BY <2>5, <3>1
    <3> QED
      BY <2>10, <2>11, <3>3, <3>4
  <2> QED
    BY <2>12, <2>13
<1>2. CASE UNCHANGED vars
  BY <1>2 DEF Adjusted, vars, Boundaries, Target, Time, Elapsed, Tip
<1> QED
  BY <1>1, <1>2

(* Clamping the timespan is clamping the target, when a quarter of the     *)
(* expected timespan is a whole number.                                    *)
LEMMA ClampsTheTarget ==
  ASSUME NEW prev \in Nat, NEW actual \in Nat, NEW expected \in Nat \ {0},
         expected % MaxAdjustmentFactor = 0
  PROVE  Retarget(prev, actual, expected)
           = AtMost(MaxTarget, AtLeast(prev \div 4, AtMost((prev * actual) \div expected, prev * 4)))
<1>1. PICK q \in Nat \ {0} : expected = 4 * q /\ expected \div 4 = q /\ expected * 4 = 16 * q
  <2>1. PICK q \in Nat : q = expected \div 4 /\ expected = 4 * q
    BY DEF MaxAdjustmentFactor
  <2> QED
    BY <2>1
<1>2. PICK c \in Nat : c = AtLeast(q, AtMost(actual, 16 * q))
  BY DEF AtLeast, AtMost
<1>3. PICK t : t = (prev * c) \div expected
  OBVIOUS
<1>4. Retarget(prev, actual, expected) = AtMost(t, MaxTarget)
  <2>1. AtLeast(expected \div MaxAdjustmentFactor, 1) = q
    BY <1>1 DEF AtLeast, MaxAdjustmentFactor
  <2> QED
    BY <1>1, <1>2, <1>3, <2>1 DEF Retarget, MaxAdjustmentFactor
<1>5. PICK low \in Nat, high \in Nat : low = prev \div 4 /\ high = prev * 4 /\ low <= high
  OBVIOUS
<1>6. PICK w \in Nat : w = (prev * actual) \div expected
  <2>1. prev * actual \in Nat
    OBVIOUS
  <2> QED
    BY <2>1, Quotient
<1>7. (prev * q) \div expected = low
  BY <1>1, <1>5, QuotientOfProduct
<1>8. (prev * (16 * q)) \div expected = high
  <2>1. prev * (16 * q) = high * expected
    BY <1>1, <1>5
  <2>2. (high * expected) \div expected = high
    BY QuotientOfProduct
  <2> QED
    BY <2>1, <2>2
<1>9. ASSUME NEW a \in Nat, NEW b \in Nat, a <= b
      PROVE  (prev * a) \div expected <= (prev * b) \div expected
  <2>1. prev * a \in Nat /\ prev * b \in Nat /\ prev * a <= prev * b
    BY <1>9
  <2> QED
    BY <2>1, QuotientGrows
<1>10. t = AtLeast(low, AtMost(w, high))
  <2>1. CASE actual <= q
    <3>1. c = q /\ w <= low
      BY <1>2, <1>6, <1>7, <1>9, <2>1 DEF AtLeast, AtMost
    <3> QED
      BY <1>3, <1>5, <1>7, <3>1 DEF AtLeast, AtMost
  <2>2. CASE q < actual /\ actual <= 16 * q
    <3>1. c = actual
      BY <1>2, <2>2 DEF AtLeast, AtMost
    <3>2. low <= w
      BY <1>6, <1>7, <1>9, <2>2
    <3>3. w <= high
      <4>1. 16 * q \in Nat
        OBVIOUS
      <4> QED
        BY <1>6, <1>8, <1>9, <2>2, <4>1
    <3> QED
      BY <1>3, <1>5, <1>6, <3>1, <3>2, <3>3 DEF AtLeast, AtMost
  <2>3. CASE 16 * q < actual
    <3>1. c = 16 * q
      BY <1>2, <2>3 DEF AtLeast, AtMost
    <3>2. high <= w
      <4>1. 16 * q \in Nat
        OBVIOUS
      <4> QED
        BY <1>6, <1>8, <1>9, <2>3, <4>1
    <3> QED
      BY <1>3, <1>5, <1>6, <1>8, <3>1, <3>2 DEF AtLeast, AtMost
  <2> QED
    BY <2>1, <2>2, <2>3
<1>11. t \in Nat /\ MaxTarget \in Nat
  BY <1>5, <1>6, <1>10, ConsensusAssumption DEF AtLeast, AtMost
<1>12. AtMost(t, MaxTarget) = AtMost(MaxTarget, t)
  BY <1>11 DEF AtMost
<1> QED
  BY <1>4, <1>5, <1>6, <1>10, <1>12

(* The difficulty adjustment is the one documented, a clamp of the new     *)
(* target between a quarter and four times the old one, for whatever       *)
(* timestamps the miners declare; where a quarter of the expected timespan *)
(* is not whole the code rounds it down first and differs.                 *)
THEOREM AdjustmentAsDocumented ==
  ASSUME ExpectedTimespan % MaxAdjustmentFactor = 0
  PROVE  Spec => []AdjustsAsDocumented
<1>1. Init => Adjusted
  <2> SUFFICES ASSUME Init PROVE Boundaries = {}
    BY DEF Adjusted
  <2>1. Tip = 0
    BY DEF Init, Tip
  <2> QED
    BY <2>1 DEF Boundaries
<1>2. TypeOK /\ Adjusted /\ [Next]_vars => Adjusted'
  BY NextAdjusted
<1>3. TypeOK /\ Adjusted => AdjustsAsDocumented
  <2> SUFFICES ASSUME TypeOK, Adjusted, NEW h \in Boundaries
               PROVE  Target(h) = AtMost(MaxTarget, AtLeast(Target(h - 1) \div 4,
                        AtMost((Target(h - 1) * Elapsed(h)) \div ExpectedTimespan,
                               Target(h - 1) * 4)))
    BY DEF AdjustsAsDocumented, Elapsed
  <2>1. PICK n \in Nat : n = Tip /\ Len(targetAt) = n + 1 /\ Len(timeAt) = n + 1
    BY TipType
  <2>2. h \in 1..n /\ IsBoundary(h)
    BY <2>1 DEF Boundaries
  <2>3. PICK i \in Nat \ {0}, b \in 0..h - 1 : i = AdjustmentInterval /\ b = h - i
    BY <2>2, BoundaryLooksBack
  <2>4. PICK prev : prev = Target(h - 1)
    OBVIOUS
  <2>5. prev \in Nat
    <3>1. PICK S : S = 0..HashSpace - 1
      OBVIOUS
    <3>2. targetAt \in Seq(S) /\ (h - 1) + 1 \in 1..Len(targetAt)
      BY <2>1, <2>2, <3>1 DEF TypeOK
    <3>3. targetAt[(h - 1) + 1] \in S
      BY <3>2
    <3> QED
      BY <2>4, <3>1, <3>3 DEF Target
  <2>6. PICK x \in Nat, y \in Nat : x = Time(h - 1) /\ y = Time(h - AdjustmentInterval)
    <3>1. timeAt \in Seq(Times) /\ (h - 1) + 1 \in 1..Len(timeAt) /\ b + 1 \in 1..Len(timeAt)
      BY <2>1, <2>2, <2>3 DEF TypeOK
    <3>2. timeAt[(h - 1) + 1] \in Times /\ timeAt[b + 1] \in Times
      BY <3>1
    <3> QED
      BY <2>3, <3>2, HeadersAssumption DEF Time
  <2>7. PICK d \in Int : d = x - y
    OBVIOUS
  <2>8. PICK actual \in Nat : actual = Elapsed(h)
    BY <2>6, <2>7 DEF Elapsed, AtLeast
  <2>9. PICK e \in Nat \ {0} : e = ExpectedTimespan
    BY <2>3, TimespanType
  <2>10. Target(h) = Retarget(prev, actual, e)
    BY <2>4, <2>8, <2>9 DEF Adjusted
  <2>11. e % MaxAdjustmentFactor = 0
    BY <2>9
  <2> QED
    BY <2>4, <2>5, <2>8, <2>9, <2>10, <2>11, ClampsTheTarget
<1> QED
  BY <1>1, <1>2, <1>3, HeadersTypeOK, PTL DEF Spec

-----------------------------------------------------------------------------
(* The supply.                                                             *)

(* What one block of each period up to the k-th is worth.                  *)
Through(k) == SumFunction([i \in 0..k |-> OfPeriod(i)])

LEMMA ThroughSteps ==
  /\ Through(0) = OfPeriod(0)
  /\ \A k \in Nat : Through(k) \in Nat /\ Through(k + 1) = Through(k) + OfPeriod(k + 1)
<1>1. ASSUME NEW k \in Nat
      PROVE  /\ [i \in 0..k |-> OfPeriod(i)] \in [0..k -> Nat]
             /\ [i \in 0..k |-> OfPeriod(i)] \in [0..k -> Int]
             /\ IsFiniteSet(0..k) /\ Through(k) \in Nat
  <2>1. PICK D, f : D = 0..k /\ f = [i \in D |-> OfPeriod(i)]
    OBVIOUS
  <2>2. f \in [D -> Nat] /\ f \in [D -> Int] /\ IsFiniteSet(D)
    <3>1. \A i \in D : OfPeriod(i) \in Nat
      BY <2>1, PeriodType
    <3>2. 0 \in Int /\ k \in Int
      OBVIOUS
    <3>3. IsFiniteSet(0..k)
      BY <3>2, FS_Interval
    <3> QED
      BY <2>1, <3>1, <3>3
  <2>3. SumFunction(f) \in Nat
    BY <2>2, SumNatural
  <2> QED
    BY <2>1, <2>2, <2>3 DEF Through
<1>2. ASSUME NEW k \in Nat
      PROVE  Through(k + 1) = Through(k) + OfPeriod(k + 1)
  <2>1. PICK D, f, x : x = k + 1 /\ D = 0..x /\ f = [i \in D |-> OfPeriod(i)]
    OBVIOUS
  <2>2. f \in [D -> Int] /\ IsFiniteSet(D) /\ x \in D /\ x \in Nat
    <3>1. k + 1 \in Nat
      OBVIOUS
    <3> QED
      BY <1>1, <2>1, <3>1
  <2>3. SumFunction(f) = f[x] + SumFunction(Part(f, D \ {x}))
    BY <2>2, SumWithout
  <2>4. D \ {x} = 0..k
    BY <2>1
  <2>5. Part(f, D \ {x}) = [i \in 0..k |-> OfPeriod(i)]
    BY <2>1, <2>4 DEF Part
  <2>6. f[x] = OfPeriod(x) /\ OfPeriod(x) \in Nat /\ Through(k) \in Nat
    BY <1>1, <2>1, <2>2, PeriodType
  <2> QED
    BY <2>1, <2>3, <2>5, <2>6 DEF Through
<1>3. Through(0) = OfPeriod(0)
  <2>1. PICK D, f : D = 0..0 /\ f = [i \in D |-> OfPeriod(i)]
    OBVIOUS
  <2>2. f \in [D -> Int] /\ IsFiniteSet(D) /\ 0 \in D /\ D \ {0} = {}
    <3>1. 0 \in Nat /\ 0..0 = {0}
      OBVIOUS
    <3>2. [i \in 0..0 |-> OfPeriod(i)] \in [0..0 -> Int] /\ IsFiniteSet(0..0)
      BY <1>1, <3>1
    <3>3. 0 \in D /\ D \ {0} = {}
      BY <2>1, <3>1
    <3> QED
      BY <2>1, <3>2, <3>3
  <2>3. SumFunction(f) = f[0] + SumFunction(Part(f, D \ {0}))
    BY <2>2, SumWithout
  <2>4. SumFunction(Part(f, D \ {0})) = 0
    <3>1. DOMAIN Part(f, D \ {0}) = {}
      BY <2>2 DEF Part
    <3> QED
      BY <3>1, SumEmpty
  <2>5. f[0] = OfPeriod(0) /\ OfPeriod(0) \in Nat
    BY <2>1, PeriodType
  <2> QED
    BY <2>1, <2>3, <2>4, <2>5 DEF Through
<1> QED
  BY <1>1, <1>2, <1>3

Declared == SumFunction(SubsidySchedule)

(* The steps of the schedule are what its periods are worth.               *)
LEMMA ThroughSchedule ==
  ASSUME NEW last \in Nat, last = Len(SubsidySchedule) - 1
  PROVE  Through(last) = Declared
<1>1. PICK D, E : D = 0..last /\ E = 1..last + 1
  OBVIOUS
<1>2. PICK b : b = [i \in D |-> i + 1]
  OBVIOUS
<1>3. IsFiniteSet(D) /\ IsFiniteSet(E)
  BY <1>1, FS_Interval
<1>4. b \in [D -> E] /\ (\A x, y \in D : b[x] = b[y] => x = y)
  BY <1>1, <1>2
<1>5. \A z \in E : \E x \in D : b[x] = z
  <2> SUFFICES ASSUME NEW z \in E PROVE \E x \in D : b[x] = z
    OBVIOUS
  <2>1. z - 1 \in D /\ (z - 1) + 1 = z
    BY <1>1
  <2> QED
    BY <1>2, <2>1
<1>6. PICK f : f = SubsidySchedule /\ f \in [E -> Int]
  <2>1. last + 1 = Len(SubsidySchedule)
    BY ScheduleType
  <2> QED
    BY <1>1, <2>1, ScheduleType
<1>7. SumFunction(f) = SumFunction([x \in D |-> f[b[x]]])
  BY <1>3, <1>4, <1>5, <1>6, SumRenamed
<1>8. [x \in D |-> f[b[x]]] = [i \in 0..last |-> OfPeriod(i)]
  <2>1. \A i \in D : b[i] = i + 1 /\ i <= Len(SubsidySchedule) - 1
    BY <1>1, <1>2
  <2>2. \A i \in D : f[b[i]] = OfPeriod(i)
    BY <1>6, <2>1 DEF OfPeriod
  <2> QED
    BY <1>1, <2>2
<1> QED
  BY <1>6, <1>7, <1>8 DEF Through, Declared

LastStep == SubsidySchedule[Len(SubsidySchedule)]

(* All periods together are worth the schedule and its last step once      *)
(* more: what the halvings leave is never more than the period before.     *)
LEMMA ThroughBounded ==
  ASSUME NEW k \in Nat
  PROVE  Declared \in Nat /\ LastStep \in Nat /\ Through(k) <= Declared + LastStep
<1>1. PICK last \in Nat : last = Len(SubsidySchedule) - 1
  BY LastType
<1>2. Through(last) = Declared /\ Declared \in Nat
  BY <1>1, ThroughSchedule, ThroughSteps
<1>3. OfPeriod(last) = LastStep /\ LastStep \in Nat
  <2>1. last + 1 = Len(SubsidySchedule)
    BY <1>1, ScheduleType
  <2> QED
    BY <1>1, <2>1, PeriodType DEF OfPeriod, LastStep
<1>4. PICK T : T = {n \in Nat : Through(last + n) + OfPeriod(last + n) <= Declared + LastStep}
  OBVIOUS
<1>5. T = Nat
  <2>1. T \in SUBSET Nat
    BY <1>4
  <2>2. 0 \in T
    <3>1. last + 0 = last
      OBVIOUS
    <3> QED
      BY <1>2, <1>3, <1>4, <3>1
  <2>3. ASSUME NEW n \in T
        PROVE  n + 1 \in T
    <3>1. PICK m \in Nat : m = last + n /\ m + 1 = last + (n + 1) /\ n \in Nat
      BY <1>4
    <3>2. PICK s \in Nat, t \in Nat, s1 \in Nat, t1 \in Nat :
            /\ s = OfPeriod(m) /\ t = Through(m)
            /\ s1 = OfPeriod(m + 1) /\ t1 = Through(m + 1) /\ t1 = t + s1
      <4>1. m + 1 \in Nat
        OBVIOUS
      <4> QED
        BY <4>1, ThroughSteps, PeriodType
    <3>3. s1 = s \div 2
      <4>1. m + 1 >= Len(SubsidySchedule) /\ m + 1 \in Nat /\ (m + 1) - 1 = m
        BY <1>1, <3>1, ScheduleType
      <4> QED
        BY <3>2, <4>1, PeriodsHalve
    <3>4. s1 + s1 <= s
      BY <3>2, <3>3
    <3>5. t + s <= Declared + LastStep
      BY <1>4, <3>1, <3>2
    <3>6. t1 + s1 <= Declared + LastStep
      BY <1>2, <1>3, <3>2, <3>4, <3>5
    <3> QED
      BY <1>4, <3>1, <3>2, <3>6
  <2> QED
    BY <2>1, <2>2, <2>3, NumberInduction
<1>6. PICK U : U = {n \in Nat : Through(k) <= Through(k + n)}
  OBVIOUS
<1>7. U = Nat
  <2>1. U \in SUBSET Nat /\ 0 \in U
    <3>1. k + 0 = k /\ Through(k) \in Nat
      BY ThroughSteps
    <3> QED
      BY <1>6, <3>1
  <2>2. ASSUME NEW n \in U
        PROVE  n + 1 \in U
    <3>1. PICK m \in Nat : m = k + n /\ m + 1 = k + (n + 1) /\ n \in Nat
      BY <1>6
    <3>2. Through(m + 1) = Through(m) + OfPeriod(m + 1) /\ Through(m) \in Nat
          /\ Through(k) \in Nat /\ Through(m + 1) \in Nat
      <4>1. m + 1 \in Nat
        OBVIOUS
      <4> QED
        BY <4>1, ThroughSteps
    <3>3. OfPeriod(m + 1) \in Nat
      BY PeriodType
    <3> QED
      BY <1>6, <3>1, <3>2, <3>3
  <2> QED
    BY <2>1, <2>2, NumberInduction
<1>8. PICK m \in Nat : m = k + last /\ m = last + k
  OBVIOUS
<1>9. Through(k) <= Through(m) /\ Through(m) + OfPeriod(m) <= Declared + LastStep
  BY <1>4, <1>5, <1>6, <1>7, <1>8
<1>10. Through(k) \in Nat /\ Through(m) \in Nat /\ OfPeriod(m) \in Nat
  BY ThroughSteps, PeriodType
<1> QED
  BY <1>2, <1>3, <1>9, <1>10

(* Inductive: with what the blocks to come of the period of the tip will   *)
(* create, the supply is at most that of whole periods.                    *)
Supplied ==
  \E k \in Nat :
    /\ SubsidyPeriod * k <= Tip /\ Tip < SubsidyPeriod * k + SubsidyPeriod
    /\ supply + (SubsidyPeriod * k + SubsidyPeriod - 1 - Tip) * OfPeriod(k)
         <= SubsidyPeriod * Through(k)

LEMMA NextSupplied == TypeOK /\ Supplied /\ [Next]_vars => Supplied'
<1> SUFFICES ASSUME TypeOK, Supplied, [Next]_vars PROVE Supplied'
  OBVIOUS
<1>0. PICK n \in Nat : n = Tip /\ Len(targetAt) = n + 1
  BY TipType
<1>1. CASE Next
  <2>1. PICK time \in Times : Mine(time)
    BY <1>1 DEF Next
  <2>2. PICK target \in 0..HashSpace - 1, subsidy \in Nat :
          /\ subsidy = SubsidyForHeight(n + 1) /\ targetAt' = Append(targetAt, target)
          /\ supply' = supply + subsidy
    BY <1>0, <2>1, MineStep
  <2>3. Tip' = n + 1
    <3>1. PICK S : S = 0..HashSpace - 1
      OBVIOUS
    <3>2. Len(targetAt') = Len(targetAt) + 1
      BY <2>2, <3>1, Appended DEF TypeOK
    <3> QED
      BY <1>0, <3>2 DEF Tip
  <2>4. PICK p \in Nat \ {0} : p = SubsidyPeriod
    BY ScheduleType
  <2>5. PICK k \in Nat : /\ p * k <= n /\ n < p * k + p
                         /\ supply + (p * k + p - 1 - n) * OfPeriod(k) <= p * Through(k)
    BY <1>0, <2>4 DEF Supplied
  <2>6. PICK s \in Nat, t \in Nat, u \in Nat :
          s = OfPeriod(k) /\ t = Through(k) /\ u = supply
    BY ThroughSteps, PeriodType DEF TypeOK
  <2>7. PICK a \in Nat : a = p * k
    OBVIOUS
  <2>8. (n + 1) \div p \in Nat /\ subsidy = OfPeriod((n + 1) \div p) /\ n + 1 \in Nat
    BY <2>2, <2>4, SubsidyOfPeriod
  <2>9. CASE n + 1 < a + p
    <3>1. (n + 1) \div p = k
      <4>1. p * k <= n + 1 /\ n + 1 < p * k + p
        BY <2>5, <2>7, <2>9
      <4> QED
        BY <2>8, <4>1, QuotientIs
    <3>2. PICK m \in Nat : m = a + p - 1 - (n + 1) /\ a + p - 1 - n = m + 1
      BY <2>9
    <3>3. (m + 1) * s = m * s + s
      OBVIOUS
    <3>4. u + (m + 1) * s <= p * t
      BY <2>5, <2>6, <2>7, <3>2
    <3>5. (u + s) + m * s <= p * t
      BY <3>3, <3>4
    <3>6. supply' + (p * k + p - 1 - (n + 1)) * OfPeriod(k) <= p * Through(k)
      BY <2>2, <2>6, <2>7, <2>8, <3>1, <3>2, <3>5
    <3>7. p * k <= n + 1 /\ n + 1 < p * k + p
      BY <2>5, <2>7, <2>9
    <3> QED
      BY <2>3, <2>4, <3>6, <3>7 DEF Supplied
  <2>10. CASE n + 1 >= a + p
    <3>1. n + 1 = a + p /\ a + p - 1 - n = 0
      BY <2>5, <2>7, <2>10
    <3>2. p * (k + 1) = a + p
      BY <2>7
    <3>3. (n + 1) \div p = k + 1
      <4>1. k + 1 \in Nat /\ p * (k + 1) <= n + 1 /\ n + 1 < p * (k + 1) + p
        BY <3>1, <3>2
      <4> QED
        BY <2>8, <4>1, QuotientIs
    <3>4. PICK s1 \in Nat, t1 \in Nat : s1 = OfPeriod(k + 1) /\ t1 = Through(k + 1) /\ t1 = t + s1
      <4>1. k + 1 \in Nat
        OBVIOUS
      <4> QED
        BY <2>6, <4>1, ThroughSteps, PeriodType
    <3>5. u <= p * t
      <4>1. 0 * s = 0
        OBVIOUS
      <4> QED
        BY <2>5, <2>6, <2>7, <3>1, <4>1
    <3>6. p * t1 = p * t + p * s1 /\ p * s1 = s1 + (p - 1) * s1
      BY <3>4
    <3>7. (u + s1) + (p - 1) * s1 <= p * t1
      BY <3>5, <3>6
    <3>8. p * (k + 1) + p - 1 - (n + 1) = p - 1
      BY <3>1, <3>2
    <3>9. supply' = u + s1
      BY <2>2, <2>6, <2>8, <3>3, <3>4
    <3>10. supply' + (p * (k + 1) + p - 1 - (n + 1)) * OfPeriod(k + 1) <= p * Through(k + 1)
      BY <3>4, <3>7, <3>8, <3>9
    <3>11. k + 1 \in Nat /\ p * (k + 1) <= n + 1 /\ n + 1 < p * (k + 1) + p
      BY <3>1, <3>2
    <3> QED
      BY <2>3, <2>4, <3>10, <3>11 DEF Supplied
  <2> QED
    BY <2>7, <2>9, <2>10
<1>2. CASE UNCHANGED vars
  BY <1>2 DEF Supplied, vars, Tip
<1> QED
  BY <1>1, <1>2

(* The cap on the coins: however far the chain grows, its coinbases have   *)
(* created no more than the schedule declares, a period for each step, and *)
(* its last step once more for all the halvings.                           *)
THEOREM SupplyNeverPassesItsCap == Spec => []SupplyCapped
<1>1. Init => Supplied
  <2> SUFFICES ASSUME Init PROVE Supplied
    OBVIOUS
  <2>1. Tip = 0 /\ supply = 0
    BY DEF Init, Tip
  <2>2. PICK p \in Nat \ {0} : p = SubsidyPeriod
    BY ScheduleType
  <2>3. PICK s \in Nat : s = OfPeriod(0) /\ s = Through(0)
    BY PeriodType, ThroughSteps
  <2>4. p * 0 = 0 /\ 0 + (0 + p - 1 - 0) * s <= p * s /\ 0 < 0 + p
    OBVIOUS
  <2>5. /\ p * 0 <= 0 /\ 0 < p * 0 + p
        /\ supply + (p * 0 + p - 1 - 0) * OfPeriod(0) <= p * Through(0)
    BY <2>1, <2>3, <2>4
  <2> QED
    BY <2>1, <2>2, <2>5 DEF Supplied
<1>2. TypeOK /\ Supplied /\ [Next]_vars => Supplied'
  BY NextSupplied
<1>3. TypeOK /\ Supplied => SupplyCapped
  <2> SUFFICES ASSUME TypeOK, Supplied
               PROVE  supply <= SubsidyPeriod * (Declared + LastStep)
    BY DEF SupplyCapped, Declared, LastStep
  <2>1. PICK n \in Nat, p \in Nat \ {0}, u \in Nat : n = Tip /\ p = SubsidyPeriod /\ u = supply
    BY TipType, ScheduleType DEF TypeOK
  <2>2. PICK k \in Nat : n < p * k + p /\ u + (p * k + p - 1 - n) * OfPeriod(k) <= p * Through(k)
    BY <2>1 DEF Supplied
  <2>3. PICK s \in Nat, t \in Nat, m \in Nat :
          s = OfPeriod(k) /\ t = Through(k) /\ m = p * k + p - 1 - n
    <3>1. p * k \in Nat
      OBVIOUS
    <3>2. p * k + p - 1 - n \in Nat
      BY <2>2, <3>1
    <3> QED
      BY <3>2, ThroughSteps, PeriodType
  <2>4. m * s \in Nat
    OBVIOUS
  <2>5. u <= p * t
    BY <2>2, <2>3, <2>4
  <2>6. PICK b \in Nat : b = Declared + LastStep /\ t <= b
    BY <2>3, ThroughBounded
  <2>7. p * t <= p * b
    BY <2>6
  <2> QED
    BY <2>1, <2>5, <2>6, <2>7
<1> QED
  BY <1>1, <1>2, <1>3, HeadersTypeOK, PTL DEF Spec
=============================================================================
