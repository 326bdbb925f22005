------------------------- MODULE ZnxDeposits_proofs -------------------------
(***************************************************************************)
(* What the scan of a deposit address guarantees for any number of         *)
(* deposits, confirmations, blocks and faults.                             *)
(***************************************************************************)
EXTENDS ZnxDeposits, ZnxSums_proofs

Scans == [step : {"idle", "latest", "outputs", "report"}, unspent : SUBSET Deposits,
          latest : Nat, asked : Deposits \cup {NoOne}, reported : SUBSET Deposits]

TypeInv ==
  /\ TypeOK
  /\ scan \in Scans
  /\ scan.step = "report" => scan.asked \in Deposits

(* It has the confirmations asked for.                                     *)
Deep(c) == height[c] > 0 /\ height[c] + Confirmations <= tip + 1

(* A deposit is deep when its height is answered, and deep ones stay deep, *)
(* when it is reported and ever after, until a reorganisation is.          *)
DepthInv ==
  ~tooDeep => /\ \A c \in credited : Deep(c)
              /\ scan.step = "report" => Deep(scan.asked)

LEMMA InitType == Init => TypeInv
<1> SUFFICES ASSUME Init PROVE TypeInv
  OBVIOUS
<1>1. tooDeep \in BOOLEAN /\ refused \subseteq Deposits
  BY DEF Init
<1>2. faults \in [FaultKinds -> 0..MaxFaults]
  BY DepositsAssumption DEF Init
<1> QED
  BY <1>1, <1>2, DepositsAssumption DEF Init, TypeInv, TypeOK, Scans, Idle

LEMMA FaultType ==
  ASSUME TypeOK, NEW kind, Fault(kind)
  PROVE  faults' \in [FaultKinds -> 0..MaxFaults]
BY DepositsAssumption DEF TypeOK, Fault

LEMMA NextType == TypeInv /\ [Next]_vars => TypeInv'
<1> SUFFICES ASSUME TypeInv, [Next]_vars
             PROVE  TypeInv'
  OBVIOUS
<1> USE DepositsAssumption
<1>0. CASE FulfilRequest \/ FulfilLost \/ PasswordChanged
  <2>1. /\ UNCHANGED <<chain, sweeps, credited, credit, refused>>
        /\ scan' = scan \/ scan' = Idle
    BY <1>0 DEF FulfilRequest, FulfilLost, PasswordChanged, backend
  <2>2. faults' \in [FaultKinds -> 0..MaxFaults]
    BY <1>0, FaultType DEF FulfilRequest, FulfilLost, PasswordChanged, TypeInv, TypeOK
  <2>3. /\ password' \in Passwords
        /\ account' \in {NoAccount} \cup {CreateKeystore(Key, p) : p \in Passwords \ {NoPassword}}
    BY <1>0 DEF FulfilRequest, FulfilLost, PasswordChanged, backend, Enabled, TypeInv, TypeOK
  <2>4. Idle \in Scans /\ Idle.step # "report" /\ Idle.step = "idle" /\ Idle.unspent = {}
        /\ Idle.reported = {} /\ Idle.latest = 0 /\ Idle.asked = NoOne
    BY DEF Idle, Scans
  <2> QED
    BY <2>1, <2>2, <2>3, <2>4 DEF TypeInv, TypeOK, chain
<1>1. CASE BlockAppended
  <2>1. PICK new \in SUBSET {c \in Deposits : height[c] = 0}, s \in sweeps \cup {{}} :
          /\ s \subseteq Unspent
          /\ height' = [c \in Deposits |-> IF c \in new THEN tip' ELSE height[c]]
          /\ spent' = [c \in Deposits |-> IF c \in s THEN tip' ELSE spent[c]]
    BY <1>1 DEF BlockAppended
  <2>2. tip' = tip + 1 /\ tip' \in 0..MaxHeight
    BY <1>1 DEF BlockAppended, TypeInv, TypeOK
  <2>3. height' \in [Deposits -> 0..tip'] /\ spent' \in [Deposits -> 0..tip']
    BY <2>1, <2>2 DEF TypeInv, TypeOK
  <2>4. ASSUME NEW c \in Deposits, spent'[c] > 0
        PROVE  height'[c] \in 1..spent'[c]
    BY <2>1, <2>2, <2>4 DEF TypeInv, TypeOK, Unspent
  <2> QED
    BY <1>1, <2>2, <2>3, <2>4 DEF BlockAppended, TypeInv, TypeOK, backend
<1>2. CASE Reorganised
  <2>1. PICK fork \in tip - MaxDepth..tip - 1, new \in tip..MaxHeight :
          /\ fork >= 0
          /\ tip' = new
          /\ tooDeep' = (tooDeep \/ tip - fork >= Confirmations)
          /\ height' \in {h \in [Deposits -> 0..new] :
                            \A c \in Deposits :
                              IF height[c] \in 1..fork THEN h[c] = height[c]
                                                       ELSE h[c] \notin 1..fork}
          /\ spent' = [c \in Deposits |-> IF spent[c] > fork THEN 0 ELSE spent[c]]
    BY <1>2 DEF Reorganised
  <2>2. fork \in Nat /\ tip' \in 0..MaxHeight /\ tip' >= tip /\ tooDeep' \in BOOLEAN
    BY <2>1 DEF TypeInv, TypeOK
  <2>3. height' \in [Deposits -> 0..tip'] /\ spent' \in [Deposits -> 0..tip']
    BY <2>1, <2>2 DEF TypeInv, TypeOK
  <2>4. ASSUME NEW c \in Deposits, spent'[c] > 0
        PROVE  height'[c] \in 1..spent'[c]
    <3>1. spent[c] <= fork /\ spent'[c] = spent[c] /\ spent[c] > 0 /\ spent[c] \in Nat
      BY <2>1, <2>2, <2>4 DEF TypeInv, TypeOK
    <3>2. height[c] \in 1..fork /\ height[c] \in 1..spent[c]
      BY <3>1, <2>2 DEF TypeInv, TypeOK
    <3> QED
      BY <2>1, <3>1, <3>2
  <2> QED
    BY <1>2, <2>2, <2>3, <2>4 DEF Reorganised, TypeInv, TypeOK, backend
<1>3. CASE FetchUnspent
  BY <1>3 DEF FetchUnspent, TypeInv, TypeOK, Scans, Idle, Unspent, chain, backend
<1>4. CASE LatestHeight
  <2>1. UNCHANGED <<chain, sweeps, backend, password, faults>>
    BY <1>4 DEF LatestHeight
  <2>2. scan' = [scan EXCEPT !.step = "outputs", !.latest = tip] /\ tip \in Nat
    BY <1>4 DEF LatestHeight, TypeInv, TypeOK
  <2>3. scan' \in Scans
    BY <2>2 DEF TypeInv, TypeOK, Scans
  <2>4. /\ scan'.latest = tip /\ scan'.step = "outputs" /\ scan'.asked = scan.asked
        /\ scan'.unspent = scan.unspent /\ scan'.reported = scan.reported
    BY <2>2 DEF TypeInv, Scans
  <2> QED
    BY <2>1, <2>2, <2>3, <2>4 DEF TypeInv, TypeOK, chain, backend
<1>5. ASSUME NEW c \in Deposits, TransactionHeight(c)
      PROVE  TypeInv'
  BY <1>5 DEF TransactionHeight, TypeInv, TypeOK, Scans, chain, backend
<1>6. CASE ReportDeposit
  BY <1>6 DEF ReportDeposit, Credit, NextOutput, TypeInv, TypeOK, Scans, chain
<1>7. CASE ReportLost
  BY <1>7, FaultType DEF ReportLost, Credit, NextOutput, TypeInv, TypeOK, Scans, chain
<1>8. CASE ReportRefused
  BY <1>8, FaultType DEF ReportRefused, NextOutput, TypeInv, TypeOK, Scans, chain, backend
<1>9. CASE Sweep
  BY <1>9 DEF Sweep, TypeInv, TypeOK, Scans, Idle, chain, backend
<1>10. CASE NoSweep
  BY <1>10 DEF NoSweep, TypeInv, TypeOK, Scans, Idle, chain, backend
<1>11. CASE CallFails
  BY <1>11, FaultType DEF CallFails, TypeInv, TypeOK, Scans, Idle, chain, backend
<1>12. CASE CustodyCrash
  BY <1>12, FaultType DEF CustodyCrash, TypeInv, TypeOK, Scans, Idle, chain, backend
<1>13. CASE UNCHANGED vars
  BY <1>13 DEF vars, chain, backend, TypeInv, TypeOK
<1> QED
  BY <1>0, <1>1, <1>2, <1>3, <1>4, <1>5, <1>6, <1>7, <1>8, <1>9, <1>10, <1>11, <1>12, <1>13
  DEF Next

LEMMA TypeInvariant == Spec => []TypeInv
BY InitType, NextType, PTL DEF Spec

(* The state of the scan and of the chain keep their types in every        *)
(* execution, and a sweep is mined after what it spends.                   *)
THEOREM DepositsTypeCorrect == Spec => []TypeOK
<1>1. TypeInv => TypeOK
  BY DEF TypeInv
<1> QED
  BY <1>1, TypeInvariant, PTL

-----------------------------------------------------------------------------
(* A step of the chain leaves a deep deposit deep, unless it undoes as     *)
(* many blocks as confirmations are asked for.                             *)
LEMMA DeepStays ==
  ASSUME TypeInv, NEW c \in Deposits, Deep(c), ~tooDeep',
         BlockAppended \/ Reorganised \/ UNCHANGED chain
  PROVE  Deep(c)'
<1> USE DepositsAssumption
<1>1. CASE BlockAppended
  BY <1>1 DEF BlockAppended, Deep, TypeInv, TypeOK
<1>2. CASE Reorganised
  <2>1. PICK fork \in tip - MaxDepth..tip - 1, new \in tip..MaxHeight :
          /\ fork >= 0
          /\ tip' = new
          /\ tooDeep' = (tooDeep \/ tip - fork >= Confirmations)
          /\ height' \in {h \in [Deposits -> 0..new] :
                            \A d \in Deposits :
                              IF height[d] \in 1..fork THEN h[d] = height[d]
                                                       ELSE h[d] \notin 1..fork}
    BY <1>2 DEF Reorganised
  <2>2. height[c] \in 1..fork
    <3>1. ~(tip - fork >= Confirmations)
      <4>1. tooDeep' = (tooDeep \/ tip - fork >= Confirmations)
        BY <2>1
      <4> QED
        BY <4>1, Zenon
    <3>2. tip - fork < Confirmations
      BY <2>1, <3>1 DEF TypeInv, TypeOK
    <3> QED
      BY <2>1, <3>2 DEF Deep, TypeInv, TypeOK
  <2>3. height'[c] = height[c] /\ tip' >= tip
    BY <2>1, <2>2
  <2> QED
    BY <2>1, <2>3 DEF Deep, TypeInv, TypeOK
<1>3. CASE UNCHANGED chain
  BY <1>3 DEF chain, Deep
<1> QED
  BY <1>1, <1>2, <1>3

(* The height that the scan asked for is not above that of the chain, so   *)
(* it counts no confirmation that the deposit has not.                     *)
LEMMA AnswerIsDeep ==
  ASSUME TypeInv, NEW c \in Deposits, height[c] > 0,
         ConfirmationsOf(scan.latest, height[c]) >= Confirmations
  PROVE  Deep(c)
BY DepositsAssumption DEF ConfirmationsOf, Deep, TypeInv, TypeOK

LEMMA NextDepth == TypeInv /\ DepthInv /\ [Next]_vars => DepthInv'
<1> SUFFICES ASSUME TypeInv, DepthInv, [Next]_vars, ~tooDeep'
             PROVE  DepthInv'
  BY DEF DepthInv
<1>0. ~tooDeep
  BY DEF Next, vars, chain, BlockAppended, Reorganised, FulfilRequest, FulfilLost, FetchUnspent,
         LatestHeight, TransactionHeight, ReportDeposit, ReportLost, ReportRefused, Sweep, NoSweep,
         CallFails, CustodyCrash, PasswordChanged
<1>1. CASE BlockAppended \/ Reorganised \/ UNCHANGED vars
  <2>1. credited' = credited /\ scan' = scan
    BY <1>1 DEF BlockAppended, Reorganised, vars, backend
  <2>2. BlockAppended \/ Reorganised \/ UNCHANGED chain
    BY <1>1 DEF vars
  <2>3. \A c \in Deposits : Deep(c) => Deep(c)'
    BY <2>2, DeepStays
  <2> QED
    BY <1>0, <2>1, <2>3 DEF DepthInv, TypeInv, TypeOK
<1>2. CASE \E c \in Deposits : TransactionHeight(c)
  BY <1>0, <1>2, AnswerIsDeep DEF TransactionHeight, DepthInv, TypeInv, Scans, chain, backend, Deep
<1>3. CASE ReportDeposit \/ ReportLost \/ ReportRefused
  BY <1>0, <1>3 DEF ReportDeposit, ReportLost, ReportRefused, Credit, NextOutput, DepthInv, TypeInv,
              Scans, chain, backend, Deep
<1>4. CASE FetchUnspent \/ LatestHeight \/ Sweep \/ NoSweep \/ CallFails \/ CustodyCrash
  <2>1. UNCHANGED <<chain, credited>>
    BY <1>4 DEF FetchUnspent, LatestHeight, Sweep, NoSweep, CallFails, CustodyCrash, backend
  <2>2. FetchUnspent => scan'.step # "report"
    BY DEF FetchUnspent, Idle
  <2>3. Sweep \/ NoSweep \/ CustodyCrash => scan'.step # "report"
    BY DEF Sweep, NoSweep, CustodyCrash, Idle
  <2>4. LatestHeight => scan'.step # "report"
    BY DEF LatestHeight, TypeInv, Scans
  <2>5. CallFails => scan'.step # "report"
    BY DEF CallFails, TypeInv, Scans, Idle
  <2>6. scan'.step # "report"
    BY <1>4, <2>2, <2>3, <2>4, <2>5
  <2> QED
    BY <1>0, <2>1, <2>6 DEF DepthInv, chain, Deep
<1>5. CASE FulfilRequest \/ FulfilLost \/ PasswordChanged
  <2>1. UNCHANGED <<chain, credited>> /\ (scan' = scan \/ scan' = Idle)
    BY <1>5 DEF FulfilRequest, FulfilLost, PasswordChanged, backend
  <2>2. Idle.step # "report"
    BY DEF Idle
  <2> QED
    BY <1>0, <2>1, <2>2 DEF DepthInv, chain, Deep
<1> QED
  BY <1>1, <1>2, <1>3, <1>4, <1>5 DEF Next

(* A credited deposit leaves the chain only by a reorganisation of as many *)
(* blocks as confirmations are asked for, however those of fewer blocks    *)
(* fall between the three calls of the scan.                               *)
THEOREM CreditedDepositsStay == Spec => []CreditedStays
<1>1. Init => DepthInv
  BY DEF Init, DepthInv, Idle
<1>2. DepthInv => CreditedStays
  BY DEF DepthInv, Deep, CreditedStays
<1> QED
  BY <1>1, <1>2, TypeInvariant, NextDepth, PTL DEF Spec

-----------------------------------------------------------------------------
SweepInv == (UNION sweeps) \cup scan.reported \subseteq credited \cup refused

LEMMA NextSweep == TypeInv /\ SweepInv /\ [Next]_vars => SweepInv'
<1> SUFFICES ASSUME TypeInv, SweepInv, [Next]_vars
             PROVE  SweepInv'
  OBVIOUS
<1>1. CASE BlockAppended \/ Reorganised \/ UNCHANGED vars
  BY <1>1 DEF BlockAppended, Reorganised, vars, backend, SweepInv
<1>2. CASE FetchUnspent \/ NoSweep \/ CustodyCrash \/ PasswordChanged
  <2>1. scan'.reported = {}
    <3>1. FetchUnspent => scan'.reported = Idle.reported
      BY DEF FetchUnspent, Idle
    <3>2. NoSweep \/ CustodyCrash \/ PasswordChanged => scan'.reported = Idle.reported
      BY DEF NoSweep, CustodyCrash, PasswordChanged
    <3>3. Idle.reported = {}
      BY DEF Idle
    <3> QED
      BY <1>2, <3>1, <3>2, <3>3
  <2>2. sweeps' = sweeps /\ credited' = credited /\ refused' = refused
    BY <1>2 DEF FetchUnspent, NoSweep, CustodyCrash, PasswordChanged, backend
  <2> QED
    BY <2>1, <2>2 DEF SweepInv
<1>3. CASE LatestHeight \/ \E c \in Deposits : TransactionHeight(c)
  BY <1>3 DEF LatestHeight, TransactionHeight, TypeInv, Scans, backend, SweepInv
<1>4. CASE ReportDeposit \/ ReportLost
  <2>1. ReportDeposit => /\ credited' = credited \cup {scan.asked}
                         /\ scan'.reported = scan.reported \cup {scan.asked}
    BY DEF ReportDeposit, Credit, NextOutput, TypeInv, Scans
  <2>2. ReportLost => /\ credited' = credited \cup {scan.asked} \/ credited' = credited
                      /\ scan'.reported = scan.reported
    BY DEF ReportLost, Credit, NextOutput, TypeInv, Scans
  <2>3. sweeps' = sweeps /\ refused' = refused
    BY <1>4 DEF ReportDeposit, ReportLost
  <2> QED
    BY <1>4, <2>1, <2>2, <2>3 DEF SweepInv
<1>5. CASE ReportRefused
  <2>1. /\ sweeps' = sweeps /\ credited' = credited /\ refused' = refused \cup {scan.asked}
        /\ scan'.reported = scan.reported \cup {scan.asked}
    BY <1>5 DEF ReportRefused, NextOutput, TypeInv, Scans
  <2> QED
    BY <2>1 DEF SweepInv
<1>6. CASE Sweep
  BY <1>6 DEF Sweep, Idle, backend, SweepInv
<1>7. CASE CallFails
  BY <1>7 DEF CallFails, Idle, TypeInv, Scans, backend, SweepInv
<1>8. CASE FulfilRequest \/ FulfilLost
  BY <1>8 DEF FulfilRequest, FulfilLost, SweepInv
<1> QED
  BY <1>1, <1>2, <1>3, <1>4, <1>5, <1>6, <1>7, <1>8 DEF Next

(* Whatever reports are lost and scans break off, only deposits that were  *)
(* credited, or whose report was refused, are swept.                       *)
THEOREM SweptDepositsWereCredited == Spec => []SweptWasCredited
<1>1. Init => SweepInv
  BY DEF Init, SweepInv, Idle
<1>2. SweepInv => SweptWasCredited
  BY DEF SweepInv, SweptWasCredited
<1> QED
  BY <1>1, <1>2, TypeInvariant, NextSweep, PTL DEF Spec

-----------------------------------------------------------------------------
(* The decimals of an amount.                                              *)
LEMMA ScaleType == Scale \in Nat \ {0} /\ MaxAmt \in Nat
<1>1. 10 \in Nat \ {0} /\ 2 \in Nat \ {0} /\ Decimals \in Nat /\ Width \in Nat
  BY AmountsAssumption
<1>2. Power(10, Decimals) \in Nat \ {0} /\ Power(2, Width) \in Nat \ {0}
  BY <1>1, PowerPositive
<1> QED
  BY <1>2 DEF Scale, MaxAmt

(* The zeros that are cut off are zeros.                                   *)
LEMMA ZerosDivide ==
  ASSUME NEW frac \in Nat
  PROVE  \E n \in 0..Decimals : /\ frac % Power(10, n) = 0
                                /\ \A m \in n + 1..Decimals : frac % Power(10, m) # 0
<1>1. PICK S : S = {n \in 0..Decimals : frac % Power(10, n) = 0}
  OBVIOUS
<1>2. S \in SUBSET (0..Decimals) /\ Decimals \in Nat
  BY <1>1, AmountsAssumption
<1>3. 0 \in S
  <2>1. Power(10, 0) = 1 /\ frac % 1 = 0
    BY PowerSteps
  <2> QED
    BY <1>1, <1>2, <2>1
<1>4. PICK n \in S : \A m \in n + 1..Decimals : m \notin S
  BY <1>2, <1>3, GreatestUpTo
<1>5. \A m \in n + 1..Decimals : m \in 0..Decimals
  BY <1>2
<1> QED
  BY <1>1, <1>4, <1>5

LEMMA SplitProduct ==
  ASSUME NEW q \in Nat, NEW f \in Nat, NEW p \in Nat, NEW z \in Nat
  PROVE  (q * (p * z) + f * z) * p = (q * p + f) * (p * z)
<1>1. (q * (p * z) + f * z) * p = (q * (p * z)) * p + (f * z) * p
  OBVIOUS
<1>2. (q * p + f) * (p * z) = (q * p) * (p * z) + f * (p * z)
  OBVIOUS
<1>3. (q * (p * z)) * p = (q * p) * (p * z) /\ (f * z) * p = f * (p * z)
  OBVIOUS
<1> QED
  BY <1>1, <1>2, <1>3

(* What an amount is written as reads as that amount.                      *)
LEMMA FormatKeeps ==
  ASSUME NEW units \in Nat
  PROVE  SameAmount(units, FormatUnits(units))
<1>1. PICK q, frac : q = units \div Scale /\ frac = units % Scale
  OBVIOUS
<1>2. units = Scale * q + frac /\ q \in Nat /\ frac \in Nat
  <2>1. PICK e \in Nat \ {0} : e = Scale
    BY ScaleType
  <2>2. units = e * (units \div e) + (units % e) /\ units % e \in 0..e - 1 /\ units \div e \in Int
    OBVIOUS
  <2>3. units \div e \in Nat
    BY Quotient
  <2> QED
    BY <1>1, <2>1, <2>2, <2>3
<1>3. PICK n : n = CHOOSE m \in 0..Decimals :
                 /\ frac % Power(10, m) = 0
                 /\ \A k \in m + 1..Decimals : frac % Power(10, k) # 0
  OBVIOUS
<1>4. n \in 0..Decimals /\ frac % Power(10, n) = 0
  BY <1>2, <1>3, ZerosDivide
<1>5. PICK p, z : p = Power(10, Decimals - n) /\ z = Power(10, n)
  OBVIOUS
<1>6. p \in Nat /\ z \in Nat \ {0} /\ Scale = p * z
  <2>1. 10 \in Nat \ {0} /\ n \in Nat /\ Decimals - n \in Nat
    BY <1>4, AmountsAssumption
  <2>2. (Decimals - n) + n = Decimals
    BY <1>4, AmountsAssumption
  <2>3. p \in Nat \ {0} /\ z \in Nat \ {0}
    BY <1>5, <2>1, PowerPositive
  <2>4. Power(10, (Decimals - n) + n) = p * z
    BY <1>5, <2>1, PowerAdds
  <2> QED
    BY <2>2, <2>3, <2>4 DEF Scale
<1>7. PICK f : f = frac \div z
  OBVIOUS
<1>8. f \in Nat /\ frac = f * z
  <2>1. frac % z = 0
    BY <1>4, <1>5
  <2>2. frac = z * f + (frac % z) /\ f \in Int
    BY <1>2, <1>6, <1>7
  <2>3. f \in Nat
    BY <1>2, <1>6, <1>7, Quotient
  <2> QED
    BY <1>6, <2>1, <2>2, <2>3
<1>9. FormatUnits(units) = Decimal(q, f, Decimals - n)
  BY <1>1, <1>3, <1>5, <1>7 DEF FormatUnits
<1>10. units = q * (p * z) + f * z
  BY <1>2, <1>6, <1>8
<1>11. units * p = (q * p + f) * (p * z)
  BY <1>2, <1>6, <1>8, <1>10, SplitProduct
<1> QED
  BY <1>5, <1>6, <1>9, <1>11 DEF SameAmount, Decimal

-----------------------------------------------------------------------------
CreditInv == DOMAIN credit = credited /\ \A c \in credited : credit[c] = FormatUnits(Amount[c])

LEMMA CreditKeeps ==
  ASSUME CreditInv, NEW c, Credit(c)
  PROVE  CreditInv'
<1>1. CASE c \in credited
  <2>1. credited' = credited /\ credit' = credit
    BY <1>1 DEF Credit
  <2> QED
    BY <2>1 DEF CreditInv
<1>2. CASE c \notin credited
  BY <1>2 DEF Credit, CreditInv
<1> QED
  BY <1>1, <1>2

LEMMA NextCredit == CreditInv /\ [Next]_vars => CreditInv'
<1> SUFFICES ASSUME CreditInv, [Next]_vars PROVE CreditInv'
  OBVIOUS
<1>1. CASE ReportDeposit \/ ReportLost
  <2>1. Credit(scan.asked) \/ UNCHANGED <<credited, credit>>
    BY <1>1 DEF ReportDeposit, ReportLost
  <2> QED
    BY <2>1, CreditKeeps DEF CreditInv
<1>2. CASE ~(ReportDeposit \/ ReportLost)
  <2>1. UNCHANGED <<credited, credit>>
    BY <1>2 DEF Next, vars, backend, BlockAppended, Reorganised, FulfilRequest, FulfilLost,
                FetchUnspent, LatestHeight, TransactionHeight, ReportRefused, Sweep, NoSweep,
                CallFails, CustodyCrash, PasswordChanged
  <2> QED
    BY <2>1 DEF CreditInv
<1> QED
  BY <1>1, <1>2

(* What a user is credited is what the chain paid, to the last digit: the  *)
(* backend keeps the first report of a deposit, and the decimal that       *)
(* format_base_units_as_znx_decimal writes, zeros cut off, is the amount.  *)
THEOREM AlwaysCreditedInFull == Spec => []CreditedInFull
<1>1. Init => CreditInv
  BY DEF Init, CreditInv
<1>2. TypeInv /\ CreditInv => CreditedInFull
  <2> SUFFICES ASSUME TypeInv, CreditInv PROVE CreditedInFull
    OBVIOUS
  <2>1. ASSUME NEW c \in credited
        PROVE  SameAmount(Amount[c], credit[c])
    <3>1. Amount[c] \in Nat
      BY ScaleType, DepositsAssumption DEF TypeInv, TypeOK
    <3> QED
      BY <3>1, FormatKeeps DEF CreditInv
  <2> QED
    BY <2>1 DEF CreditedInFull, CreditInv
<1> QED
  BY <1>1, <1>2, TypeInvariant, NextCredit, PTL DEF Spec
=============================================================================
