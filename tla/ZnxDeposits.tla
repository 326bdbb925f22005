---------------------------- MODULE ZnxDeposits ----------------------------
(***************************************************************************)
(* The deposits of znx-custody, for one user.                              *)
(* cumplir_solicitudes_deposito makes an address and leaves its key,       *)
(* encrypted, with the backend.                                            *)
(* escanear_direccion_deposito reports the outputs of that address that    *)
(* are deep enough one by one, and sweeps those that it reported in one    *)
(* transaction.  Every question to the node is a call of its own, and      *)
(* blocks arrive and reorganisations happen between two of them.           *)
(***************************************************************************)
EXTENDS ZnxAmounts, ZnxKeystore, FiniteSets

CONSTANTS
  Deposits,       \* outputs that are paid to the address
  Amount,         \* of each, in base units
  Passwords,      \* those that ZNX_DEPOSIT_KEYS_PASSWORD may have, or NoPassword
  Confirmations,  \* --deposit-confirmations
  MaxHeight,      \* bound: the height of the chain
  MaxDepth,       \* bound: the blocks that a reorganisation undoes
  Faults,         \* the kinds of faults that happen
  MaxFaults       \* bound: how many of each

FaultKinds == {"break", "lost", "refused", "password"}
NoPassword == "not set"

ASSUME DepositsAssumption ==
  /\ Amount \in [Deposits -> 1..MaxAmt] /\ Passwords # {}
  /\ Confirmations \in Nat \ {0} /\ MaxHeight \in Nat
  /\ MaxDepth \in Nat
  /\ Faults \subseteq FaultKinds /\ MaxFaults \in Nat

VARIABLES
  tip,       \* of the chain: its height
  height,    \*   that of the transaction of each output, 0 if none has it
  spent,     \*   that of the sweep that spends it, 0 if none does
  sweeps,    \* the sweeps that the node admitted, each the set of its inputs
  account,   \* of the backend: the keystore of the address, or NoAccount
  credited,  \*   the deposits confirmarDepositoZNX has credited
  credit,    \*   the decimal amount of each
  password,  \* of the process: ZNX_DEPOSIT_KEYS_PASSWORD
  scan,
  faults,    \* so far: how many of each kind
  tooDeep,   \* history: one reorganisation undid Confirmations blocks or more;
  refused    \*   the deposits of which the backend refused a report

chain   == <<tip, height, spent, tooDeep>>
backend == <<account, credited, credit, refused>>
vars    == <<chain, sweeps, backend, password, scan, faults>>

NoOne     == "none"
NoAccount == CreateKeystore(NoKey, NoPassword)
Key       == "key of the address"
Idle  == [step |-> "idle", unspent |-> {}, latest |-> 0, asked |-> NoOne, reported |-> {}]

Init ==
  /\ tip = 0
  /\ height = [c \in Deposits |-> 0] /\ spent = [c \in Deposits |-> 0]
  /\ sweeps = {} /\ account = NoAccount
  /\ credited = {} /\ credit = [c \in {} |-> Garbage]
  /\ password \in Passwords
  /\ scan = Idle
  /\ faults = [k \in FaultKinds |-> 0]
  /\ tooDeep = FALSE /\ refused = {}

Fault(kind) ==
  /\ kind \in Faults /\ faults[kind] < MaxFaults
  /\ faults' = [faults EXCEPT ![kind] = @ + 1]

-----------------------------------------------------------------------------
(* The chain (ZnxChain has the rest).                                      *)

Unspent == {c \in Deposits : height[c] > 0 /\ spent[c] = 0}

(* Nobody pays to an address before the backend has it.  A sweep stays in  *)
(* the mempool of one node or another until it is mined.                   *)
BlockAppended ==
  /\ tip < MaxHeight
  /\ tip' = tip + 1
  /\ \E new \in SUBSET {c \in Deposits : height[c] = 0}, s \in sweeps \cup {{}} :
       /\ new # {} => account # NoAccount
       /\ s \subseteq Unspent
       /\ height' = [c \in Deposits |-> IF c \in new THEN tip' ELSE height[c]]
       /\ spent' = [c \in Deposits |-> IF c \in s THEN tip' ELSE spent[c]]
  /\ UNCHANGED <<tooDeep, sweeps, backend, password, scan, faults>>

(* Any number of blocks is undone, the confirmations asked for or more.    *)
(* Their transactions may be in the new blocks, at any height; of the      *)
(* sweeps, none is yet.                                                    *)
Reorganised ==
  /\ \E fork \in tip - MaxDepth..tip - 1, new \in tip..MaxHeight :
       /\ fork >= 0
       /\ tip' = new
       /\ tooDeep' = (tooDeep \/ tip - fork >= Confirmations)
       /\ height' \in {h \in [Deposits -> 0..new] :
                         \A c \in Deposits :
                           IF height[c] \in 1..fork THEN h[c] = height[c]
                                                    ELSE h[c] \notin 1..fork}
       /\ spent' = [c \in Deposits |-> IF spent[c] > fork THEN 0 ELSE spent[c]]
  /\ UNCHANGED <<sweeps, backend, password, scan, faults>>

-----------------------------------------------------------------------------
(* The address.  The whole flow is off while there is no password, and a   *)
(* row stays listed until the backend has an answer for it; the backend    *)
(* takes the first and no other.                                           *)

Enabled == password # NoPassword

FulfilRequest ==
  /\ scan.step = "idle" /\ Enabled /\ account = NoAccount
  /\ account' = CreateKeystore(Key, password)
  /\ UNCHANGED <<chain, sweeps, credited, credit, refused, password, scan, faults>>

(* The confirmation gets no answer: the backend has the address or not.    *)
FulfilLost ==
  /\ scan.step = "idle" /\ Enabled /\ account = NoAccount /\ Fault("lost")
  /\ account' \in {NoAccount, CreateKeystore(Key, password)}
  /\ UNCHANGED <<chain, sweeps, credited, credit, refused, password, scan>>

-----------------------------------------------------------------------------
(* The scan, of the addresses that the backend lists.                      *)

FetchUnspent ==
  /\ scan.step = "idle" /\ Enabled /\ account # NoAccount /\ Unspent # {}
  /\ scan' = [Idle EXCEPT !.step = "latest", !.unspent = Unspent]
  /\ UNCHANGED <<chain, sweeps, backend, password, faults>>

LatestHeight ==
  /\ scan.step = "latest"
  /\ scan' = [scan EXCEPT !.step = "outputs", !.latest = tip]
  /\ UNCHANGED <<chain, sweeps, backend, password, faults>>

(* Mutant: the block of the transaction is counted twice.                  *)
ConfirmationsOf_Twice(latest, h) == IF latest > h THEN latest - h + 2 ELSE 2

ConfirmationsOf(latest, h) == IF latest > h THEN latest - h + 1 ELSE 1

(* Mutant: what has been credited is done with.                            *)
TransactionHeight_New(c) ==
  /\ scan.step = "outputs" /\ c \in scan.unspent
  /\ scan' = IF /\ height[c] > 0 /\ ConfirmationsOf(scan.latest, height[c]) >= Confirmations
                /\ c \notin credited
             THEN [scan EXCEPT !.unspent = @ \ {c}, !.step = "report", !.asked = c]
             ELSE [scan EXCEPT !.unspent = @ \ {c}]
  /\ UNCHANGED <<chain, sweeps, backend, password, faults>>

(* An output whose transaction left the chain, or is not deep, is skipped. *)
TransactionHeight(c) ==
  /\ scan.step = "outputs" /\ c \in scan.unspent
  /\ scan' = IF height[c] > 0 /\ ConfirmationsOf(scan.latest, height[c]) >= Confirmations
             THEN [scan EXCEPT !.unspent = @ \ {c}, !.step = "report", !.asked = c]
             ELSE [scan EXCEPT !.unspent = @ \ {c}]
  /\ UNCHANGED <<chain, sweeps, backend, password, faults>>

NextOutput(reported) ==
  scan' = [scan EXCEPT !.step = "outputs", !.asked = NoOne, !.reported = reported]

(* The backend credits a deposit once, however often it is reported.       *)
Credit(c) ==
  /\ credited' = credited \cup {c}
  /\ credit' = IF c \in credited THEN credit
               ELSE [d \in credited \cup {c} |->
                       IF d = c THEN FormatUnits(Amount[c]) ELSE credit[d]]

ReportDeposit ==
  /\ scan.step = "report"
  /\ Credit(scan.asked)
  /\ NextOutput(scan.reported \cup {scan.asked})
  /\ UNCHANGED <<chain, sweeps, account, refused, password, faults>>

(* Mutant: a report that fails is taken for one that did not.              *)
ReportLost_Swept ==
  /\ scan.step = "report" /\ Fault("lost")
  /\ Credit(scan.asked) \/ UNCHANGED <<credited, credit>>
  /\ NextOutput(scan.reported \cup {scan.asked})
  /\ UNCHANGED <<chain, sweeps, account, refused, password>>

(* No answer, whether or not the backend had the report: not swept.        *)
ReportLost ==
  /\ scan.step = "report" /\ Fault("lost")
  /\ Credit(scan.asked) \/ UNCHANGED <<credited, credit>>
  /\ NextOutput(scan.reported)
  /\ UNCHANGED <<chain, sweeps, account, refused, password>>

(* An answer with the status of an error is an answer.                     *)
ReportRefused ==
  /\ scan.step = "report" /\ Fault("refused")
  /\ refused' = refused \cup {scan.asked}
  /\ NextOutput(scan.reported \cup {scan.asked})
  /\ UNCHANGED <<chain, sweeps, account, credited, credit, password>>

Opens == Decrypt(account, password) # NoKey

(* Mutant: nothing was reported, and it is swept.                          *)
Sweep_Nothing ==
  /\ scan.step = "outputs" /\ scan.unspent = {} /\ Opens
  /\ scan.reported \subseteq Unspent
  /\ sweeps' = sweeps \cup {scan.reported}
  /\ scan' = Idle
  /\ UNCHANGED <<chain, backend, password, faults>>

(* build_transfer and submit_transaction of what was reported, signed with *)
(* the key that the keystore holds.                                        *)
Sweep ==
  /\ scan.step = "outputs" /\ scan.unspent = {}
  /\ scan.reported # {} /\ scan.reported \subseteq Unspent /\ Opens
  /\ sweeps' = sweeps \cup {scan.reported}
  /\ scan' = Idle
  /\ UNCHANGED <<chain, backend, password, faults>>

(* Nothing to sweep; the keystore does not open; or the node refuses it,   *)
(* for an input that is spent or that a sweep in its mempool claims.       *)
NoSweep ==
  /\ scan.step = "outputs" /\ scan.unspent = {}
  /\ \/ scan.reported = {} \/ ~Opens
     \/ ~(scan.reported \subseteq Unspent)
     \/ \E s \in sweeps : s \cap scan.reported # {}
  /\ scan' = Idle
  /\ UNCHANGED <<chain, sweeps, backend, password, faults>>

(* A call to the node fails: the scan ends, or the output is skipped.      *)
CallFails ==
  /\ Fault("break")
  /\ \/ scan.step = "latest" /\ scan' = Idle
     \/ scan.step = "outputs"
        /\ \E c \in scan.unspent : scan' = [scan EXCEPT !.unspent = @ \ {c}]
     \/ scan.step = "outputs" /\ scan.unspent = {} /\ scan' = Idle
  /\ UNCHANGED <<chain, sweeps, backend, password>>

CustodyCrash ==
  /\ Fault("break") /\ scan # Idle
  /\ scan' = Idle
  /\ UNCHANGED <<chain, sweeps, backend, password>>

(* It is started again with another password, or with none.                *)
PasswordChanged ==
  /\ Fault("password")
  /\ password' \in Passwords
  /\ scan' = Idle
  /\ UNCHANGED <<chain, sweeps, backend>>

-----------------------------------------------------------------------------
Next ==
  \/ BlockAppended \/ Reorganised
  \/ FulfilRequest \/ FulfilLost
  \/ FetchUnspent \/ LatestHeight
  \/ \E c \in Deposits : TransactionHeight(c)
  \/ ReportDeposit \/ ReportLost \/ ReportRefused
  \/ Sweep \/ NoSweep
  \/ CallFails \/ CustodyCrash \/ PasswordChanged

Spec == Init /\ [][Next]_vars

(* The poll repeats the scan for ever, and every call of it has a timeout; *)
(* unless a withdrawal has ended its task (ZnxWithdrawals).                *)
ScanStep ==
  \/ FetchUnspent \/ LatestHeight
  \/ \E c \in Deposits : TransactionHeight(c)
  \/ ReportDeposit \/ Sweep \/ NoSweep

FairSpec == Spec /\ WF_vars(ScanStep)

-----------------------------------------------------------------------------
(* Properties.                                                             *)

TypeOK ==
  /\ tip \in 0..MaxHeight
  /\ height \in [Deposits -> 0..tip] /\ spent \in [Deposits -> 0..tip]
  /\ \A c \in Deposits : spent[c] > 0 => height[c] \in 1..spent[c]
  /\ sweeps \subseteq (SUBSET Deposits) \ {{}}
  /\ account \in {NoAccount} \cup {CreateKeystore(Key, p) : p \in Passwords \ {NoPassword}}
  /\ credited \subseteq Deposits /\ password \in Passwords
  /\ scan.step \in {"idle", "latest", "outputs", "report"}
  /\ scan.unspent \cup scan.reported \subseteq Deposits
  /\ scan.latest \in 0..tip /\ scan.asked \in Deposits \cup {NoOne}
  /\ faults \in [FaultKinds -> 0..MaxFaults]
  /\ tooDeep \in BOOLEAN /\ refused \subseteq Deposits

(* What the confirmations are for: a credited deposit leaves the chain     *)
(* only if some reorganisation has undone as many blocks as confirmations  *)
(* are asked for, though the height of the chain, that of the transaction  *)
(* and the report are three calls and blocks are undone between them.      *)
CreditedStays == ~tooDeep => \A c \in credited : height[c] > 0

(* What is swept to the hot wallet was credited, or is a deposit whose     *)
(* report the backend refused with a status that the scan does not look    *)
(* at, though reports are lost and scans break off.                        *)
SweptWasCredited == (UNION sweeps) \subseteq credited \cup refused

(* However often a deposit is reported, what its user is credited is what  *)
(* the chain paid, to the last digit, in whatever way its decimals have    *)
(* zeros at their two ends.                                                *)
CreditedInFull ==
  /\ DOMAIN credit = credited
  /\ \A c \in credited : SameAmount(Amount[c], credit[c])

(* What a user has been credited gets to the hot wallet that pays the      *)
(* withdrawals: though answers are lost and the process crashes between    *)
(* the report and the sweep, it is swept in the end; unless a deep         *)
(* reorganisation has taken a credited deposit out of the chain or too     *)
(* near its tip, an earlier sweep is still waiting for its block, or the   *)
(* process has another password than the one its address was made with.    *)
CreditedIsSwept ==
  \A c \in Deposits :
    c \in credited ~> \/ c \in UNION sweeps
                      \/ \E d \in credited :
                           height[d] = 0 \/ ConfirmationsOf(tip, height[d]) < Confirmations
                      \/ \E s \in sweeps : s \cap Unspent # {}
                      \/ faults["password"] > 0 /\ ~Opens
=============================================================================
