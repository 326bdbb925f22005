--------------------------- MODULE ZnxWithdrawals ---------------------------
(***************************************************************************)
(* The withdrawals of znx-custody: a row of the backend or a call of       *)
(* sign_withdrawal becomes one transaction of the hot wallet, and one line *)
(* of the journal.  The journal lock is held from the lookup to the line,  *)
(* across two calls to the node.  Of the node, only what happens to the    *)
(* transactions of the wallet is here (ZnxNode has the rest).              *)
(***************************************************************************)
EXTENDS ZnxAmounts, ZnxWallet, Sequences, FiniteSets

CONSTANTS
  Requests,   \* request ids; each pays an address of its own
  Monto,      \* of the row of each: the decimal that its user asks for
  BadAddress, \* those whose address does not parse
  Amounts,    \* what a caller of sign_withdrawal may ask for, in base units,
  Fees,       \*   and add for the miner
  Funds,      \* the amounts of the outputs that the wallet starts with
  Faults,     \* the kinds of faults that happen
  MaxFaults   \* bound: how many of them

FaultKinds == {"list", "answer", "report", "journal", "idle crash", "crash", "restart"}

ASSUME WithdrawalsAssumption ==
  /\ BadAddress \subseteq Requests
  /\ Amounts \subseteq Nat /\ 0 \in Fees /\ Fees \subseteq Nat
  /\ Funds \in Seq(Nat \ {0}) /\ Monto \in [Requests -> DecimalNumber]
  /\ Faults \subseteq FaultKinds /\ MaxFaults \in Nat

VARIABLES
  made,        \* of the node: txid -> transaction, all ever admitted
  mempool,     \*   pending
  candidate,   \*   being mined
  confirmed,   \*   in the chain
  overRpc,     \*   history: those that sign_withdrawal asked for
  rows,        \* of the backend: the status of each request
  file,        \* of the journal on disk: its lines, each with its entries
  terminated,  \*   the last line has its newline
  entries,     \* of the process: the journal in memory
  withdrawal,  \*   the one that holds the journal lock
  queue,       \*   rows that the poll has listed and not yet processed
  reporting,   \*   the row that it is reporting
  polling,     \*   the task of the poll runs
  alive,       \*   it starts at all
  faults       \* so far: how many of each kind

(* A row is invalid if its address or its amount does not parse.           *)
Amount  == [r \in Requests |-> ParseDecimal(Monto[r])]
Invalid == BadAddress \cup {r \in Requests : Amount[r] = NotAnAmount}

node    == <<made, mempool, candidate, confirmed, overRpc>>
journal == <<file, terminated>>
memory  == <<entries, withdrawal, queue, reporting, polling, alive>>
vars    == <<node, rows, journal, memory, faults>>

NoOne        == "none"
NoTx         == [inputs |-> {}, to |-> NoOne, amount |-> 0, change |-> 0]
NoWithdrawal == [step |-> "free", caller |-> NoOne, request |-> NoOne, amount |-> 0,
                 fee |-> 0, tx |-> NoTx, txid |-> 0]
NoEntry      == [request |-> NoOne, amount |-> 0, fee |-> 0, txid |-> 0]
NoEntries    == [r \in {} |-> NoEntry]

Init ==
  /\ made = <<>> /\ mempool = {} /\ candidate = {} /\ confirmed = {} /\ overRpc = {}
  /\ rows = [r \in Requests |-> "procesando"]
  /\ file = <<>> /\ terminated = TRUE
  /\ entries = NoEntries /\ withdrawal = NoWithdrawal
  /\ queue = {} /\ reporting = NoOne /\ polling = TRUE /\ alive = TRUE
  /\ faults = [k \in FaultKinds |-> 0]

Fault(kind) ==
  /\ kind \in Faults /\ SumFunction(faults) < MaxFaults
  /\ faults' = [faults EXCEPT ![kind] = @ + 1]

-----------------------------------------------------------------------------
(* The node.  A coin of the wallet is an output <<txid, vout>>: its funds, *)
(* or the change of a payment, the second output of its transaction.       *)

InputsOf(txids) == UNION {made[t].inputs : t \in txids}

Coins == {<<0, i>> : i \in DOMAIN Funds}
           \cup {<<t, 2>> : t \in {u \in DOMAIN made : made[u].change > 0}}

AmountOf == [c \in Coins |-> IF c[1] = 0 THEN Funds[c[2]] ELSE made[c[1]].change]

(* list_unspent reads the database, whatever is pending.                   *)
Unspent == {c \in Coins : c[1] = 0 \/ c[1] \in confirmed} \ InputsOf(confirmed)

(* A transaction is named by its content.                                  *)
TxidOf(tx) ==
  IF \E t \in DOMAIN made : made[t] = tx
  THEN CHOOSE t \in DOMAIN made : made[t] = tx
  ELSE Len(made) + 1

(* Mempool::insert succeeds.                                               *)
Admits(tx) ==
  /\ tx.inputs # {} /\ TxidOf(tx) \notin mempool
  /\ tx.inputs \cap InputsOf(mempool) = {}
  /\ tx.inputs \subseteq Unspent

Admit(tx) ==
  /\ made' = IF TxidOf(tx) \in DOMAIN made THEN made ELSE Append(made, tx)
  /\ mempool' = mempool \cup {TxidOf(tx)}
  /\ overRpc' = overRpc \cup {t \in {TxidOf(tx)} : withdrawal.caller = "rpc"}
  /\ UNCHANGED <<candidate, confirmed>>

(* The miner takes the transactions out of the mempool, claims and all.    *)
BuildCandidate ==
  /\ candidate = {} /\ mempool # {}
  /\ candidate' = {t \in mempool : made[t].inputs \subseteq Unspent}
  /\ mempool' = {}
  /\ UNCHANGED <<made, confirmed, overRpc, rows, journal, memory, faults>>

BlockMined ==
  /\ candidate # {}
  /\ confirmed' = confirmed \cup candidate
  /\ candidate' = {}
  /\ UNCHANGED <<made, mempool, overRpc, rows, journal, memory, faults>>

NoNonce ==
  /\ candidate # {}
  /\ mempool' = mempool \cup {t \in candidate : Admits(made[t])}
  /\ candidate' = {}
  /\ UNCHANGED <<made, confirmed, overRpc, rows, journal, memory, faults>>

(* The mempool lives in memory.                                            *)
NodeRestart ==
  /\ Fault("restart")
  /\ mempool' = {} /\ candidate' = {}
  /\ UNCHANGED <<made, confirmed, overRpc, rows, journal, memory>>

-----------------------------------------------------------------------------
(* process_withdrawal.                                                     *)

LockFree == alive /\ withdrawal = NoWithdrawal

Begin(caller, r, amount, fee) ==
  withdrawal' = [NoWithdrawal EXCEPT !.step = "list", !.caller = caller, !.request = r,
                                     !.amount = amount, !.fee = fee]

(* Mutant: the journal in memory is not asked.                             *)
Start_Again(caller, r, amount, fee) == Begin(caller, r, amount, fee)

(* A request that the journal has is done already; with other parameters   *)
(* it is an error of the caller.  Neither gets any further.                *)
Start(caller, r, amount, fee) ==
  IF r \in DOMAIN entries THEN withdrawal' = NoWithdrawal ELSE Begin(caller, r, amount, fee)

Repeated(r, amount, fee) ==
  r \in DOMAIN entries /\ entries[r].amount = amount /\ entries[r].fee = fee

Fail == withdrawal' = NoWithdrawal

(* fetch_unspent and build_transfer, or not enough funds, or a sum that    *)
(* overflows.                                                              *)
ListUnspent ==
  /\ withdrawal.step = "list"
  /\ LET target  == withdrawal.amount + withdrawal.fee
         choices == Selections(Unspent, AmountOf, target)
     IN  IF target > MaxAmt \/ choices = {} THEN Fail
         ELSE \E s \in choices :
           withdrawal' = [withdrawal EXCEPT !.step = "submit",
                            !.tx = Transfer(s, AmountOf, withdrawal.request,
                                            withdrawal.amount, withdrawal.fee)]
  /\ UNCHANGED <<node, rows, journal, entries, queue, reporting, polling, alive, faults>>

(* submit_transaction: admitted, or refused for what is pending or spent.  *)
SubmitTransaction ==
  /\ withdrawal.step = "submit"
  /\ IF Admits(withdrawal.tx)
     THEN /\ Admit(withdrawal.tx)
          /\ withdrawal' = [withdrawal EXCEPT !.step = "line", !.txid = TxidOf(withdrawal.tx)]
     ELSE Fail /\ UNCHANGED node
  /\ UNCHANGED <<rows, journal, entries, queue, reporting, polling, alive, faults>>

(* A call to the node fails or times out; if it is the second, the node    *)
(* may have admitted the transaction all the same.                         *)
ListFails ==
  /\ withdrawal.step = "list" /\ Fault("list")
  /\ Fail
  /\ UNCHANGED <<node, rows, journal, entries, queue, reporting, polling, alive>>

AnswerLost ==
  /\ withdrawal.step = "submit" /\ Admits(withdrawal.tx) /\ Fault("answer")
  /\ Admit(withdrawal.tx)
  /\ Fail
  /\ UNCHANGED <<rows, journal, entries, queue, reporting, polling, alive>>

EntryOf(w) ==
  [request |-> w.request, amount |-> w.amount, fee |-> w.fee, txid |-> w.txid]

(* Mutant: the file is opened to write and not to append.                  *)
AppendLine_Truncating ==
  /\ withdrawal.step = "line"
  /\ file' = <<<<EntryOf(withdrawal)>>>>
  /\ terminated' = FALSE
  /\ withdrawal' = [withdrawal EXCEPT !.step = "newline"]
  /\ UNCHANGED <<node, rows, entries, queue, reporting, polling, alive, faults>>

(* Journal::append: writeln! on a file writes the line and then its        *)
(* newline, and the entry goes to memory.                                  *)
AppendLine ==
  /\ withdrawal.step = "line"
  /\ file' = IF terminated THEN Append(file, <<EntryOf(withdrawal)>>)
             ELSE [file EXCEPT ![Len(file)] = Append(@, EntryOf(withdrawal))]
  /\ terminated' = FALSE
  /\ withdrawal' = [withdrawal EXCEPT !.step = "newline"]
  /\ UNCHANGED <<node, rows, entries, queue, reporting, polling, alive, faults>>

AppendNewline ==
  /\ withdrawal.step = "newline"
  /\ terminated' = TRUE
  /\ entries' = [r \in DOMAIN entries \cup {withdrawal.request} |->
                   IF r = withdrawal.request THEN EntryOf(withdrawal) ELSE entries[r]]
  /\ reporting' = IF withdrawal.caller = "poll" THEN withdrawal.request ELSE reporting
  /\ withdrawal' = NoWithdrawal
  /\ UNCHANGED <<node, rows, file, queue, polling, alive, faults>>

(* Journal::append panics: it could not open the journal, or not write the *)
(* line or its newline, and the transaction is out.  Of sign_withdrawal    *)
(* that is one call; the poll's whole task ends, and the process runs on.  *)
JournalFails ==
  /\ withdrawal.step \in {"line", "newline"} /\ Fault("journal")
  /\ Fail
  /\ IF withdrawal.caller = "poll" THEN polling' = FALSE /\ queue' = {}
                                   ELSE UNCHANGED <<polling, queue>>
  /\ UNCHANGED <<node, rows, journal, entries, reporting, alive>>

WithdrawalStep == ListUnspent \/ SubmitTransaction \/ AppendLine \/ AppendNewline

-----------------------------------------------------------------------------
(* The callers: sign_withdrawal at any time, with an amount in base units  *)
(* and a fee of its choice, and the poll, one row after the other, with    *)
(* the amount of the row and without a fee.                                *)

SignWithdrawal(r, amount, fee) ==
  /\ LockFree /\ r \notin BadAddress
  /\ Start("rpc", r, amount, fee)
  /\ UNCHANGED <<node, rows, journal, entries, queue, reporting, polling, alive, faults>>

PollFree == alive /\ polling /\ reporting = NoOne /\ withdrawal.caller # "poll"

(* Mutant: the poll lists only what the journal does not have.             *)
Tick_Unpaid ==
  /\ PollFree /\ queue = {}
  /\ queue' = {r \in Requests : rows[r] = "procesando" /\ r \notin DOMAIN entries}
  /\ UNCHANGED <<node, rows, journal, entries, withdrawal, reporting, polling, alive, faults>>

Tick ==
  /\ PollFree /\ queue = {}
  /\ queue' = {r \in Requests : rows[r] = "procesando"}
  /\ UNCHANGED <<node, rows, journal, entries, withdrawal, reporting, polling, alive, faults>>

ProcesarRetiro(r) ==
  /\ PollFree /\ r \in queue \ Invalid /\ LockFree
  /\ queue' = queue \ {r}
  /\ Start("poll", r, Amount[r], 0)
  /\ reporting' = IF Repeated(r, Amount[r], 0) THEN r ELSE NoOne
  /\ UNCHANGED <<node, rows, journal, entries, polling, alive, faults>>

(* It does not parse, and is reported at once.                             *)
RechazarRetiro(r) ==
  /\ PollFree /\ r \in queue \cap Invalid
  /\ queue' = queue \ {r}
  /\ reporting' = r
  /\ UNCHANGED <<node, rows, journal, entries, withdrawal, polling, alive, faults>>

(* A report that fails is not repeated: the row is listed again.           *)
ReportarResultado ==
  /\ reporting # NoOne
  /\ rows' = [rows EXCEPT ![reporting] =
                 IF reporting \in Invalid THEN "fallido" ELSE "completado"]
  /\ reporting' = NoOne
  /\ UNCHANGED <<node, journal, entries, withdrawal, queue, polling, alive, faults>>

ReportFails ==
  /\ reporting # NoOne /\ Fault("report")
  /\ reporting' = NoOne
  /\ UNCHANGED <<node, rows, journal, entries, withdrawal, queue, polling, alive>>

-----------------------------------------------------------------------------
(* Journal::load.  A line with two entries does not parse, and the process *)
(* panics whenever it starts.                                              *)
Loads == \A i \in DOMAIN file : Len(file[i]) = 1

Loaded ==
  [r \in {file[i][1].request : i \in DOMAIN file} |->
     LET i == CHOOSE i \in DOMAIN file :
                /\ file[i][1].request = r
                /\ \A j \in i + 1..Len(file) : file[j][1].request # r
     IN  file[i][1]]

CustodyCrash ==
  /\ alive
  /\ Fault("crash") \/ (withdrawal = NoWithdrawal /\ Fault("idle crash"))
  /\ alive' = Loads /\ polling' = TRUE
  /\ entries' = IF Loads THEN Loaded ELSE NoEntries
  /\ withdrawal' = NoWithdrawal /\ queue' = {} /\ reporting' = NoOne
  /\ UNCHANGED <<node, rows, journal>>

-----------------------------------------------------------------------------
Next ==
  \/ BuildCandidate \/ BlockMined \/ NoNonce \/ NodeRestart
  \/ WithdrawalStep \/ ListFails \/ AnswerLost \/ JournalFails
  \/ \E r \in Requests, amount \in Amounts, fee \in Fees : SignWithdrawal(r, amount, fee)
  \/ \E r \in Requests : ProcesarRetiro(r) \/ RechazarRetiro(r)
  \/ Tick \/ ReportarResultado \/ ReportFails
  \/ CustodyCrash

Spec == Init /\ [][Next]_vars

(* Every call has a timeout, so what is begun goes on; the journal lock is *)
(* a fair queue; a nonce is found in some of infinitely many searches.     *)
FairSpec ==
  /\ Spec
  /\ WF_vars(WithdrawalStep) /\ WF_vars(Tick) /\ WF_vars(ReportarResultado)
  /\ SF_vars(\E r \in Requests : ProcesarRetiro(r) \/ RechazarRetiro(r))
  /\ WF_vars(BuildCandidate) /\ SF_vars(BlockMined)

-----------------------------------------------------------------------------
(* Properties.                                                             *)

Txids == DOMAIN made

TypeOK ==
  /\ \A t \in Txids : made[t].to \in Requests /\ made[t].change \in Nat
  /\ mempool \subseteq Txids /\ candidate \subseteq Txids /\ confirmed \subseteq Txids
  /\ rows \in [Requests -> {"procesando", "completado", "fallido"}]
  /\ \A i \in DOMAIN file : \A j \in DOMAIN file[i] :
       file[i][j].request \in Requests /\ file[i][j].txid \in Txids /\ file[i][j].fee \in Fees
  /\ overRpc \subseteq Txids
  /\ terminated \in BOOLEAN /\ polling \in BOOLEAN /\ alive \in BOOLEAN
  /\ DOMAIN entries \subseteq Requests /\ \A r \in DOMAIN entries : entries[r].txid \in Txids
  /\ withdrawal.step \in {"free", "list", "submit", "line", "newline"}
  /\ queue \subseteq Requests /\ reporting \in Requests \cup {NoOne}
  /\ faults \in [FaultKinds -> 0..MaxFaults]

Payments(r) == {t \in confirmed : made[t].to = r}

(* A withdrawal is idempotent by its request id: however often the backend *)
(* calls and the poll lists it, and whatever of it failed before, the      *)
(* chain pays each request at most once.                                   *)
PaidOnce == \A r \in Requests : Cardinality(Payments(r)) <= 1

(* It is, but for the answers that were lost, the crashes in a withdrawal  *)
(* and the lines that the journal could not take: each of these costs one  *)
(* payment more at most, and failed reports, crashes and restarts at any   *)
(* other time cost none.                                                   *)
OneMorePerLoss ==
  \A r \in Requests :
    Cardinality(Payments(r)) <= 1 + faults["answer"] + faults["crash"] + faults["journal"]

(* What was reported as completed is in the journal on disk, whatever      *)
(* crashed since, with a transaction that paid the request.                *)
CompletedIsJournaled ==
  \A r \in Requests : rows[r] = "completado" =>
    \E i \in DOMAIN file : \E j \in DOMAIN file[i] :
      file[i][j].request = r /\ made[file[i][j].txid].to = r

PaysItsRow(tx) == tx.to \notin Invalid /\ SameAmount(tx.amount, Monto[tx.to])

(* A payment that nobody asked sign_withdrawal for pays what the row of    *)
(* its request says, to the last digit, and a row that the code rejects    *)
(* has none; and no row is reported as completed on account of a payment   *)
(* of any other amount, whatever sign_withdrawal was asked for before.     *)
PaysWhatIsAsked ==
  /\ \A t \in confirmed \ overRpc : PaysItsRow(made[t])
  /\ \A r \in Requests : rows[r] = "completado" =>
       \E i \in DOMAIN file : \E j \in DOMAIN file[i] :
         LET tx == made[file[i][j].txid] IN tx.to = r /\ PaysItsRow(tx)

(* The outcome of every request is reported in the end, though requests    *)
(* want the same outputs and are refused until a block has the first;      *)
(* unless the journal no longer loads, a line that it could not take has   *)
(* ended the poll, the funds no longer suffice, or somebody else had it    *)
(* signed with a fee or another amount, which the poll takes for an error  *)
(* at every tick: such a row stays unreported though it is paid.           *)
AllReported ==
  \A r \in Requests :
    <>(\/ rows[r] = IF r \in Invalid THEN "fallido" ELSE "completado"
       \/ ~alive \/ ~polling \/ SumOf(Unspent, AmountOf) < Amount[r]
       \/ r \in DOMAIN entries /\ ~Repeated(r, Amount[r], 0))
=============================================================================
