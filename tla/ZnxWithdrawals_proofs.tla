----------------------- MODULE ZnxWithdrawals_proofs -----------------------
(***************************************************************************)
(* The withdrawals of znx-custody, for any number of requests, faults and  *)
(* funds: what is reported as completed is on disk, what is paid is what   *)
(* was asked for, and only what is lost in a withdrawal is paid again.     *)
(***************************************************************************)
EXTENDS ZnxWithdrawals, SequenceTheorems, ZnxSums_proofs

Values(s) == {s[i] : i \in DOMAIN s}
IsSeq(s)  == s \in Seq(Values(s))

Paid(t, r) == t \in DOMAIN made /\ made[t].to = r

Journaled(r) ==
  \E i \in DOMAIN file : \E j \in DOMAIN file[i] :
    file[i][j].request = r /\ Paid(file[i][j].txid, r)

Shape ==
  /\ IsSeq(made) /\ IsSeq(file)
  /\ \A i \in DOMAIN file : IsSeq(file[i])
  /\ ~terminated => file # <<>>
  /\ DOMAIN rows = Requests
  /\ DOMAIN withdrawal = {"step", "caller", "request", "amount", "fee", "tx", "txid"}

(* Each line is about a transaction that pays the request it names.        *)
LinesInv ==
  \A i \in DOMAIN file : \A j \in DOMAIN file[i] :
    Paid(file[i][j].txid, file[i][j].request)

WithdrawalInv ==
  /\ withdrawal.step = "submit" => withdrawal.tx.to = withdrawal.request
  /\ withdrawal.step = "line" => Paid(withdrawal.txid, withdrawal.request)
  /\ withdrawal.step = "newline" => Journaled(withdrawal.request)

(* What the process takes for paid, and what it reports, is on disk.       *)
MemoryInv ==
  /\ \A r \in DOMAIN entries : Journaled(r)
  /\ reporting \notin Invalid \cup {NoOne} => Journaled(reporting)

RowsInv == \A r \in Requests : rows[r] = "completado" => Journaled(r)

Inv == Shape /\ LinesInv /\ WithdrawalInv /\ MemoryInv /\ RowsInv

-----------------------------------------------------------------------------
LEMMA Appending ==
  ASSUME NEW s, IsSeq(s), NEW e
  PROVE  /\ IsSeq(Append(s, e))
         /\ Len(s) \in Nat /\ DOMAIN s = 1..Len(s)
         /\ DOMAIN Append(s, e) = 1..Len(s) + 1
         /\ \A i \in DOMAIN s : Append(s, e)[i] = s[i]
         /\ Append(s, e)[Len(s) + 1] = e
<1> DEFINE S == Values(s) \cup {e}
<1>1. s \in Seq(S) /\ e \in S
  BY DEF IsSeq
<1>2. /\ Len(s) \in Nat /\ DOMAIN s = 1..Len(s)
      /\ DOMAIN Append(s, e) = 1..Len(s) + 1 /\ Len(Append(s, e)) = Len(s) + 1
      /\ \A i \in DOMAIN s : Append(s, e)[i] = s[i]
      /\ Append(s, e)[Len(s) + 1] = e
  <2> HIDE DEF S
  <2> QED
    BY <1>1
<1>3. IsSeq(Append(s, e))
  <2>1. Append(s, e) \in Seq(S)
    <3> HIDE DEF S
    <3> QED
      BY <1>1
  <2>2. PICK t, n : t = Append(s, e) /\ n = Len(s) + 1
    OBVIOUS
  <2>3. t \in [1..n -> S] /\ n \in Nat
    <3> HIDE DEF S
    <3> QED
      BY <1>2, <2>1, <2>2, LenProperties
  <2>4. t \in [1..n -> Values(t)]
    BY <2>3 DEF Values
  <2>5. t \in Seq(Values(t))
    BY <2>3, <2>4
  <2> QED
    BY <2>2, <2>5 DEF IsSeq
<1> QED
  BY <1>2, <1>3

LEMMA EmptyIsSeq == IsSeq(<<>>)
BY DEF IsSeq

-----------------------------------------------------------------------------
(* The node forgets no transaction.                                        *)
Remembers ==
  /\ IsSeq(made') /\ DOMAIN made \subseteq DOMAIN made'
  /\ \A t \in DOMAIN made : made'[t] = made[t]

LEMMA Admitting ==
  ASSUME Shape, NEW tx, Admit(tx)
  PROVE  /\ Remembers
         /\ TxidOf(tx) \in DOMAIN made' /\ made'[TxidOf(tx)] = tx
<1>1. IsSeq(made)
  BY DEF Shape
<1>2. CASE \E t \in DOMAIN made : made[t] = tx
  <2>1. TxidOf(tx) \in DOMAIN made /\ made[TxidOf(tx)] = tx
    BY <1>2 DEF TxidOf
  <2>2. made' = made
    BY <2>1 DEF Admit
  <2> QED
    BY <1>1, <2>1, <2>2 DEF Remembers
<1>3. CASE ~\E t \in DOMAIN made : made[t] = tx
  <2>1. TxidOf(tx) = Len(made) + 1
    BY <1>3 DEF TxidOf
  <2>2. TxidOf(tx) \notin DOMAIN made
    BY <1>1, <2>1, Appending
  <2>3. made' = Append(made, tx)
    BY <2>2 DEF Admit
  <2> QED
    BY <1>1, <2>1, <2>3, Appending DEF Remembers
<1> QED
  BY <1>2, <1>3

LEMMA MoreTransactions ==
  ASSUME LinesInv, Remembers, file' = file
  PROVE  LinesInv' /\ \A r : Journaled(r) => Journaled(r)'
BY DEF LinesInv, Remembers, Journaled, Paid

LEMMA SameJournal ==
  ASSUME LinesInv, made' = made, file' = file
  PROVE  LinesInv' /\ \A r : Journaled(r) => Journaled(r)'
BY DEF LinesInv, Journaled, Paid

-----------------------------------------------------------------------------
LEMMA InitInv == Init => Inv
<1> SUFFICES ASSUME Init PROVE Inv
  OBVIOUS
<1> USE DEF Init
<1>1. Shape
  BY EmptyIsSeq DEF Shape, NoWithdrawal
<1>2. LinesInv
  BY DEF LinesInv
<1>3. WithdrawalInv
  BY DEF WithdrawalInv, NoWithdrawal
<1>4. MemoryInv
  BY DEF MemoryInv, NoEntries
<1>5. RowsInv
  BY DEF RowsInv
<1> QED
  BY <1>1, <1>2, <1>3, <1>4, <1>5 DEF Inv

(* Steps that touch neither the journal nor the transactions.              *)
LEMMA OtherSteps ==
  ASSUME Inv, made' = made, file' = file, terminated' = terminated, rows' = rows,
         entries' = entries, withdrawal' = withdrawal, reporting' = reporting
  PROVE  Inv'
<1>1. LinesInv' /\ \A r : Journaled(r) => Journaled(r)'
  BY SameJournal DEF Inv
<1>2. Shape'
  BY DEF Inv, Shape
<1>3. WithdrawalInv'
  BY <1>1 DEF Inv, WithdrawalInv, Paid
<1>4. MemoryInv'
  BY <1>1 DEF Inv, MemoryInv, Invalid, Amount
<1>5. RowsInv'
  BY <1>1 DEF Inv, RowsInv
<1> QED
  BY <1>1, <1>2, <1>3, <1>4, <1>5 DEF Inv

(* Steps of a withdrawal before its line, and of its callers: they leave   *)
(* the journal alone, and what they report is in it.                       *)
LEMMA CallSteps ==
  ASSUME Inv, Remembers, file' = file, terminated' = terminated, rows' = rows,
         DOMAIN entries' \subseteq DOMAIN entries, DOMAIN withdrawal' = DOMAIN withdrawal,
         WithdrawalInv',
         reporting' \notin Invalid \cup {NoOne} => Journaled(reporting')
  PROVE  Inv'
<1>1. LinesInv' /\ \A r : Journaled(r) => Journaled(r)'
  BY MoreTransactions DEF Inv
<1>2. Shape'
  BY DEF Inv, Shape, Remembers
<1>3. MemoryInv'
  <2>1. \A r \in DOMAIN entries' : Journaled(r)'
    BY <1>1 DEF Inv, MemoryInv
  <2>2. ASSUME NEW r, r = reporting', r \notin Invalid \cup {NoOne}
        PROVE  Journaled(r)'
    <3>1. Journaled(r)
      BY <2>2
    <3> QED
      BY <1>1, <3>1
  <2> QED
    BY <2>1, <2>2 DEF MemoryInv, Invalid, Amount
<1>4. RowsInv'
  BY <1>1 DEF Inv, RowsInv
<1> QED
  BY <1>1, <1>2, <1>3, <1>4 DEF Inv

LEMMA Idle ==
  ASSUME Shape, withdrawal' = NoWithdrawal
  PROVE  DOMAIN withdrawal' = DOMAIN withdrawal /\ WithdrawalInv'
BY DEF Shape, NoWithdrawal, WithdrawalInv

LEMMA Starting ==
  ASSUME Shape, NEW caller, NEW r, NEW amount, NEW fee, Start(caller, r, amount, fee)
  PROVE  DOMAIN withdrawal' = DOMAIN withdrawal /\ WithdrawalInv'
<1>1. CASE r \in DOMAIN entries
  BY <1>1, Idle DEF Start
<1>2. CASE r \notin DOMAIN entries
  BY <1>2 DEF Start, Begin, NoWithdrawal, WithdrawalInv, Shape
<1> QED
  BY <1>1, <1>2

LEMMA Unmade == ASSUME Shape, made' = made PROVE Remembers
BY DEF Remembers, Shape

-----------------------------------------------------------------------------
(* AppendLine puts an entry at the end of the last line, a new one if that *)
(* has its newline, and leaves the others as they are.                     *)
LineAdded(k, e) ==
  /\ k \in DOMAIN file'
  /\ IsSeq(file') /\ DOMAIN file \subseteq DOMAIN file'
  /\ \A i \in DOMAIN file' : i # k => i \in DOMAIN file /\ file'[i] = file[i]
  /\ IsSeq(file'[k])
  /\ \E j \in DOMAIN file'[k] : file'[k][j] = e
  /\ k \in DOMAIN file => /\ DOMAIN file[k] \subseteq DOMAIN file'[k]
                          /\ \A j \in DOMAIN file[k] : file'[k][j] = file[k][j]
  /\ \A j \in DOMAIN file'[k] :
       \/ file'[k][j] = e
       \/ k \in DOMAIN file /\ j \in DOMAIN file[k] /\ file'[k][j] = file[k][j]

LEMMA AppendedLine ==
  ASSUME Shape, AppendLine
  PROVE  \E k : LineAdded(k, EntryOf(withdrawal))
<1> DEFINE e == EntryOf(withdrawal)
<1>1. withdrawal.step = "line" /\ terminated' = FALSE
  BY DEF AppendLine
<1>2. IsSeq(file) /\ Len(file) \in Nat /\ DOMAIN file = 1..Len(file)
  BY Appending DEF Shape
<1>4. \E k :
        /\ k \in DOMAIN file'
        /\ IsSeq(file') /\ DOMAIN file \subseteq DOMAIN file'
        /\ \A i \in DOMAIN file' : i # k => i \in DOMAIN file /\ file'[i] = file[i]
        /\ IsSeq(file'[k])
        /\ \E j \in DOMAIN file'[k] : file'[k][j] = e
        /\ k \in DOMAIN file => /\ DOMAIN file[k] \subseteq DOMAIN file'[k]
                                /\ \A j \in DOMAIN file[k] : file'[k][j] = file[k][j]
        /\ \A j \in DOMAIN file'[k] :
             \/ file'[k][j] = e
             \/ k \in DOMAIN file /\ j \in DOMAIN file[k] /\ file'[k][j] = file[k][j]
  <2>1. CASE terminated
    <3>1. PICK l : l = <<e>>
      OBVIOUS
    <3>2. IsSeq(l) /\ DOMAIN l = {1} /\ l[1] = e
      BY <3>1, EmptyIsSeq DEF IsSeq, Values
    <3>3. file' = Append(file, l)
      BY <2>1, <3>1 DEF AppendLine
    <3>4. /\ IsSeq(file') /\ DOMAIN file' = 1..Len(file) + 1
          /\ \A i \in DOMAIN file : file'[i] = file[i]
          /\ file'[Len(file) + 1] = l
      BY <1>2, <3>3, Appending
    <3> HIDE DEF e
    <3> QED
      BY <1>2, <3>2, <3>4
  <2>2. CASE ~terminated
    <3>1. PICK k : k = Len(file)
      OBVIOUS
    <3>2. k \in DOMAIN file /\ IsSeq(file[k])
      BY <1>2, <2>2, <3>1 DEF Shape, IsSeq
    <3>3. PICK l : l = Append(file[k], e)
      OBVIOUS
    <3>4. /\ IsSeq(l) /\ DOMAIN file[k] \subseteq DOMAIN l
          /\ \A j \in DOMAIN file[k] : l[j] = file[k][j]
          /\ \E j \in DOMAIN l : l[j] = e
          /\ \A j \in DOMAIN l : l[j] = e \/ j \in DOMAIN file[k]
      <4>1. /\ IsSeq(l) /\ Len(file[k]) \in Nat /\ DOMAIN file[k] = 1..Len(file[k])
            /\ DOMAIN l = 1..Len(file[k]) + 1
            /\ \A j \in DOMAIN file[k] : l[j] = file[k][j]
            /\ l[Len(file[k]) + 1] = e
        BY <3>2, <3>3, Appending
      <4> HIDE DEF e
      <4> QED
        BY <4>1
    <3>5. file' = [file EXCEPT ![k] = l]
      BY <2>2, <3>1, <3>3 DEF AppendLine
    <3>6. DOMAIN file' = DOMAIN file /\ file'[k] = l
          /\ \A i \in DOMAIN file : i # k => file'[i] = file[i]
      BY <1>2, <3>2, <3>5 DEF IsSeq
    <3>7. IsSeq(file')
      <4>1. file' = [i \in 1..Len(file) |-> file'[i]]
        BY <1>2, <3>5, <3>6 DEF IsSeq
      <4>2. file' \in [1..Len(file) -> Values(file')]
        BY <1>2, <3>6, <4>1 DEF Values
      <4> QED
        BY <1>2, <4>2 DEF IsSeq
    <3> HIDE DEF e
    <3> QED
      BY <3>2, <3>4, <3>6, <3>7
  <2> QED
    BY <2>1, <2>2
<1> HIDE DEF e
<1>5. PICK k :
        /\ k \in DOMAIN file'
        /\ IsSeq(file') /\ DOMAIN file \subseteq DOMAIN file'
        /\ \A i \in DOMAIN file' : i # k => i \in DOMAIN file /\ file'[i] = file[i]
        /\ IsSeq(file'[k])
        /\ \E j \in DOMAIN file'[k] : file'[k][j] = e
        /\ k \in DOMAIN file => /\ DOMAIN file[k] \subseteq DOMAIN file'[k]
                                /\ \A j \in DOMAIN file[k] : file'[k][j] = file[k][j]
        /\ \A j \in DOMAIN file'[k] :
             \/ file'[k][j] = e
             \/ k \in DOMAIN file /\ j \in DOMAIN file[k] /\ file'[k][j] = file[k][j]
  BY <1>4
<1>6. LineAdded(k, e)
  BY <1>5 DEF LineAdded
<1> QED
  BY <1>6 DEF e

LEMMA AppendLineInv == Inv /\ AppendLine => Inv'
<1> SUFFICES ASSUME Inv, AppendLine PROVE Inv'
  OBVIOUS
<1> DEFINE e == EntryOf(withdrawal)
           r == withdrawal.request
<1>1. /\ withdrawal.step = "line" /\ terminated' = FALSE
      /\ withdrawal' = [withdrawal EXCEPT !.step = "newline"]
      /\ UNCHANGED <<made, rows, entries, reporting>>
  BY DEF AppendLine, node
<1>2. IsSeq(file) /\ Len(file) \in Nat /\ DOMAIN file = 1..Len(file)
  BY Appending DEF Inv, Shape
<1>3. e.request = r /\ Paid(e.txid, r)
  BY <1>1 DEF EntryOf, Inv, WithdrawalInv
<1>4a. PICK k : LineAdded(k, e)
  BY AppendedLine DEF Inv
<1>4. /\ k \in DOMAIN file'
      /\ IsSeq(file') /\ DOMAIN file \subseteq DOMAIN file'
      /\ \A i \in DOMAIN file' : i # k => i \in DOMAIN file /\ file'[i] = file[i]
      /\ IsSeq(file'[k])
      /\ \E j \in DOMAIN file'[k] : file'[k][j] = e
      /\ k \in DOMAIN file => /\ DOMAIN file[k] \subseteq DOMAIN file'[k]
                              /\ \A j \in DOMAIN file[k] : file'[k][j] = file[k][j]
      /\ \A j \in DOMAIN file'[k] :
           \/ file'[k][j] = e
           \/ k \in DOMAIN file /\ j \in DOMAIN file[k] /\ file'[k][j] = file[k][j]
  <2> HIDE DEF e
  <2> QED
    BY <1>4a DEF LineAdded
<1>5. LinesInv'
  <2> SUFFICES ASSUME NEW i \in DOMAIN file', NEW j \in DOMAIN file'[i]
               PROVE  Paid(file'[i][j].txid, file'[i][j].request)
    BY <1>1 DEF LinesInv, Paid
  <2>1. CASE i = k /\ file'[i][j] = e
    BY <1>3, <2>1
  <2>2. CASE i \in DOMAIN file /\ j \in DOMAIN file[i] /\ file'[i][j] = file[i][j]
    BY <2>2 DEF Inv, LinesInv
  <2> HIDE DEF e
  <2> QED
    BY <1>4, <2>1, <2>2
<1>6. ASSUME NEW q, Journaled(q)
      PROVE  Journaled(q)'
  <2>1. PICK i \in DOMAIN file : \E j \in DOMAIN file[i] :
               file[i][j].request = q /\ Paid(file[i][j].txid, q)
    BY <1>6 DEF Journaled
  <2>2. PICK j \in DOMAIN file[i] : file[i][j].request = q /\ Paid(file[i][j].txid, q)
    BY <2>1
  <2>3. i \in DOMAIN file' /\ j \in DOMAIN file'[i] /\ file'[i][j] = file[i][j]
    <3> HIDE DEF e
    <3> QED
      BY <1>4
  <2> QED
    BY <1>1, <2>2, <2>3 DEF Journaled, Paid
<1>7. Journaled(r)'
  <2>1. PICK j \in DOMAIN file'[k] : file'[k][j] = e
    BY <1>4
  <2>2. k \in DOMAIN file' /\ file'[k][j].request = r /\ Paid(file'[k][j].txid, r)
    BY <1>3, <1>4, <2>1
  <2>3. r' = r
    BY <1>1 DEF Inv, Shape
  <2> QED
    BY <1>1, <2>2, <2>3 DEF Journaled, Paid
<1>8. Shape'
  <2>1. \A i \in DOMAIN file' : IsSeq(file'[i])
    <3> HIDE DEF e
    <3> QED
      BY <1>4 DEF Inv, Shape
  <2>2. IsSeq(file') /\ file' # <<>>
    <3> HIDE DEF e
    <3> QED
      BY <1>4
  <2> QED
    BY <1>1, <2>1, <2>2 DEF Inv, Shape
<1>9. WithdrawalInv'
  BY <1>1, <1>7 DEF WithdrawalInv, Inv, Shape
<1>10. MemoryInv'
  BY <1>1, <1>6 DEF MemoryInv, Inv, Invalid, Amount
<1>11. RowsInv'
  BY <1>1, <1>6 DEF RowsInv, Inv
<1> QED
  BY <1>5, <1>8, <1>9, <1>10, <1>11 DEF Inv

LEMMA AppendNewlineInv == Inv /\ AppendNewline => Inv'
<1> SUFFICES ASSUME Inv, AppendNewline PROVE Inv'
  OBVIOUS
<1>1. /\ withdrawal.step = "newline" /\ terminated' = TRUE /\ withdrawal' = NoWithdrawal
      /\ DOMAIN entries' = {withdrawal.request} \cup DOMAIN entries
      /\ reporting' = IF withdrawal.caller = "poll" THEN withdrawal.request ELSE reporting
      /\ UNCHANGED <<made, rows, file>>
  BY DEF AppendNewline, node
<1>2. LinesInv' /\ \A r : Journaled(r) => Journaled(r)'
  BY <1>1, SameJournal DEF Inv
<1>3. Journaled(withdrawal.request)
  BY <1>1 DEF Inv, WithdrawalInv
<1>5. \A r \in DOMAIN entries' : Journaled(r)'
  BY <1>1, <1>2, <1>3 DEF Inv, MemoryInv
<1>6. ASSUME NEW r, r = reporting', r \notin Invalid \cup {NoOne}
      PROVE  Journaled(r)'
  <2>1. r = withdrawal.request \/ r = reporting
    BY <1>1, <1>6
  <2>2. Journaled(r)
    BY <1>3, <1>6, <2>1 DEF Inv, MemoryInv
  <2> QED
    BY <1>2, <2>2
<1>7. MemoryInv'
  BY <1>5, <1>6 DEF MemoryInv, Invalid, Amount
<1>8. Shape' /\ WithdrawalInv'
  BY <1>1 DEF Inv, Shape, NoWithdrawal, WithdrawalInv
<1>9. RowsInv'
  BY <1>1, <1>2 DEF Inv, RowsInv
<1> QED
  BY <1>2, <1>7, <1>8, <1>9 DEF Inv

-----------------------------------------------------------------------------
LEMMA SubmitInv ==
  ASSUME Inv, withdrawal.step = "submit", Admit(withdrawal.tx),
         \/ withdrawal' = NoWithdrawal
         \/ withdrawal' = [withdrawal EXCEPT !.step = "line", !.txid = TxidOf(withdrawal.tx)],
         UNCHANGED <<rows, journal, entries, queue, reporting, polling, alive>>
  PROVE  Inv'
<1>1. PICK tx : tx = withdrawal.tx
  OBVIOUS
<1>2. /\ Remembers
      /\ TxidOf(tx) \in DOMAIN made' /\ made'[TxidOf(tx)] = tx
  BY <1>1, Admitting DEF Inv
<1>3. tx.to = withdrawal.request
  BY <1>1 DEF Inv, WithdrawalInv
<1>4. DOMAIN withdrawal' = DOMAIN withdrawal /\ WithdrawalInv'
  <2>1. CASE withdrawal' = NoWithdrawal
    BY <2>1, Idle DEF Inv
  <2>2. CASE withdrawal' = [withdrawal EXCEPT !.step = "line", !.txid = TxidOf(withdrawal.tx)]
    <3>1. /\ DOMAIN withdrawal' = DOMAIN withdrawal
          /\ withdrawal'.step = "line" /\ withdrawal'.txid = TxidOf(tx)
          /\ withdrawal'.request = withdrawal.request
      BY <1>1, <2>2 DEF Inv, Shape
    <3> QED
      BY <1>2, <1>3, <3>1 DEF WithdrawalInv, Paid
  <2> QED
    BY <2>1, <2>2
<1>5. reporting' \notin Invalid \cup {NoOne} => Journaled(reporting')
  BY DEF Inv, MemoryInv
<1> QED
  BY <1>2, <1>4, <1>5, CallSteps DEF journal

LEMMA WithdrawalInvKept ==
  ASSUME Inv, ListUnspent \/ SubmitTransaction \/ ListFails \/ AnswerLost \/ JournalFails
  PROVE  Inv'
<1>1. reporting' = reporting => (reporting' \notin Invalid \cup {NoOne} => Journaled(reporting'))
  BY DEF Inv, MemoryInv
<1>2. CASE ListUnspent
  <2>1. DOMAIN withdrawal' = DOMAIN withdrawal /\ WithdrawalInv'
    <3>1. CASE Fail
      BY <3>1, Idle DEF Fail, Inv
    <3>2. CASE \E s : withdrawal' = [withdrawal EXCEPT !.step = "submit",
                 !.tx = Transfer(s, AmountOf, withdrawal.request,
                                 withdrawal.amount, withdrawal.fee)]
      <4>1. PICK tx : /\ withdrawal' = [withdrawal EXCEPT !.step = "submit", !.tx = tx]
                      /\ tx.to = withdrawal.request
        <5>1. PICK s : withdrawal' = [withdrawal EXCEPT !.step = "submit",
                        !.tx = Transfer(s, AmountOf, withdrawal.request,
                                        withdrawal.amount, withdrawal.fee)]
          BY <3>2
        <5>2. PICK tx : tx = Transfer(s, AmountOf, withdrawal.request,
                                      withdrawal.amount, withdrawal.fee)
          OBVIOUS
        <5>3. tx.to = withdrawal.request
          BY <5>2 DEF Transfer
        <5> QED
          BY <5>1, <5>2, <5>3
      <4>2. /\ DOMAIN withdrawal' = DOMAIN withdrawal
            /\ withdrawal'.step = "submit" /\ withdrawal'.tx = tx
            /\ withdrawal'.request = withdrawal.request
        BY <4>1 DEF Inv, Shape
      <4> QED
        BY <4>1, <4>2 DEF WithdrawalInv
    <3> QED
      BY <1>2, <3>1, <3>2 DEF ListUnspent
  <2>2. UNCHANGED <<made, rows, file, terminated, entries, reporting>>
    BY <1>2 DEF ListUnspent, node, journal
  <2> QED
    BY <1>1, <2>1, <2>2, Unmade, CallSteps DEF Inv
<1>3. CASE SubmitTransaction
  <2>1. CASE Admits(withdrawal.tx)
    BY <1>3, <2>1, SubmitInv DEF SubmitTransaction
  <2>2. CASE ~Admits(withdrawal.tx)
    <3>1. withdrawal' = NoWithdrawal
          /\ UNCHANGED <<made, rows, file, terminated, entries, reporting>>
      BY <1>3, <2>2 DEF SubmitTransaction, Fail, node, journal
    <3> QED
      BY <1>1, <3>1, Unmade, Idle, CallSteps DEF Inv
  <2> QED
    BY <2>1, <2>2
<1>4. CASE ListFails \/ JournalFails
  <2>1. withdrawal' = NoWithdrawal
        /\ UNCHANGED <<made, rows, file, terminated, entries, reporting>>
    BY <1>4 DEF ListFails, JournalFails, Fail, node, journal
  <2> QED
    BY <1>1, <2>1, Unmade, Idle, CallSteps DEF Inv
<1>5. CASE AnswerLost
  BY <1>5, SubmitInv DEF AnswerLost, Fail
<1> QED
  BY <1>2, <1>3, <1>4, <1>5

LEMMA CallersInv ==
  ASSUME Inv, NEW r \in Requests,
         \/ \E amount \in Amounts, fee \in Fees : SignWithdrawal(r, amount, fee)
         \/ ProcesarRetiro(r) \/ RechazarRetiro(r)
  PROVE  Inv'
<1>1. reporting' = reporting => (reporting' \notin Invalid \cup {NoOne} => Journaled(reporting'))
  BY DEF Inv, MemoryInv
<1>2. ASSUME NEW amount \in Amounts, NEW fee \in Fees, SignWithdrawal(r, amount, fee)
      PROVE  Inv'
  <2>1. UNCHANGED <<made, rows, file, terminated, entries, reporting>>
    BY <1>2 DEF SignWithdrawal, node, journal
  <2>2. DOMAIN withdrawal' = DOMAIN withdrawal /\ WithdrawalInv'
    BY <1>2, Starting DEF SignWithdrawal, Inv
  <2> QED
    BY <1>1, <2>1, <2>2, Unmade, CallSteps DEF Inv
<1>3. CASE ProcesarRetiro(r)
  <2>1. UNCHANGED <<made, rows, file, terminated, entries>>
    BY <1>3 DEF ProcesarRetiro, node, journal
  <2>2. DOMAIN withdrawal' = DOMAIN withdrawal /\ WithdrawalInv'
    BY <1>3, Starting DEF ProcesarRetiro, Inv
  <2>3. reporting' \notin Invalid \cup {NoOne} => Journaled(reporting')
    BY <1>3 DEF ProcesarRetiro, Repeated, Inv, MemoryInv
  <2> QED
    BY <2>1, <2>2, <2>3, Unmade, CallSteps DEF Inv
<1>4. CASE RechazarRetiro(r)
  <2>1. UNCHANGED <<made, rows, file, terminated, entries, withdrawal>> /\ reporting' \in Invalid
    BY <1>4 DEF RechazarRetiro, node, journal
  <2>2. WithdrawalInv'
    BY <2>1, SameJournal DEF Inv, WithdrawalInv, Paid
  <2> QED
    BY <2>1, <2>2, Unmade, CallSteps DEF Inv
<1> QED
  BY <1>2, <1>3, <1>4

LEMMA ReportingInv == Inv /\ (ReportarResultado \/ ReportFails) => Inv'
<1> SUFFICES ASSUME Inv, ReportarResultado \/ ReportFails PROVE Inv'
  OBVIOUS
<1>1. UNCHANGED <<made, file, terminated, entries, withdrawal>> /\ reporting' = NoOne
  BY DEF ReportarResultado, ReportFails, node, journal
<1>2. LinesInv' /\ \A r : Journaled(r) => Journaled(r)'
  BY <1>1, SameJournal DEF Inv
<1>3. DOMAIN rows' = Requests /\ RowsInv'
  <2>1. CASE ReportarResultado
    <3>1. DOMAIN rows' = Requests
      BY <2>1 DEF ReportarResultado, Inv, Shape
    <3>2. ASSUME NEW r \in Requests, rows'[r] = "completado"
          PROVE  Journaled(r)
      <4>1. CASE r = reporting
        <5>1. r \notin Invalid /\ reporting # NoOne
          BY <2>1, <3>2, <4>1 DEF ReportarResultado, Inv, Shape
        <5> QED
          BY <4>1, <5>1 DEF Inv, MemoryInv
      <4>2. CASE r # reporting
        <5>1. rows[r] = "completado"
          BY <2>1, <3>2, <4>2 DEF ReportarResultado, Inv, Shape
        <5> QED
          BY <5>1 DEF Inv, RowsInv
      <4> QED
        BY <4>1, <4>2
    <3> QED
      BY <1>2, <3>1, <3>2 DEF RowsInv
  <2>2. CASE ReportFails
    BY <1>2, <2>2 DEF ReportFails, Inv, Shape, RowsInv
  <2> QED
    BY <2>1, <2>2
<1>4. Shape'
  BY <1>1, <1>3 DEF Inv, Shape
<1>5. WithdrawalInv'
  BY <1>1, <1>2 DEF Inv, WithdrawalInv, Paid
<1>6. MemoryInv'
  BY <1>1, <1>2 DEF Inv, MemoryInv
<1> QED
  BY <1>2, <1>3, <1>4, <1>5, <1>6 DEF Inv

(* A journal that loads gives back requests that are on disk.              *)
LEMMA CrashInv == Inv /\ CustodyCrash => Inv'
<1> SUFFICES ASSUME Inv, CustodyCrash PROVE Inv'
  OBVIOUS
<1>1. /\ UNCHANGED <<made, rows, file, terminated>>
      /\ entries' = IF Loads THEN Loaded ELSE NoEntries
      /\ withdrawal' = NoWithdrawal /\ reporting' = NoOne
  BY DEF CustodyCrash, node, journal
<1>2. LinesInv' /\ \A r : Journaled(r) => Journaled(r)'
  BY <1>1, SameJournal DEF Inv
<1>3. ASSUME Loads, NEW r \in DOMAIN Loaded
      PROVE  Journaled(r)
  <2>1. PICK i \in DOMAIN file : r = file[i][1].request
    BY <1>3 DEF Loaded
  <2>2. 1 \in DOMAIN file[i]
    BY <1>3, Appending DEF Loads, Inv, Shape
  <2> QED
    BY <2>1, <2>2 DEF Journaled, Inv, LinesInv
<1>4. \A r \in DOMAIN entries' : Journaled(r)
  BY <1>1, <1>3 DEF NoEntries
<1>5. MemoryInv'
  BY <1>1, <1>2, <1>4 DEF MemoryInv
<1>6. Shape' /\ WithdrawalInv'
  BY <1>1, Idle DEF Inv, Shape, NoWithdrawal
<1>7. RowsInv'
  BY <1>1, <1>2 DEF Inv, RowsInv
<1> QED
  BY <1>2, <1>5, <1>6, <1>7 DEF Inv

LEMMA NextInv == Inv /\ [Next]_vars => Inv'
<1> SUFFICES ASSUME Inv, [Next]_vars PROVE Inv'
  OBVIOUS
<1>1. CASE BuildCandidate \/ BlockMined \/ NoNonce \/ NodeRestart \/ Tick \/ UNCHANGED vars
  <2>1. UNCHANGED <<made, file, terminated, rows, entries, withdrawal, reporting>>
    BY <1>1 DEF BuildCandidate, BlockMined, NoNonce, NodeRestart, Tick, vars, node, journal, memory
  <2> QED
    BY <2>1, OtherSteps
<1>2. CASE WithdrawalStep \/ ListFails \/ AnswerLost \/ JournalFails
  BY <1>2, AppendLineInv, AppendNewlineInv, WithdrawalInvKept DEF WithdrawalStep
<1>3. ASSUME NEW r \in Requests,
             \/ \E amount \in Amounts, fee \in Fees : SignWithdrawal(r, amount, fee)
             \/ ProcesarRetiro(r) \/ RechazarRetiro(r)
      PROVE  Inv'
  BY <1>3, CallersInv
<1>4. CASE ReportarResultado \/ ReportFails \/ CustodyCrash
  BY <1>4, ReportingInv, CrashInv
<1> QED
  BY <1>1, <1>2, <1>3, <1>4 DEF Next

-----------------------------------------------------------------------------
(* A request that was reported as completed is in the journal on disk,     *)
(* with a transaction that pays it, through any crashes, failed calls and  *)
(* lost answers, and whether or not the journal loads again.               *)
THEOREM CompletedAlwaysJournaled == Spec => []CompletedIsJournaled
<1>1. Inv => CompletedIsJournaled
  BY DEF Inv, RowsInv, Journaled, Paid, CompletedIsJournaled
<1>2. Spec => []Inv
  BY InitInv, NextInv, PTL DEF Spec
<1> QED
  BY <1>1, <1>2, PTL

-----------------------------------------------------------------------------
(* Types, and what the transactions of the wallet pay.                     *)
LEMMA ScaleType == Scale \in Nat \ {0} /\ MaxAmt \in Nat
<1>1. 10 \in Nat \ {0} /\ 2 \in Nat \ {0} /\ Decimals \in Nat /\ Width \in Nat
  BY AmountsAssumption
<1>2. Power(10, Decimals) \in Nat \ {0} /\ Power(2, Width) \in Nat \ {0}
  BY <1>1, PowerPositive
<1> QED
  BY <1>2 DEF Scale, MaxAmt

(* What a decimal parses to is what it says.                               *)
LEMMA ParseKeeps ==
  ASSUME NEW d \in DecimalNumber, ParseDecimal(d) # NotAnAmount
  PROVE  ParseDecimal(d) \in Nat \ {0} /\ SameAmount(ParseDecimal(d), d)
<1>1. d.whole \in Nat /\ d.frac \in Nat /\ d.places \in Nat
  BY DEF DecimalNumber
<1>2. ~(d.places > Decimals) /\ Decimals \in Nat
  BY AmountsAssumption DEF ParseDecimal
<1>3. PICK w, f, p, q : w = d.whole /\ f = d.frac /\ p = Power(10, d.places)
                        /\ q = Power(10, Decimals - d.places)
  OBVIOUS
<1>4. p \in Nat /\ q \in Nat /\ Scale = q * p /\ w \in Nat /\ f \in Nat
  <2>1. 10 \in Nat /\ Decimals - d.places \in Nat /\ (Decimals - d.places) + d.places = Decimals
    BY <1>1, <1>2
  <2>2. p \in Nat /\ q \in Nat
    BY <1>1, <1>3, <2>1, PowerSteps
  <2>3. Power(10, (Decimals - d.places) + d.places) = q * p
    BY <1>1, <1>3, <2>1, PowerAdds
  <2> QED
    BY <1>1, <1>3, <2>1, <2>2, <2>3 DEF Scale
<1>5. PICK total : total = w * Scale + f * q
  OBVIOUS
<1>6. ParseDecimal(d) = total /\ total \in 1..MaxAmt
  BY <1>2, <1>3, <1>5 DEF ParseDecimal
<1>7. total \in Nat \ {0}
  BY <1>6, ScaleType
<1>8. (w * (q * p) + f * q) * p = (w * p + f) * (q * p)
  <2>1. (w * (q * p) + f * q) * p = (w * (q * p)) * p + (f * q) * p
    BY <1>4
  <2>2. (w * p + f) * (q * p) = (w * p) * (q * p) + f * (q * p)
    BY <1>4
  <2>3. (w * (q * p)) * p = (w * p) * (q * p) /\ (f * q) * p = f * (q * p)
    BY <1>4
  <2> QED
    BY <2>1, <2>2, <2>3
<1>9. total * p = (w * p + f) * Scale
  BY <1>4, <1>5, <1>8
<1> QED
  BY <1>3, <1>6, <1>7, <1>9 DEF SameAmount

LEMMA AmountType ==
  ASSUME NEW r \in Requests \ Invalid
  PROVE  Amount[r] \in Nat /\ SameAmount(Amount[r], Monto[r])
<1>1. Monto[r] \in DecimalNumber
  BY WithdrawalsAssumption
<1>2. Amount[r] = ParseDecimal(Monto[r]) /\ Amount[r] # NotAnAmount
  BY DEF Amount, Invalid
<1> QED
  BY <1>1, <1>2, ParseKeeps

(* A transaction of the wallet pays a request, and what its row asks for   *)
(* unless it is sign_withdrawal that asked for it.                         *)
TxOK(tx) == tx.to \in Requests /\ tx.change \in Nat

AsTheRow(r, amount) == r \notin Invalid /\ amount = Amount[r]

TxsOK ==
  \A t \in Txids : TxOK(made[t]) /\ (t \notin overRpc => AsTheRow(made[t].to, made[t].amount))

(* The wallet has finitely many coins, each of some amount.                *)
LEMMA CoinTypes ==
  ASSUME Shape, TxsOK
  PROVE  IsFiniteSet(Coins) /\ AmountOf \in [Coins -> Nat]
<1>1. Len(made) \in Nat /\ DOMAIN made = 1..Len(made)
  BY Appending DEF Shape
<1>2. Len(Funds) \in Nat /\ DOMAIN Funds = 1..Len(Funds) /\ \A i \in DOMAIN Funds : Funds[i] \in Nat
  BY WithdrawalsAssumption
<1>3. PICK A, B : A = 0..Len(made) /\ B = 0..Len(Funds) + 2
  OBVIOUS
<1>4. IsFiniteSet(A \X B)
  <2>1. IsFiniteSet(A)
    BY <1>1, <1>3, FS_Interval
  <2>2. IsFiniteSet(B)
    <3>1. 0 \in Int /\ Len(Funds) + 2 \in Int
      BY <1>2
    <3> QED
      BY <1>3, <3>1, FS_Interval
  <2> QED
    BY <2>1, <2>2, FS_Product
<1>5. Coins \subseteq A \X B
  <2>1. \A i \in DOMAIN Funds : 0 \in A /\ i \in B
    BY <1>1, <1>2, <1>3
  <2>2. \A t \in DOMAIN made : t \in A /\ 2 \in B
    BY <1>1, <1>2, <1>3
  <2> QED
    BY <2>1, <2>2 DEF Coins
<1>6. ASSUME NEW c \in Coins
      PROVE  AmountOf[c] \in Nat
  <2>1. CASE c \in {<<0, i>> : i \in DOMAIN Funds}
    <3>1. PICK i \in DOMAIN Funds : c = <<0, i>>
      BY <2>1
    <3> QED
      BY <1>2, <3>1 DEF AmountOf
  <2>2. CASE c \in {<<t, 2>> : t \in {u \in DOMAIN made : made[u].change > 0}}
    <3>1. PICK t \in DOMAIN made : c = <<t, 2>>
      BY <2>2
    <3>2. t # 0 /\ made[t].change \in Nat
      BY <1>1 DEF TxsOK, TxOK, Txids
    <3> QED
      BY <3>1, <3>2 DEF AmountOf
  <2> QED
    BY <2>1, <2>2 DEF Coins
<1> QED
  BY <1>4, <1>5, <1>6, FS_Subset DEF AmountOf

(* What it selects suffices, so that the change is not negative.           *)
LEMMA TransferOK ==
  ASSUME Shape, TxsOK, NEW r \in Requests, NEW amount \in Nat, NEW fee \in Nat,
         NEW s \in Selections(Unspent, AmountOf, amount + fee), NEW tx,
         tx = Transfer(s, AmountOf, r, amount, fee)
  PROVE  TxOK(tx) /\ tx.to = r /\ tx.amount = amount
<1>1. s \subseteq Coins /\ SumOf(s, AmountOf) >= amount + fee
  BY DEF Selections, Unspent
<1>2. PICK f : f = [c \in s |-> AmountOf[c]]
  OBVIOUS
<1>3. IsFiniteSet(s) /\ f \in [s -> Int]
  BY <1>1, <1>2, CoinTypes, FS_Subset
<1>4. SumOf(s, AmountOf) \in Int
  BY <1>2, <1>3, SumType DEF SumOf
<1>5. SumOf(s, AmountOf) - (amount + fee) \in Nat
  BY <1>1, <1>4
<1> QED
  BY <1>5 DEF Transfer, TxOK

-----------------------------------------------------------------------------
Steps == {"free", "list", "submit", "line", "newline"}

(* What a withdrawal under way will pay, pays or has paid.                 *)
CallOK ==
  /\ withdrawal.step \in Steps
  /\ withdrawal.step # "free" =>
       /\ withdrawal.request \in Requests
       /\ withdrawal.amount \in Nat /\ withdrawal.fee \in Fees
       /\ withdrawal.caller # "rpc" => AsTheRow(withdrawal.request, withdrawal.amount)
  /\ withdrawal.step = "submit" =>
       /\ TxOK(withdrawal.tx)
       /\ withdrawal.tx.to = withdrawal.request /\ withdrawal.tx.amount = withdrawal.amount
  /\ withdrawal.step \in {"line", "newline"} =>
       withdrawal.txid \in Txids /\ made[withdrawal.txid].amount = withdrawal.amount

NodeOK ==
  /\ mempool \subseteq Txids /\ candidate \subseteq Txids /\ confirmed \subseteq Txids
  /\ overRpc \subseteq Txids

Lines == UNION {Values(file[i]) : i \in DOMAIN file}

LinesOK == \A e \in Lines : e.request \in Requests /\ e.txid \in Txids /\ e.fee \in Fees

MemoryOK ==
  /\ DOMAIN entries \subseteq Requests /\ \A r \in DOMAIN entries : entries[r].txid \in Txids
  /\ queue \subseteq Requests /\ reporting \in Requests \cup {NoOne}
  /\ polling \in BOOLEAN /\ alive \in BOOLEAN /\ terminated \in BOOLEAN

RowsOK == rows \in [Requests -> {"procesando", "completado", "fallido"}]

FaultsOK == faults \in [FaultKinds -> Nat] /\ SumFunction(faults) <= MaxFaults

TypeInv == TxsOK /\ CallOK /\ NodeOK /\ LinesOK /\ MemoryOK /\ RowsOK /\ FaultsOK

(* A transaction is admitted in the second call to the node, or it is not. *)
LEMMA MadeNext ==
  ASSUME [Next]_vars
  PROVE  \/ made' = made
         \/ withdrawal.step = "submit" /\ Admit(withdrawal.tx)
            /\ (SubmitTransaction \/ AnswerLost)
<1>1. CASE SubmitTransaction
  BY <1>1 DEF SubmitTransaction, node
<1>2. CASE AnswerLost
  BY <1>2 DEF AnswerLost
<1>3. CASE ~SubmitTransaction /\ ~AnswerLost
  BY <1>3 DEF Next, vars, node, BuildCandidate, BlockMined, NoNonce, NodeRestart, WithdrawalStep,
              ListUnspent, AppendLine, AppendNewline, ListFails, JournalFails, SignWithdrawal, ProcesarRetiro,
              RechazarRetiro, Tick, ReportarResultado, ReportFails, CustodyCrash
<1> QED
  BY <1>1, <1>2, <1>3

LEMMA AdmitAdds ==
  ASSUME Shape, NEW tx, Admit(tx)
  PROVE  DOMAIN made' = DOMAIN made \cup {TxidOf(tx)}
<1>1. IsSeq(made) /\ Len(made) \in Nat /\ DOMAIN made = 1..Len(made)
  BY Appending DEF Shape
<1>2. CASE TxidOf(tx) \in DOMAIN made
  BY <1>2 DEF Admit
<1>3. CASE TxidOf(tx) \notin DOMAIN made
  <2>1. TxidOf(tx) = Len(made) + 1
    BY <1>3 DEF TxidOf
  <2>2. made' = Append(made, tx)
    BY <1>3 DEF Admit
  <2>3. DOMAIN made' = 1..Len(made) + 1
    BY <1>1, <2>2, Appending
  <2> QED
    BY <1>1, <2>1, <2>3
<1> QED
  BY <1>2, <1>3

LEMMA SameAmounts == Amount' = Amount /\ Invalid' = Invalid
BY DEF Amount, Invalid, ParseDecimal, Scale, MaxAmt

LEMMA NextTxs ==
  ASSUME Shape, TxsOK, CallOK, [Next]_vars
  PROVE  TxsOK' /\ Txids \subseteq Txids' /\ Remembers
<1>0. overRpc \subseteq overRpc'
  <2>1. Admit(withdrawal.tx) \/ UNCHANGED overRpc
    BY DEF Next, vars, node, BuildCandidate, BlockMined, NoNonce, NodeRestart, WithdrawalStep,
           ListUnspent, SubmitTransaction, AnswerLost, AppendLine, AppendNewline, ListFails,
           JournalFails, SignWithdrawal, ProcesarRetiro, RechazarRetiro, Tick, ReportarResultado,
           ReportFails, CustodyCrash
  <2> QED
    BY <2>1 DEF Admit
<1>1. CASE made' = made
  BY <1>0, <1>1, Unmade, SameAmounts DEF TxsOK, Txids, TxOK, AsTheRow
<1>2. CASE withdrawal.step = "submit" /\ Admit(withdrawal.tx)
  <2>1. PICK tx : tx = withdrawal.tx
    OBVIOUS
  <2>2. Remembers /\ made'[TxidOf(tx)] = tx /\ DOMAIN made' = DOMAIN made \cup {TxidOf(tx)}
    BY <1>2, <2>1, Admitting, AdmitAdds
  <2>3. TxOK(tx) /\ (withdrawal.caller = "rpc" \/ AsTheRow(tx.to, tx.amount))
    BY <1>2, <2>1 DEF CallOK
  <2>4. withdrawal.caller = "rpc" => TxidOf(tx) \in overRpc'
    BY <1>2, <2>1 DEF Admit
  <2>5. ASSUME NEW t \in DOMAIN made'
        PROVE  TxOK(made'[t]) /\ (t \notin overRpc' => AsTheRow(made'[t].to, made'[t].amount))
    <3>1. CASE t = TxidOf(tx)
      BY <2>2, <2>3, <2>4, <3>1
    <3>2. CASE t \in DOMAIN made
      BY <1>0, <2>2, <3>2 DEF TxsOK, Txids, Remembers
    <3> QED
      BY <2>2, <3>1, <3>2
  <2>6. TxsOK'
    BY <2>5, SameAmounts DEF TxsOK, TxOK, Txids, AsTheRow
  <2> QED
    BY <2>2, <2>6 DEF Remembers, Txids
<1> QED
  BY <1>1, <1>2, MadeNext

LEMMA NextNode ==
  ASSUME Shape, NodeOK, Txids \subseteq Txids', [Next]_vars
  PROVE  NodeOK'
<1>1. CASE BuildCandidate \/ BlockMined \/ NoNonce \/ NodeRestart
  BY <1>1 DEF BuildCandidate, BlockMined, NoNonce, NodeRestart, NodeOK
<1>2. CASE made' # made
  <2>1. Admit(withdrawal.tx)
    BY <1>2, MadeNext
  <2>2. TxidOf(withdrawal.tx) \in Txids'
    BY <2>1, Admitting DEF Txids
  <2> QED
    BY <2>1, <2>2 DEF Admit, NodeOK
<1>3. CASE SubmitTransaction \/ AnswerLost
  <2>1. Admit(withdrawal.tx) \/ UNCHANGED node
    BY <1>3 DEF SubmitTransaction, AnswerLost
  <2>2. Admit(withdrawal.tx) => TxidOf(withdrawal.tx) \in Txids'
    BY Admitting DEF Txids
  <2> QED
    BY <2>1, <2>2 DEF Admit, NodeOK, node
<1>4. CASE ~SubmitTransaction /\ ~AnswerLost /\ ~(BuildCandidate \/ BlockMined \/ NoNonce \/ NodeRestart)
  <2>1. UNCHANGED node
    BY <1>4 DEF Next, vars, WithdrawalStep, ListUnspent, AppendLine, AppendNewline, ListFails,
                JournalFails, SignWithdrawal, ProcesarRetiro, RechazarRetiro, Tick, ReportarResultado,
                ReportFails, CustodyCrash
  <2> QED
    BY <2>1 DEF NodeOK, node
<1> QED
  BY <1>1, <1>3, <1>4

(* The journal gets the entry of the withdrawal and no other.              *)
LEMMA LinesNext ==
  ASSUME Shape, [Next]_vars
  PROVE  \/ file' = file /\ Lines' = Lines
         \/ AppendLine /\ Lines' = Lines \cup {EntryOf(withdrawal)}
<1>1. CASE AppendLine
  <2>1. PICK e, k : e = EntryOf(withdrawal) /\ LineAdded(k, e)
    BY <1>1, AppendedLine
  <2>2. ASSUME NEW i \in DOMAIN file, NEW j \in DOMAIN file[i]
        PROVE  i \in DOMAIN file' /\ j \in DOMAIN file'[i] /\ file'[i][j] = file[i][j]
    BY <2>1 DEF LineAdded
  <2>3. ASSUME NEW i \in DOMAIN file', NEW j \in DOMAIN file'[i]
        PROVE  file'[i][j] = e \/ (i \in DOMAIN file /\ j \in DOMAIN file[i] /\ file'[i][j] = file[i][j])
    BY <2>1 DEF LineAdded
  <2>4. e \in Lines'
    BY <2>1 DEF LineAdded, Lines, Values
  <2>5. Lines \subseteq Lines'
    BY <2>2 DEF Lines, Values
  <2>6. \A x \in Lines' : x = e \/ x \in Lines
    BY <2>3 DEF Lines, Values
  <2> QED
    BY <1>1, <2>1, <2>4, <2>5, <2>6
<1>2. CASE ~AppendLine
  <2>1. file' = file
    BY <1>2 DEF Next, vars, journal, BuildCandidate, BlockMined, NoNonce, NodeRestart,
                WithdrawalStep, SubmitTransaction, AnswerLost, ListUnspent, AppendNewline,
                ListFails, JournalFails, SignWithdrawal, ProcesarRetiro, RechazarRetiro, Tick,
                ReportarResultado, ReportFails, CustodyCrash
  <2> QED
    BY <2>1 DEF Lines, Values
<1> QED
  BY <1>1, <1>2

LEMMA NextLines ==
  ASSUME Shape, CallOK, LinesOK, Txids \subseteq Txids', [Next]_vars
  PROVE  LinesOK'
<1>1. CASE Lines' = Lines
  BY <1>1 DEF LinesOK
<1>2. CASE AppendLine /\ Lines' = Lines \cup {EntryOf(withdrawal)}
  <2>1. withdrawal.step = "line"
    BY <1>2 DEF AppendLine
  <2>2. PICK e : e = EntryOf(withdrawal)
    OBVIOUS
  <2>3. e.request \in Requests /\ e.txid \in Txids /\ e.fee \in Fees
    BY <2>1, <2>2 DEF CallOK, EntryOf
  <2> QED
    BY <1>2, <2>2, <2>3 DEF LinesOK
<1> QED
  BY <1>1, <1>2, LinesNext

LEMMA NoCall == withdrawal' = NoWithdrawal => CallOK'
BY DEF CallOK, NoWithdrawal, Steps

LEMMA StartOK ==
  ASSUME NEW caller, NEW r \in Requests, NEW amount \in Nat, NEW fee \in Fees,
         caller # "rpc" => AsTheRow(r, amount),
         Start(caller, r, amount, fee)
  PROVE  CallOK'
<1>1. CASE r \in DOMAIN entries
  BY <1>1, NoCall DEF Start
<1>2. CASE r \notin DOMAIN entries
  <2>1. /\ withdrawal'.step = "list" /\ withdrawal'.caller = caller
        /\ withdrawal'.request = r /\ withdrawal'.amount = amount /\ withdrawal'.fee = fee
    BY <1>2 DEF Start, Begin, NoWithdrawal
  <2> QED
    BY <2>1, SameAmounts DEF CallOK, Steps, AsTheRow
<1> QED
  BY <1>1, <1>2

LEMMA SameCall ==
  ASSUME CallOK, Remembers, withdrawal' = withdrawal
  PROVE  CallOK'
BY SameAmounts DEF CallOK, TxOK, AsTheRow, Remembers, Txids

LEMMA ListOK ==
  ASSUME Shape, TxsOK, CallOK, ListUnspent
  PROVE  CallOK'
<1>1. PICK r, amount, fee :
        r = withdrawal.request /\ amount = withdrawal.amount /\ fee = withdrawal.fee
  OBVIOUS
<1>2. /\ r \in Requests /\ amount \in Nat /\ fee \in Fees /\ fee \in Nat
      /\ withdrawal.caller # "rpc" => AsTheRow(r, amount)
  BY <1>1, WithdrawalsAssumption DEF ListUnspent, CallOK
<1>3. CASE withdrawal' = NoWithdrawal
  BY <1>3, NoCall
<1>4. CASE \E s \in Selections(Unspent, AmountOf, amount + fee) :
             withdrawal' = [withdrawal EXCEPT !.step = "submit",
                              !.tx = Transfer(s, AmountOf, r, amount, fee)]
  <2>1. PICK s \in Selections(Unspent, AmountOf, amount + fee) :
             withdrawal' = [withdrawal EXCEPT !.step = "submit",
                              !.tx = Transfer(s, AmountOf, r, amount, fee)]
    BY <1>4
  <2>2. PICK tx : tx = Transfer(s, AmountOf, r, amount, fee)
    OBVIOUS
  <2>3. TxOK(tx) /\ tx.to = r /\ tx.amount = amount
    BY <1>2, <2>2, TransferOK
  <2>4. /\ withdrawal'.step = "submit" /\ withdrawal'.tx = tx
        /\ withdrawal'.caller = withdrawal.caller /\ withdrawal'.request = r
        /\ withdrawal'.amount = amount /\ withdrawal'.fee = fee
    BY <1>1, <2>1, <2>2 DEF Shape
  <2> QED
    BY <1>2, <2>3, <2>4, SameAmounts DEF CallOK, Steps, TxOK, AsTheRow
<1> QED
  BY <1>1, <1>3, <1>4 DEF ListUnspent, Fail

LEMMA SubmitOK ==
  ASSUME Shape, CallOK, SubmitTransaction
  PROVE  CallOK'
<1>1. CASE Admits(withdrawal.tx)
  <2>1. PICK id, tx : id = TxidOf(withdrawal.tx) /\ tx = withdrawal.tx
    OBVIOUS
  <2>2. Admit(tx) /\ withdrawal.step = "submit"
        /\ withdrawal' = [withdrawal EXCEPT !.step = "line", !.txid = id]
    BY <1>1, <2>1 DEF SubmitTransaction
  <2>3. id \in Txids' /\ made'[id] = tx /\ tx.amount = withdrawal.amount
    BY <2>1, <2>2, Admitting DEF Txids, CallOK
  <2>4. /\ withdrawal'.step = "line" /\ withdrawal'.txid = id
        /\ withdrawal'.caller = withdrawal.caller /\ withdrawal'.request = withdrawal.request
        /\ withdrawal'.amount = withdrawal.amount /\ withdrawal'.fee = withdrawal.fee
    BY <2>2 DEF Shape
  <2> QED
    BY <2>2, <2>3, <2>4, SameAmounts DEF CallOK, Steps, AsTheRow
<1>2. CASE ~Admits(withdrawal.tx)
  BY <1>2, NoCall DEF SubmitTransaction, Fail
<1> QED
  BY <1>1, <1>2

LEMMA NextCall ==
  ASSUME Shape, TxsOK, CallOK, Remembers, [Next]_vars
  PROVE  CallOK'
<1>1. CASE BuildCandidate \/ BlockMined \/ NoNonce \/ NodeRestart \/ Tick \/ ReportarResultado
           \/ ReportFails \/ (\E r \in Requests : RechazarRetiro(r)) \/ UNCHANGED vars
  <2>1. withdrawal' = withdrawal
    BY <1>1 DEF BuildCandidate, BlockMined, NoNonce, NodeRestart, Tick, ReportarResultado,
                ReportFails, RechazarRetiro, vars, memory
  <2> QED
    BY <2>1, SameCall
<1>2. CASE ListFails \/ AnswerLost \/ JournalFails \/ AppendNewline \/ CustodyCrash
  BY <1>2, NoCall DEF ListFails, AnswerLost, JournalFails, AppendNewline, CustodyCrash, Fail
<1>3. CASE AppendLine
  <2>1. /\ withdrawal.step = "line" /\ withdrawal' = [withdrawal EXCEPT !.step = "newline"]
    BY <1>3 DEF AppendLine
  <2>2. /\ withdrawal'.step = "newline" /\ withdrawal'.txid = withdrawal.txid
        /\ withdrawal'.caller = withdrawal.caller /\ withdrawal'.request = withdrawal.request
        /\ withdrawal'.amount = withdrawal.amount /\ withdrawal'.fee = withdrawal.fee
    BY <2>1 DEF Shape
  <2> QED
    BY <2>1, <2>2, SameAmounts DEF CallOK, Steps, AsTheRow, Remembers, Txids
<1>4. ASSUME NEW r \in Requests, NEW amount \in Amounts, NEW fee \in Fees,
             SignWithdrawal(r, amount, fee)
      PROVE  CallOK'
  <2>1. amount \in Nat /\ Start("rpc", r, amount, fee)
    BY <1>4, WithdrawalsAssumption DEF SignWithdrawal
  <2> QED
    BY <2>1, StartOK
<1>5. ASSUME NEW r \in Requests, ProcesarRetiro(r)
      PROVE  CallOK'
  <2>1. 0 \in Fees /\ r \in Requests \ Invalid /\ Start("poll", r, Amount[r], 0)
    BY <1>5, WithdrawalsAssumption DEF ProcesarRetiro
  <2>2. PICK amount : amount = Amount[r]
    OBVIOUS
  <2>3. amount \in Nat /\ AsTheRow(r, amount)
    BY <2>1, <2>2, AmountType DEF AsTheRow
  <2> QED
    BY <2>1, <2>2, <2>3, StartOK
<1>6. CASE ListUnspent \/ SubmitTransaction
  BY <1>6, ListOK, SubmitOK
<1> QED
  BY <1>1, <1>2, <1>3, <1>4, <1>5, <1>6 DEF Next, WithdrawalStep

(* The last entry of each request is the one that is loaded.               *)
LEMMA LoadedEntry ==
  ASSUME Shape, Loads, NEW r \in DOMAIN Loaded
  PROVE  Loaded[r] \in Lines /\ Loaded[r].request = r
<1>1. PICK n \in Nat : n = Len(file) /\ DOMAIN file = 1..n
  BY Appending DEF Shape
<1>2. PICK S : S = {i \in DOMAIN file : file[i][1].request = r}
  OBVIOUS
<1>3. S \in SUBSET (0..n) /\ S # {}
  BY <1>1, <1>2 DEF Loaded
<1>4. PICK i \in S : \A m \in i + 1..n : m \notin S
  BY <1>3, GreatestUpTo
<1>5. \E k \in DOMAIN file : /\ file[k][1].request = r
                             /\ \A j \in k + 1..Len(file) : file[j][1].request # r
  <2>1. i \in DOMAIN file /\ file[i][1].request = r /\ i \in 1..n
    BY <1>1, <1>2
  <2>2. \A j \in i + 1..n : j \in DOMAIN file
    BY <1>1, <2>1
  <2> QED
    BY <1>1, <1>2, <1>4, <2>1, <2>2
<1>6. PICK k \in DOMAIN file : file[k][1].request = r /\ Loaded[r] = file[k][1]
  BY <1>5 DEF Loaded
<1>7. 1 \in DOMAIN file[k]
  BY <1>6, Appending DEF Loads, Shape
<1> QED
  BY <1>6, <1>7 DEF Lines, Values

LEMMA NextMemory ==
  ASSUME Shape, CallOK, LinesOK, MemoryOK, Txids \subseteq Txids', [Next]_vars
  PROVE  MemoryOK'
<1>1. CASE AppendNewline
  <2>1. withdrawal.step = "newline"
    BY <1>1 DEF AppendNewline
  <2>2. PICK e : e = EntryOf(withdrawal)
    OBVIOUS
  <2>3. e.txid \in Txids /\ withdrawal.request \in Requests
    BY <2>1, <2>2 DEF CallOK, EntryOf
  <2>4. /\ DOMAIN entries' = DOMAIN entries \cup {withdrawal.request}
        /\ \A r \in DOMAIN entries' : entries'[r] = e \/ (r \in DOMAIN entries /\ entries'[r] = entries[r])
    BY <1>1, <2>2 DEF AppendNewline
  <2>5. /\ reporting' \in Requests \cup {NoOne} /\ queue' = queue /\ alive' = alive
        /\ polling' = polling /\ terminated' \in BOOLEAN
    BY <1>1, <2>3 DEF AppendNewline, MemoryOK
  <2> QED
    BY <2>3, <2>4, <2>5 DEF MemoryOK
<1>2. CASE CustodyCrash
  <2>1. DOMAIN entries' \subseteq Requests /\ \A r \in DOMAIN entries' : entries'[r].txid \in Txids
    <3>1. CASE Loads
      <4>1. entries' = Loaded
        BY <1>2, <3>1 DEF CustodyCrash
      <4>2. \A r \in DOMAIN Loaded : r \in Requests /\ Loaded[r].txid \in Txids
        BY <3>1, LoadedEntry DEF LinesOK
      <4> QED
        BY <4>1, <4>2
    <3>2. CASE ~Loads
      BY <1>2, <3>2 DEF CustodyCrash, NoEntries
    <3> QED
      BY <3>1, <3>2
  <2>2. queue' = {} /\ reporting' = NoOne /\ alive' \in BOOLEAN /\ terminated' = terminated
        /\ polling' = TRUE
    <3>1. Loads \in BOOLEAN
      BY DEF Loads
    <3> QED
      BY <1>2, <3>1 DEF CustodyCrash, journal
  <2> QED
    BY <2>1, <2>2 DEF MemoryOK
<1>3. CASE Tick \/ AppendLine \/ JournalFails \/ ReportarResultado \/ ReportFails
           \/ \E r \in Requests : ProcesarRetiro(r) \/ RechazarRetiro(r)
  <2>1. /\ entries' = entries /\ alive' = alive /\ queue' \subseteq Requests
        /\ polling' \in {polling, FALSE} /\ terminated' \in {terminated, FALSE}
        /\ reporting' \in Requests \cup {NoOne}
    BY <1>3 DEF Tick, AppendLine, JournalFails, ReportarResultado, ReportFails, ProcesarRetiro,
                RechazarRetiro, MemoryOK, journal
  <2> QED
    BY <2>1 DEF MemoryOK
<1>4. CASE ~(AppendNewline \/ CustodyCrash \/ Tick \/ AppendLine \/ JournalFails
             \/ ReportarResultado \/ ReportFails
             \/ \E r \in Requests : ProcesarRetiro(r) \/ RechazarRetiro(r))
  <2>1. UNCHANGED <<entries, queue, reporting, polling, alive, terminated>>
    BY <1>4 DEF Next, vars, memory, journal, BuildCandidate, BlockMined, NoNonce, NodeRestart,
                WithdrawalStep, SubmitTransaction, AnswerLost, ListUnspent, ListFails,
                SignWithdrawal
  <2> QED
    BY <2>1 DEF MemoryOK
<1> QED
  BY <1>1, <1>2, <1>3, <1>4

-----------------------------------------------------------------------------
LEMMA FaultsFinite == IsFiniteSet(FaultKinds)
<1>1. \A a, b, c : IsFiniteSet({a, b, c})
  <2> SUFFICES ASSUME NEW a, NEW b, NEW c PROVE IsFiniteSet({a, b, c})
    OBVIOUS
  <2>1. IsFiniteSet({a}) /\ {a} \cup {b} = {a, b} /\ {a, b} \cup {c} = {a, b, c}
    BY FS_Singleton
  <2>2. IsFiniteSet({a, b})
    BY <2>1, FS_AddElement
  <2> QED
    BY <2>1, <2>2, FS_AddElement
<1>2. FaultKinds = ({"list", "answer", "report"} \cup {"idle crash", "crash", "restart"})
                     \cup {"journal"}
  BY DEF FaultKinds
<1>3. IsFiniteSet({"list", "answer", "report"} \cup {"idle crash", "crash", "restart"})
  BY <1>1, FS_Union
<1> QED
  BY <1>2, <1>3, FS_AddElement

(* The faults of all kinds together are counted up to the bound.           *)
LEMMA FaultCount ==
  ASSUME FaultsOK, NEW kind, Fault(kind)
  PROVE  FaultsOK' /\ kind \in FaultKinds /\ faults' = [faults EXCEPT ![kind] = faults[kind] + 1]
<1>1. PICK D, f, g : D = FaultKinds /\ f = faults /\ g = faults'
  OBVIOUS
<1>2. IsFiniteSet(D)
  BY <1>1, FaultsFinite
<1>3. kind \in D /\ f \in [D -> Nat] /\ SumFunction(f) < MaxFaults /\ MaxFaults \in Nat
  BY <1>1, WithdrawalsAssumption DEF FaultsOK, Fault
<1>4. g = [f EXCEPT ![kind] = f[kind] + 1] /\ g \in [D -> Nat]
  BY <1>1, <1>3 DEF Fault
<1>5. f \in [D -> Int] /\ g \in [D -> Int] /\ f[kind] \in Int /\ g[kind] = f[kind] + 1
  BY <1>3, <1>4
<1>6. Part(f, D \ {kind}) = Part(g, D \ {kind})
  BY <1>3, <1>4 DEF Part
<1>7. SumFunction(f) = f[kind] + SumFunction(Part(f, D \ {kind}))
  BY <1>2, <1>3, <1>5, SumWithout
<1>8. SumFunction(g) = g[kind] + SumFunction(Part(g, D \ {kind}))
  BY <1>2, <1>3, <1>5, SumWithout
<1>9. SumFunction(Part(f, D \ {kind})) \in Int
  <2>1. Part(f, D \ {kind}) \in [D \ {kind} -> Int] /\ IsFiniteSet(D \ {kind})
    BY <1>2, <1>5, FS_Subset DEF Part
  <2> QED
    BY <2>1, SumType
<1>10. SumFunction(g) = SumFunction(f) + 1 /\ SumFunction(f) \in Int
  BY <1>5, <1>6, <1>7, <1>8, <1>9
<1>11. SumFunction(g) <= MaxFaults
  BY <1>3, <1>10
<1> QED
  BY <1>1, <1>3, <1>4, <1>11 DEF FaultsOK

LEMMA NextFaults == FaultsOK /\ [Next]_vars => FaultsOK'
<1> SUFFICES ASSUME FaultsOK, [Next]_vars PROVE FaultsOK'
  OBVIOUS
<1>1. CASE \E kind : Fault(kind)
  BY <1>1, FaultCount
<1>2. CASE ~\E kind : Fault(kind)
  <2>1. faults' = faults
    BY <1>2 DEF Next, vars, BuildCandidate, BlockMined, NoNonce, NodeRestart,
                WithdrawalStep, SubmitTransaction, AnswerLost, ListUnspent, AppendLine,
                AppendNewline, ListFails, JournalFails, SignWithdrawal, ProcesarRetiro, RechazarRetiro, Tick,
                ReportarResultado, ReportFails, CustodyCrash
  <2> QED
    BY <2>1 DEF FaultsOK
<1> QED
  BY <1>1, <1>2

LEMMA FaultBound == FaultsOK => faults \in [FaultKinds -> 0..MaxFaults]
<1> SUFFICES ASSUME FaultsOK, NEW k \in FaultKinds PROVE faults[k] \in 0..MaxFaults
  BY DEF FaultsOK
<1>1. PICK D, f : D = FaultKinds /\ f = faults
  OBVIOUS
<1>2. IsFiniteSet(D) /\ f \in [D -> Nat] /\ f \in [D -> Int] /\ k \in D /\ f[k] \in Nat
  BY <1>1, FaultsFinite DEF FaultsOK
<1>3. SumFunction(f) = f[k] + SumFunction(Part(f, D \ {k}))
  BY <1>2, SumWithout
<1>4. SumFunction(Part(f, D \ {k})) \in Nat
  <2>1. IsFiniteSet(D \ {k}) /\ Part(f, D \ {k}) \in [D \ {k} -> Nat]
    BY <1>2, FS_Subset DEF Part
  <2> QED
    BY <2>1, SumNatural
<1>5. SumFunction(f) <= MaxFaults /\ MaxFaults \in Nat
  BY <1>1, WithdrawalsAssumption DEF FaultsOK
<1> QED
  BY <1>1, <1>2, <1>3, <1>4, <1>5

LEMMA InitFaults == Init => FaultsOK
<1> SUFFICES ASSUME Init PROVE FaultsOK
  OBVIOUS
<1>1. PICK D, f : D = FaultKinds /\ f = faults
  OBVIOUS
<1>2. IsFiniteSet(D) /\ f \in [D -> Int] /\ \A k \in D : f[k] = 0
  BY <1>1, FaultsFinite DEF Init
<1>3. SumFunction(f) = 0
  BY <1>2, SumOfZeros
<1> QED
  BY <1>1, <1>2, <1>3, WithdrawalsAssumption DEF FaultsOK, Init

-----------------------------------------------------------------------------
LEMMA NextRows == RowsOK /\ MemoryOK /\ [Next]_vars => RowsOK'
<1> SUFFICES ASSUME RowsOK, MemoryOK, [Next]_vars PROVE RowsOK'
  OBVIOUS
<1>1. CASE ReportarResultado
  BY <1>1 DEF ReportarResultado, RowsOK, MemoryOK
<1>2. CASE ~ReportarResultado
  <2>1. rows' = rows
    BY <1>2 DEF Next, vars, BuildCandidate, BlockMined, NoNonce, NodeRestart,
                WithdrawalStep, SubmitTransaction, AnswerLost, ListUnspent, AppendLine,
                AppendNewline, ListFails, JournalFails, SignWithdrawal, ProcesarRetiro, RechazarRetiro, Tick,
                ReportFails, CustodyCrash
  <2> QED
    BY <2>1 DEF RowsOK
<1> QED
  BY <1>1, <1>2

LEMMA InitType == Init => TypeInv
<1> SUFFICES ASSUME Init PROVE TypeInv
  OBVIOUS
<1>1. TxsOK /\ NodeOK /\ RowsOK
  BY DEF Init, TxsOK, NodeOK, RowsOK, Txids
<1>2. CallOK
  BY DEF Init, CallOK, NoWithdrawal, Steps
<1>3. LinesOK
  BY DEF Init, LinesOK, Lines
<1>4. MemoryOK
  BY DEF Init, MemoryOK, NoEntries
<1> QED
  BY <1>1, <1>2, <1>3, <1>4, InitFaults DEF TypeInv

LEMMA NextType == Shape /\ TypeInv /\ [Next]_vars => TypeInv'
BY NextTxs, NextNode, NextLines, NextCall, NextMemory, NextRows, NextFaults DEF TypeInv

LEMMA WithdrawalsInvariant == Spec => [](Inv /\ TypeInv)
<1>1. Inv => Shape
  BY DEF Inv
<1> QED
  BY <1>1, InitInv, NextInv, InitType, NextType, PTL DEF Spec

(* The types of the node's side, of the journal and of the process: every  *)
(* line and every entry names a transaction that the node admitted, and no *)
(* change is negative, through every fault there is.                       *)
THEOREM WithdrawalsTypeCorrect == Spec => []TypeOK
<1>1. TypeInv => TypeOK
  <2> SUFFICES ASSUME TypeInv PROVE TypeOK
    OBVIOUS
  <2>1. \A t \in Txids : made[t].to \in Requests /\ made[t].change \in Nat
    BY DEF TypeInv, TxsOK, TxOK
  <2>2. \A i \in DOMAIN file : \A j \in DOMAIN file[i] :
          file[i][j].request \in Requests /\ file[i][j].txid \in Txids /\ file[i][j].fee \in Fees
    BY DEF TypeInv, LinesOK, Lines, Values
  <2>3. withdrawal.step \in {"free", "list", "submit", "line", "newline"}
    BY DEF TypeInv, CallOK, Steps
  <2>4. faults \in [FaultKinds -> 0..MaxFaults]
    BY FaultBound DEF TypeInv
  <2> QED
    BY <2>1, <2>2, <2>3, <2>4 DEF TypeInv, TypeOK, NodeOK, RowsOK, MemoryOK
<1> QED
  BY <1>1, WithdrawalsInvariant, PTL

-----------------------------------------------------------------------------
(* Amounts on their way: from the transaction to the line, from the line   *)
(* to memory, also by way of a restart, and from there to the report.      *)
Exact(r) == \E e \in Lines : e.request = r /\ e.amount = Amount[r]

ExactInv ==
  /\ \A e \in Lines : Paid(e.txid, e.request) /\ made[e.txid].amount = e.amount
  /\ withdrawal.step = "newline" => EntryOf(withdrawal) \in Lines
  /\ \A r \in DOMAIN entries : entries[r] \in Lines /\ entries[r].request = r
  /\ reporting \notin Invalid \cup {NoOne} => Exact(reporting)
  /\ \A r \in Requests : rows[r] = "completado" => r \notin Invalid /\ Exact(r)

LEMMA InitExact == Init => ExactInv
<1> SUFFICES ASSUME Init PROVE ExactInv
  OBVIOUS
<1>1. Lines = {}
  BY DEF Init, Lines
<1> QED
  BY <1>1 DEF Init, ExactInv, NoWithdrawal, NoEntries

LEMMA MoreLines ==
  ASSUME Shape, [Next]_vars
  PROVE  Lines \subseteq Lines' /\ \A r : Exact(r) => Exact(r)'
BY LinesNext, SameAmounts DEF Exact

LEMMA StartStep ==
  ASSUME NEW caller, NEW r, NEW amount, NEW fee, Start(caller, r, amount, fee)
  PROVE  withdrawal'.step # "newline"
<1>1. CASE r \in DOMAIN entries
  BY <1>1 DEF Start, NoWithdrawal
<1>2. CASE r \notin DOMAIN entries
  BY <1>2 DEF Start, Begin, NoWithdrawal
<1> QED
  BY <1>1, <1>2

LEMMA LinesExact ==
  ASSUME Shape, WithdrawalInv, CallOK, ExactInv, Remembers, [Next]_vars
  PROVE  \A e \in Lines' : Paid(e.txid, e.request)' /\ made'[e.txid].amount = e.amount
<1>1. ASSUME NEW e \in Lines
      PROVE  Paid(e.txid, e.request)' /\ made'[e.txid].amount = e.amount
  BY <1>1 DEF ExactInv, Paid, Remembers
<1>2. CASE AppendLine /\ Lines' = Lines \cup {EntryOf(withdrawal)}
  <2>1. PICK e : e = EntryOf(withdrawal)
    OBVIOUS
  <2>2. /\ withdrawal.step = "line" /\ e.txid = withdrawal.txid
        /\ e.request = withdrawal.request /\ e.amount = withdrawal.amount
    BY <1>2, <2>1 DEF AppendLine, EntryOf
  <2>3. Paid(e.txid, e.request) /\ made[e.txid].amount = e.amount
    BY <2>2 DEF WithdrawalInv, CallOK
  <2>4. Paid(e.txid, e.request)' /\ made'[e.txid].amount = e.amount
    BY <2>3 DEF Paid, Remembers
  <2> QED
    BY <1>1, <1>2, <2>1, <2>4
<1> QED
  BY <1>1, <1>2, LinesNext

(* What comes to memory, and what is reported, has its line.               *)
LEMMA ReportsExact ==
  ASSUME Shape, MemoryOK, CallOK, ExactInv, [Next]_vars
  PROVE  /\ withdrawal'.step = "newline" => EntryOf(withdrawal') \in Lines'
         /\ \A r \in DOMAIN entries' : entries'[r] \in Lines' /\ entries'[r].request = r
         /\ reporting' \notin Invalid \cup {NoOne} => Exact(reporting')
<1>0. Lines \subseteq Lines' /\ \A r \in DOMAIN entries : entries[r] \in Lines'
  BY MoreLines DEF ExactInv
<1>1. CASE AppendLine
  <2>1. Lines' = Lines \cup {EntryOf(withdrawal)}
    <3>1. PICK k, e : e = EntryOf(withdrawal) /\ LineAdded(k, e)
      BY <1>1, AppendedLine
    <3>2. e \in Lines'
      BY <3>1 DEF LineAdded, Lines, Values
    <3> QED
      BY <1>0, <3>1, <3>2, LinesNext
  <2>2. /\ withdrawal' = [withdrawal EXCEPT !.step = "newline"]
        /\ entries' = entries /\ reporting' = reporting
    BY <1>1 DEF AppendLine
  <2>3. EntryOf(withdrawal') = EntryOf(withdrawal)
    BY <2>2 DEF EntryOf, Shape
  <2> QED
    BY <1>0, <2>1, <2>2, <2>3 DEF ExactInv
<1>2. CASE AppendNewline
  <2>1. PICK e, q : e = EntryOf(withdrawal) /\ q = withdrawal.request
    OBVIOUS
  <2>2. withdrawal.step = "newline" /\ e \in Lines /\ e.request = q
    BY <1>2, <2>1 DEF AppendNewline, ExactInv, EntryOf
  <2>3. /\ DOMAIN entries' = DOMAIN entries \cup {q}
        /\ \A r \in DOMAIN entries' : entries'[r] = IF r = q THEN e ELSE entries[r]
        /\ reporting' = IF withdrawal.caller = "poll" THEN q ELSE reporting
        /\ withdrawal' = NoWithdrawal
    BY <1>2, <2>1 DEF AppendNewline
  <2>4. withdrawal.caller = "poll" => Exact(q)
    BY <2>1, <2>2 DEF CallOK, AsTheRow, EntryOf, Exact
  <2>5. reporting' \notin Invalid \cup {NoOne} => Exact(reporting')
    BY <2>3, <2>4 DEF ExactInv
  <2>6. \A r \in DOMAIN entries' : entries'[r] \in Lines' /\ entries'[r].request = r
    BY <1>0, <2>2, <2>3 DEF ExactInv
  <2> QED
    BY <2>3, <2>5, <2>6 DEF NoWithdrawal
<1>3. CASE CustodyCrash
  <2>1. /\ entries' = IF Loads THEN Loaded ELSE NoEntries
        /\ withdrawal' = NoWithdrawal /\ reporting' = NoOne
    BY <1>3 DEF CustodyCrash
  <2>2. \A r \in DOMAIN entries' : entries'[r] \in Lines /\ entries'[r].request = r
    BY <2>1, LoadedEntry DEF NoEntries
  <2> QED
    BY <1>0, <2>1, <2>2 DEF NoWithdrawal
<1>4. CASE \E r \in Requests : ProcesarRetiro(r)
  <2>1. PICK r \in Requests : ProcesarRetiro(r)
    BY <1>4
  <2>2. entries' = entries /\ withdrawal'.step # "newline"
    BY <2>1, StartStep DEF ProcesarRetiro
  <2>3. Repeated(r, Amount[r], 0) => Exact(r)
    BY DEF Repeated, ExactInv, Exact
  <2>4. reporting' \notin Invalid \cup {NoOne} => Exact(reporting')
    BY <2>1, <2>3 DEF ProcesarRetiro
  <2> QED
    BY <1>0, <2>2, <2>4 DEF ExactInv
<1>5. CASE ReportarResultado \/ ReportFails \/ \E r \in Requests : RechazarRetiro(r)
  <2>1. /\ entries' = entries /\ withdrawal' = withdrawal
        /\ reporting' \in Invalid \cup {NoOne}
    BY <1>5 DEF ReportarResultado, ReportFails, RechazarRetiro
  <2> QED
    BY <1>0, <2>1 DEF ExactInv
<1>6. CASE ~(AppendLine \/ AppendNewline \/ CustodyCrash \/ ReportarResultado \/ ReportFails
             \/ \E r \in Requests : ProcesarRetiro(r) \/ RechazarRetiro(r))
  <2>1. entries' = entries /\ reporting' = reporting
    BY <1>6 DEF Next, vars, memory, BuildCandidate, BlockMined, NoNonce, NodeRestart,
                WithdrawalStep, ListUnspent, SubmitTransaction, AnswerLost, ListFails,
                JournalFails, SignWithdrawal, Tick
  <2>2. withdrawal' = withdrawal \/ withdrawal'.step # "newline"
    <3>1. CASE withdrawal' = NoWithdrawal
      BY <3>1 DEF NoWithdrawal
    <3>2. CASE ListUnspent \/ SubmitTransaction \/ AnswerLost \/ ListFails \/ JournalFails
      BY <3>1, <3>2 DEF ListUnspent, SubmitTransaction, AnswerLost, ListFails, JournalFails, Fail,
                        Shape
    <3>3. CASE \E r \in Requests, amount \in Amounts, fee \in Fees :
                 SignWithdrawal(r, amount, fee)
      BY <3>3, StartStep DEF SignWithdrawal
    <3>4. CASE BuildCandidate \/ BlockMined \/ NoNonce \/ NodeRestart \/ Tick \/ UNCHANGED vars
      BY <3>4 DEF BuildCandidate, BlockMined, NoNonce, NodeRestart, Tick, vars, memory
    <3> QED
      BY <1>6, <3>2, <3>3, <3>4 DEF Next, WithdrawalStep
  <2> QED
    BY <1>0, <2>1, <2>2 DEF ExactInv
<1> QED
  BY <1>1, <1>2, <1>3, <1>4, <1>5, <1>6

LEMMA NextExact == Inv /\ TypeInv /\ ExactInv /\ [Next]_vars => ExactInv'
<1> SUFFICES ASSUME Inv, TypeInv, ExactInv, [Next]_vars PROVE ExactInv'
  OBVIOUS
<1>1. Shape /\ WithdrawalInv /\ MemoryOK /\ CallOK /\ Remembers
  BY NextTxs DEF Inv, TypeInv
<1>2. \A r : Exact(r) => Exact(r)'
  BY <1>1, MoreLines
<1>3. \A r \in Requests : rows'[r] = "completado" => r \notin Invalid /\ Exact(r)
  <2>1. CASE ReportarResultado
    <3>1. reporting # NoOne /\ DOMAIN rows = Requests
          /\ rows' = [rows EXCEPT ![reporting] =
                          IF reporting \in Invalid THEN "fallido" ELSE "completado"]
      BY <1>1, <2>1 DEF ReportarResultado, Shape
    <3> QED
      BY <3>1 DEF ExactInv
  <2>2. CASE ~ReportarResultado
    <3>1. rows' = rows
      BY <2>2 DEF Next, vars, BuildCandidate, BlockMined, NoNonce, NodeRestart,
                  WithdrawalStep, SubmitTransaction, AnswerLost, ListUnspent, AppendLine,
                  AppendNewline, ListFails, JournalFails, SignWithdrawal, ProcesarRetiro,
                  RechazarRetiro, Tick, ReportFails, CustodyCrash
    <3> QED
      BY <3>1 DEF ExactInv
  <2> QED
    BY <2>1, <2>2
<1>4. reporting' \notin Invalid \cup {NoOne} => Exact(reporting)'
  <2>1. PICK r : r = reporting'
    OBVIOUS
  <2>2. r \notin Invalid \cup {NoOne} => Exact(r)'
    BY <1>1, <1>2, <2>1, ReportsExact
  <2> QED
    BY <2>1, <2>2 DEF Exact
<1>5. /\ withdrawal'.step = "newline" => EntryOf(withdrawal)' \in Lines'
      /\ \A r \in DOMAIN entries' : entries'[r] \in Lines' /\ entries'[r].request = r
  <2>1. EntryOf(withdrawal)' = EntryOf(withdrawal')
    BY DEF EntryOf
  <2> QED
    BY <1>1, <2>1, ReportsExact
<1>6. \A e \in Lines' : Paid(e.txid, e.request)' /\ made'[e.txid].amount = e.amount
  BY <1>1, LinesExact
<1> QED
  BY <1>2, <1>3, <1>4, <1>5, <1>6, SameAmounts DEF ExactInv, Paid

(* A payment that nobody asked sign_withdrawal for pays what the row of    *)
(* its request says, to the last digit: the decimal that was parsed is     *)
(* what the transaction was built with.  And a row that is completed has   *)
(* a payment of its own amount in the journal, whatever amounts and fees   *)
(* sign_withdrawal was asked for under the same id, and through crashes.   *)
THEOREM AlwaysPaysWhatIsAsked == Spec => []PaysWhatIsAsked
<1>1. TypeInv /\ ExactInv => PaysWhatIsAsked
  <2> SUFFICES ASSUME TypeInv, ExactInv PROVE PaysWhatIsAsked
    OBVIOUS
  <2>1. ASSUME NEW tx, TxOK(tx), AsTheRow(tx.to, tx.amount)
        PROVE  PaysItsRow(tx)
    BY <2>1, AmountType DEF TxOK, AsTheRow, PaysItsRow
  <2>2. ASSUME NEW t \in confirmed \ overRpc
        PROVE  PaysItsRow(made[t])
    BY <2>1, <2>2 DEF TypeInv, NodeOK, TxsOK
  <2>3. ASSUME NEW r \in Requests, rows[r] = "completado"
        PROVE  \E i \in DOMAIN file : \E j \in DOMAIN file[i] :
                 made[file[i][j].txid].to = r /\ PaysItsRow(made[file[i][j].txid])
    <3>1. PICK e \in Lines : e.request = r /\ e.amount = Amount[r]
      BY <2>3 DEF ExactInv, Exact
    <3>2. PICK tx : tx = made[e.txid]
      OBVIOUS
    <3>3. TxOK(tx) /\ tx.to = r /\ AsTheRow(r, tx.amount)
      BY <2>3, <3>1, <3>2 DEF TypeInv, TxsOK, Txids, ExactInv, Paid, AsTheRow
    <3>4. PaysItsRow(tx)
      BY <2>1, <3>3
    <3>5. PICK i \in DOMAIN file : \E j \in DOMAIN file[i] : file[i][j] = e
      BY DEF Lines, Values
    <3> QED
      BY <3>2, <3>3, <3>4, <3>5
  <2> QED
    BY <2>2, <2>3 DEF PaysWhatIsAsked
<1>2. Inv /\ TypeInv /\ ExactInv /\ [Next]_vars => ExactInv'
  BY NextExact
<1> QED
  BY <1>1, <1>2, InitExact, WithdrawalsInvariant, PTL DEF Spec

-----------------------------------------------------------------------------
(* How often a request is paid.  A process that runs has it in memory that *)
(* a request is paid, or writes it down; a process that does not has it on *)
(* disk.  A withdrawal goes on only for a request that is not in memory.   *)
JournalInv ==
  withdrawal.step # "free" => alive /\ withdrawal.request \notin DOMAIN entries

Journals(r) == \E e \in Lines : e.request = r

Settled(r) ==
  IF alive THEN \/ r \in DOMAIN entries
                \/ withdrawal.step \in {"line", "newline"} /\ withdrawal.request = r
  ELSE Journals(r)

LEMMA LoadedAll ==
  ASSUME Shape, Loads, NEW r, Journals(r)
  PROVE  r \in DOMAIN Loaded
<1>1. PICK i \in DOMAIN file : \E j \in DOMAIN file[i] : file[i][j].request = r
  BY DEF Journals, Lines, Values
<1>2. PICK j \in DOMAIN file[i] : file[i][j].request = r
  BY <1>1
<1>3. DOMAIN file[i] = 1..Len(file[i]) /\ Len(file[i]) = 1
  BY Appending DEF Shape, Loads
<1>4. j = 1
  BY <1>3
<1> QED
  BY <1>2, <1>4 DEF Loaded

LEMMA NextJournal ==
  ASSUME Shape, JournalInv, [Next]_vars
  PROVE  JournalInv'
<1>1. CASE withdrawal' = NoWithdrawal
  BY <1>1 DEF JournalInv, NoWithdrawal
<1>2. ASSUME NEW caller, NEW r, NEW amount, NEW fee, Start(caller, r, amount, fee), LockFree,
             entries' = entries, alive' = alive
      PROVE  JournalInv'
  <2>1. CASE r \in DOMAIN entries
    BY <1>1, <1>2, <2>1 DEF Start
  <2>2. CASE r \notin DOMAIN entries
    <3>1. withdrawal'.request = r
      BY <1>2, <2>2 DEF Start, Begin, NoWithdrawal
    <3> QED
      BY <1>2, <2>2, <3>1 DEF LockFree, JournalInv
  <2> QED
    BY <2>1, <2>2
<1>3. CASE ListFails \/ AnswerLost \/ JournalFails \/ AppendNewline \/ CustodyCrash
  BY <1>1, <1>3 DEF ListFails, AnswerLost, JournalFails, AppendNewline, CustodyCrash, Fail
<1>4. CASE ListUnspent \/ SubmitTransaction \/ AppendLine
  <2>1. entries' = entries /\ alive' = alive /\ withdrawal.step # "free"
    BY <1>4 DEF ListUnspent, SubmitTransaction, AppendLine
  <2>2. withdrawal' = NoWithdrawal \/ withdrawal'.request = withdrawal.request
    BY <1>4 DEF ListUnspent, SubmitTransaction, AppendLine, Fail, Shape
  <2> QED
    BY <1>1, <2>1, <2>2 DEF JournalInv
<1>5. CASE \E r \in Requests, amount \in Amounts, fee \in Fees : SignWithdrawal(r, amount, fee)
  BY <1>2, <1>5 DEF SignWithdrawal
<1>6. CASE \E r \in Requests : ProcesarRetiro(r)
  BY <1>2, <1>6 DEF ProcesarRetiro
<1>7. CASE BuildCandidate \/ BlockMined \/ NoNonce \/ NodeRestart \/ Tick \/ ReportarResultado
           \/ ReportFails \/ (\E r \in Requests : RechazarRetiro(r)) \/ UNCHANGED vars
  <2>1. withdrawal' = withdrawal /\ entries' = entries /\ alive' = alive
    BY <1>7 DEF BuildCandidate, BlockMined, NoNonce, NodeRestart, Tick, ReportarResultado,
                ReportFails, RechazarRetiro, vars, memory
  <2> QED
    BY <2>1 DEF JournalInv
<1> QED
  BY <1>3, <1>4, <1>5, <1>6, <1>7 DEF Next, WithdrawalStep

-----------------------------------------------------------------------------
Made(r) == {t \in Txids : made[t].to = r}
Losses  == faults["answer"] + faults["crash"] + faults["journal"]

(* A payment beyond the losses is settled: it keeps others from being made.*)
CountInv ==
  \A r \in Requests : Cardinality(Made(r)) <= Losses + (IF Settled(r) THEN 1 ELSE 0)

LEMMA MadeFinite ==
  ASSUME Shape, NEW r
  PROVE  IsFiniteSet(Made(r)) /\ Cardinality(Made(r)) \in Nat
<1>1. Len(made) \in Nat /\ DOMAIN made = 1..Len(made)
  BY Appending DEF Shape
<1>2. IsFiniteSet(1..Len(made))
  BY <1>1, FS_Interval
<1>3. Made(r) \in SUBSET (1..Len(made))
  BY <1>1 DEF Made, Txids
<1> QED
  BY <1>2, <1>3, FS_Subset, FS_CardinalityType

(* An admitted transaction is one more for the request that it pays.       *)
LEMMA OneMore ==
  ASSUME Shape, NEW tx, Admit(tx), NEW r
  PROVE  /\ Cardinality(Made(r)') <= Cardinality(Made(r)) + 1
         /\ tx.to # r => Made(r)' = Made(r)
<1>1. PICK id : id = TxidOf(tx)
  OBVIOUS
<1>2. /\ DOMAIN made' = DOMAIN made \cup {id} /\ made'[id] = tx
      /\ \A t \in DOMAIN made : made'[t] = made[t]
  BY <1>1, Admitting, AdmitAdds DEF Remembers
<1>3. PICK S, T : S = Made(r) /\ T = Made(r)'
  OBVIOUS
<1>4. IsFiniteSet(S) /\ Cardinality(S) \in Nat
  BY <1>3, MadeFinite
<1>5. T \subseteq S \cup {id} /\ S \subseteq T
  BY <1>2, <1>3 DEF Made, Txids
<1>6. tx.to # r => T = S
  BY <1>2, <1>3 DEF Made, Txids
<1>7. IsFiniteSet(S \cup {id}) /\ Cardinality(S \cup {id}) <= Cardinality(S) + 1
  BY <1>4, FS_AddElement
<1>8. Cardinality(T) <= Cardinality(S \cup {id}) /\ IsFiniteSet(T)
  BY <1>5, <1>7, FS_Subset
<1>9. Cardinality(T) \in Nat /\ Cardinality(S \cup {id}) \in Nat
  BY <1>7, <1>8, FS_CardinalityType
<1> QED
  BY <1>3, <1>4, <1>6, <1>7, <1>8, <1>9

LEMMA LossesCounted ==
  ASSUME FaultsOK, [Next]_vars
  PROVE  /\ Losses \in Nat /\ Losses' \in Nat /\ Losses' >= Losses
         /\ AnswerLost \/ JournalFails => Losses' >= Losses + 1
         /\ CustodyCrash => Losses' >= Losses + 1 \/ withdrawal = NoWithdrawal
<1>1. faults["answer"] \in Nat /\ faults["crash"] \in Nat /\ faults["journal"] \in Nat
  BY DEF FaultsOK, FaultKinds
<1>2. ASSUME NEW kind, Fault(kind)
      PROVE  /\ Losses' \in Nat /\ Losses' >= Losses
             /\ kind \in {"answer", "crash", "journal"} => Losses' >= Losses + 1
  <2>1. kind \in FaultKinds /\ faults' = [faults EXCEPT ![kind] = faults[kind] + 1]
    BY <1>2, FaultCount
  <2>2. /\ faults'["answer"] = IF kind = "answer" THEN faults["answer"] + 1 ELSE faults["answer"]
        /\ faults'["crash"] = IF kind = "crash" THEN faults["crash"] + 1 ELSE faults["crash"]
        /\ faults'["journal"] = IF kind = "journal" THEN faults["journal"] + 1
                                                    ELSE faults["journal"]
    BY <2>1 DEF FaultsOK, FaultKinds
  <2> QED
    BY <1>1, <2>2 DEF Losses
<1>3. CASE AnswerLost \/ JournalFails
  <2>1. Fault("answer") \/ Fault("journal")
    BY <1>3 DEF AnswerLost, JournalFails
  <2> QED
    BY <1>1, <1>2, <2>1 DEF Losses
<1>4. CASE CustodyCrash /\ ~AnswerLost /\ ~JournalFails
  <2>1. Fault("crash") \/ (withdrawal = NoWithdrawal /\ Fault("idle crash"))
    BY <1>4 DEF CustodyCrash
  <2>2. Losses' \in Nat /\ Losses' >= Losses
    BY <1>2, <2>1
  <2>3. Losses' >= Losses + 1 \/ withdrawal = NoWithdrawal
    BY <1>2, <2>1
  <2> QED
    BY <1>1, <1>4, <2>2, <2>3 DEF Losses
<1>5. CASE ~AnswerLost /\ ~JournalFails /\ ~CustodyCrash
  <2>1. faults' = faults \/ \E kind : Fault(kind)
    BY <1>5 DEF Next, vars, BuildCandidate, BlockMined, NoNonce, NodeRestart,
                WithdrawalStep, SubmitTransaction, ListUnspent, AppendLine,
                AppendNewline, ListFails, SignWithdrawal, ProcesarRetiro, RechazarRetiro, Tick,
                ReportarResultado, ReportFails
  <2> QED
    BY <1>1, <1>2, <1>5, <2>1 DEF Losses
<1> QED
  BY <1>3, <1>4, <1>5

LEMMA JournalsKept == Shape /\ [Next]_vars => \A r : Journals(r) => Journals(r)'
BY LinesNext DEF Journals

(* A request that is settled stays so, but for a journal that takes no     *)
(* line and a crash before the line is in memory.                          *)
LEMMA StaysSettled ==
  ASSUME Shape, ExactInv, JournalInv, [Next]_vars, NEW r, Settled(r), ~JournalFails,
         CustodyCrash => withdrawal = NoWithdrawal
  PROVE  Settled(r)'
<1>1. CASE CustodyCrash
  <2>0. withdrawal.step = "free"
    BY <1>1 DEF NoWithdrawal
  <2>1. /\ alive /\ withdrawal.step = "free" /\ alive' = Loads
        /\ entries' = IF Loads THEN Loaded ELSE NoEntries
    BY <1>1, <2>0 DEF CustodyCrash
  <2>2. r \in DOMAIN entries
    BY <2>1 DEF Settled
  <2>3. Journals(r)
    BY <2>2 DEF ExactInv, Journals
  <2>4. Loads => r \in DOMAIN Loaded
    BY <2>3, LoadedAll
  <2>5. Journals(r)'
    BY <2>3, JournalsKept
  <2> QED
    BY <2>1, <2>4, <2>5 DEF Settled
<1>2. CASE ~CustodyCrash /\ ~alive
  <2>1. alive' = alive
    BY <1>2 DEF Next, vars, memory, BuildCandidate, BlockMined, NoNonce, NodeRestart,
                WithdrawalStep, ListUnspent, SubmitTransaction, AppendLine, AppendNewline,
                ListFails, AnswerLost, JournalFails, SignWithdrawal, ProcesarRetiro,
                RechazarRetiro, Tick, ReportarResultado, ReportFails
  <2> QED
    BY <1>2, <2>1, JournalsKept DEF Settled
<1>3. CASE alive /\ AppendLine
  <2>1. /\ withdrawal.step = "line" /\ withdrawal' = [withdrawal EXCEPT !.step = "newline"]
        /\ entries' = entries /\ alive' = alive
    BY <1>3 DEF AppendLine
  <2>2. withdrawal'.step = "newline" /\ withdrawal'.request = withdrawal.request
    BY <2>1 DEF Shape
  <2> QED
    BY <1>3, <2>1, <2>2 DEF Settled
<1>4. CASE alive /\ AppendNewline
  <2>1. /\ withdrawal.step = "newline" /\ alive' = alive
        /\ DOMAIN entries' = DOMAIN entries \cup {withdrawal.request}
    BY <1>4 DEF AppendNewline
  <2> QED
    BY <1>4, <2>1 DEF Settled
<1>5. CASE alive /\ ~CustodyCrash /\ ~AppendLine /\ ~AppendNewline
  <2>1. alive' = alive /\ entries' = entries
    BY <1>5 DEF Next, vars, memory, BuildCandidate, BlockMined, NoNonce, NodeRestart,
                WithdrawalStep, ListUnspent, SubmitTransaction,
                ListFails, AnswerLost, SignWithdrawal, ProcesarRetiro,
                RechazarRetiro, Tick, ReportarResultado, ReportFails
  <2>2. ASSUME withdrawal.step \in {"line", "newline"}
        PROVE  withdrawal' = withdrawal
    <3>1. withdrawal # NoWithdrawal
      BY <2>2 DEF NoWithdrawal
    <3> QED
      BY <1>5, <2>2, <3>1 DEF Next, vars, memory, BuildCandidate, BlockMined, NoNonce, NodeRestart,
            WithdrawalStep, ListUnspent, SubmitTransaction, ListFails, AnswerLost, SignWithdrawal,
            ProcesarRetiro, LockFree, RechazarRetiro, Tick, ReportarResultado, ReportFails
  <2> QED
    BY <1>5, <2>1, <2>2 DEF Settled
<1> QED
  BY <1>1, <1>2, <1>3, <1>4, <1>5

LEMMA NextCount ==
  ASSUME Inv, FaultsOK, CallOK, ExactInv, JournalInv, CountInv, [Next]_vars
  PROVE  CountInv'
<1> SUFFICES ASSUME NEW r \in Requests
             PROVE  Cardinality(Made(r)') <= Losses' + (IF Settled(r)' THEN 1 ELSE 0)
  BY DEF CountInv
<1>0. Shape
  BY DEF Inv
<1>1. /\ Losses \in Nat /\ Losses' \in Nat /\ Losses' >= Losses
      /\ Cardinality(Made(r)) \in Nat
      /\ Cardinality(Made(r)) <= Losses + (IF Settled(r) THEN 1 ELSE 0)
  BY <1>0, LossesCounted, MadeFinite DEF CountInv
<1>2. CASE made' = made
  <2>1. Made(r)' = Made(r)
    BY <1>2 DEF Made, Txids
  <2>2. CASE Settled(r) => Settled(r)'
    BY <1>1, <2>1, <2>2
  <2>3. CASE Settled(r) /\ ~Settled(r)'
    <3>1. JournalFails \/ (CustodyCrash /\ withdrawal # NoWithdrawal)
      BY <1>0, <2>3, StaysSettled
    <3>2. Losses' >= Losses + 1
      BY <3>1, LossesCounted
    <3> QED
      BY <1>1, <2>1, <3>2
  <2> QED
    BY <2>2, <2>3
<1>3. CASE made' # made
  <2>1. PICK tx : tx = withdrawal.tx
    OBVIOUS
  <2>2. withdrawal.step = "submit" /\ Admit(tx) /\ (SubmitTransaction \/ AnswerLost)
    BY <1>3, <2>1, MadeNext
  <2>3. tx.to = withdrawal.request /\ alive /\ tx.to \notin DOMAIN entries
    BY <2>1, <2>2 DEF CallOK, JournalInv
  <2>4. /\ Cardinality(Made(r)') <= Cardinality(Made(r)) + 1
        /\ tx.to # r => Made(r)' = Made(r)
    BY <1>0, <2>2, OneMore
  <2>5. Cardinality(Made(r)') \in Nat
    <3>1. Shape'
      BY NextInv DEF Inv
    <3>2. IsFiniteSet(DOMAIN made')
      <4>1. Len(made') \in Nat /\ DOMAIN made' = 1..Len(made')
        BY <3>1, Appending DEF Shape
      <4> QED
        BY <4>1, FS_Interval
    <3>3. Made(r)' \in SUBSET (DOMAIN made')
      BY DEF Made, Txids
    <3> QED
      BY <3>2, <3>3, FS_Subset, FS_CardinalityType
  <2>6. CASE tx.to # r
    <3>1. Settled(r) => Settled(r)'
      <4>1. ~JournalFails /\ (CustodyCrash => withdrawal = NoWithdrawal)
        BY <1>3, <2>2 DEF JournalFails, CustodyCrash, node
      <4> QED
        BY <1>0, <4>1, StaysSettled
    <3> QED
      BY <1>1, <2>4, <2>6, <3>1
  <2>7. CASE tx.to = r
    <3>1. ~Settled(r)
      BY <2>2, <2>3, <2>7 DEF Settled
    <3>2. Cardinality(Made(r)') <= Losses + 1
      BY <1>1, <2>4, <2>5, <3>1
    <3>3. CASE AnswerLost
      <4>1. Losses' >= Losses + 1
        BY <3>3, LossesCounted
      <4> QED
        BY <1>1, <2>5, <3>2, <4>1
    <3>4. CASE SubmitTransaction
      <4>1. withdrawal' = [withdrawal EXCEPT !.step = "line", !.txid = TxidOf(withdrawal.tx)]
        BY <1>3, <3>4 DEF SubmitTransaction, node
      <4>2. withdrawal'.step = "line" /\ withdrawal'.request = r /\ alive' = alive
        BY <1>0, <2>3, <2>7, <3>4, <4>1 DEF Shape, SubmitTransaction
      <4>3. Settled(r)'
        BY <2>3, <4>2 DEF Settled
      <4> QED
        BY <1>1, <2>5, <3>2, <4>3
    <3> QED
      BY <2>2, <3>3, <3>4
  <2> QED
    BY <2>6, <2>7
<1> QED
  BY <1>2, <1>3

LEMMA InitCount == Init => JournalInv /\ CountInv
<1> SUFFICES ASSUME Init PROVE JournalInv /\ CountInv
  OBVIOUS
<1>1. JournalInv
  BY DEF Init, JournalInv, NoWithdrawal
<1>2. ASSUME NEW r \in Requests
      PROVE  Cardinality(Made(r)) = 0
  <2>1. Made(r) = {}
    BY DEF Init, Made, Txids
  <2> QED
    BY <2>1, FS_EmptySet
<1>3. Losses = 0
  <2>1. "answer" \in FaultKinds /\ "crash" \in FaultKinds /\ "journal" \in FaultKinds
    BY DEF FaultKinds
  <2>2. faults["answer"] = 0 /\ faults["crash"] = 0 /\ faults["journal"] = 0
    BY <2>1 DEF Init
  <2> QED
    BY <2>2 DEF Losses
<1> QED
  BY <1>1, <1>2, <1>3 DEF CountInv

(* Each answer that is lost, each crash in a withdrawal and each line that *)
(* the journal could not take costs one payment of a request at most;      *)
(* failed calls, failed reports, restarts of the node and crashes between  *)
(* two withdrawals cost none.                                              *)
THEOREM OnePaymentMorePerLoss == Spec => []OneMorePerLoss
<1>1. Inv /\ TypeInv /\ CountInv => OneMorePerLoss
  <2> SUFFICES ASSUME Inv, TypeInv, CountInv, NEW r \in Requests
               PROVE  Cardinality(Payments(r))
                        <= 1 + faults["answer"] + faults["crash"] + faults["journal"]
    BY DEF OneMorePerLoss
  <2>1. IsFiniteSet(Made(r)) /\ Cardinality(Made(r)) \in Nat
    BY MadeFinite DEF Inv
  <2>2. Payments(r) \in SUBSET Made(r)
    BY DEF Payments, Made, TypeInv, NodeOK
  <2>3. Cardinality(Payments(r)) \in Nat /\ Cardinality(Payments(r)) <= Cardinality(Made(r))
    BY <2>1, <2>2, FS_Subset, FS_CardinalityType
  <2>4. Cardinality(Made(r)) <= Losses + (IF Settled(r) THEN 1 ELSE 0)
    BY DEF CountInv
  <2>5. faults["answer"] \in Nat /\ faults["crash"] \in Nat /\ faults["journal"] \in Nat
    BY DEF TypeInv, FaultsOK, FaultKinds
  <2> QED
    BY <2>1, <2>3, <2>4, <2>5 DEF Losses
<1>2. /\ Inv /\ TypeInv /\ ExactInv /\ JournalInv /\ CountInv /\ [Next]_vars
         => ExactInv' /\ JournalInv' /\ CountInv'
  BY NextExact, NextJournal, NextCount DEF Inv, TypeInv
<1> QED
  BY <1>1, <1>2, InitExact, InitCount, WithdrawalsInvariant, PTL DEF Spec
=============================================================================
