---------------------------- MODULE Payments_proofs ----------------------------
(* Proofs of the safety properties of Payments, for every payment method,   *)
(* total, number of payments and number of concurrent requests.             *)
EXTENDS Payments, TLAPS

-----------------------------------------------------------------------------
(* The schedule template and the split of an order's total. *)

\* buildTemplate yields one, two or three lines, with the percentages and the
\* initial statuses of its cases.
LEMMA TemplateShape ==
  ASSUME NEW method \in PaymentMethods
  PROVE  LET t == BuildTemplate(method) IN
         \/ /\ Len(t) = 1 /\ t[1].pct = 100
            /\ t[1].status \in {"PENDING", "DUE"}
         \/ /\ Len(t) = 2 /\ t[1].pct = 30 /\ t[2].pct = 70
            /\ t[1].status = "DUE" /\ t[2].status = "PENDING"
         \/ /\ Len(t) = 3 /\ t[1].pct = 20 /\ t[2].pct = 40 /\ t[3].pct = 40
            /\ t[1].status = "DUE" /\ t[2].status = "PENDING"
            /\ t[3].status = "PENDING"
  BY DEF BuildTemplate, PaymentMethods, CreditMethods, PartialMethods, Line

\* For every method and every total, each schedule's amount is a natural
\* number: although all lines but the last are rounded half up, the last
\* line, which absorbs the remainder, never becomes negative.
THEOREM SplitIsNonNegative ==
  ASSUME NEW method \in PaymentMethods, NEW total \in Nat
  PROVE  LET t == BuildTemplate(method) IN
         SplitByPercentages(total, t) \in [1 .. Len(t) -> Nat]
<1> DEFINE t == BuildTemplate(method)
<1>1. CASE Len(t) = 1 /\ t[1].pct = 100
  BY <1>1 DEF SplitByPercentages, Allocated
<1>2. CASE Len(t) = 2 /\ t[1].pct = 30 /\ t[2].pct = 70
  BY <1>2 DEF SplitByPercentages, Allocated, Part
<1>3. CASE Len(t) = 3 /\ t[1].pct = 20 /\ t[2].pct = 40 /\ t[3].pct = 40
  BY <1>3 DEF SplitByPercentages, Allocated, Part
<1> QED BY <1>1, <1>2, <1>3, TemplateShape

-----------------------------------------------------------------------------
(* The payments. *)

\* The rows of the order exist and their amounts are natural numbers.
LEMMA AmountFacts ==
  /\ Schedules # {} /\ 1 \in Schedules /\ Schedules \subseteq Nat
  /\ Amount \in [Schedules -> Nat]
  /\ \A i \in Schedules : Template[i].status \in {"PENDING", "DUE"}
<1>1. Amount \in [Schedules -> Nat]
  BY MethodAssumption, TotalAssumption, SplitIsNonNegative
  DEF Amount, Schedules, Template
<1>2. Len(Template) \in {1, 2, 3}
        /\ \A i \in 1 .. Len(Template) : Template[i].status \in {"PENDING", "DUE"}
  BY MethodAssumption, TemplateShape DEF Template
<1> QED BY <1>1, <1>2 DEF Schedules

USE DEF At, PayStatus, TxnStatus, SchedStatus, PiStatus, SchedRow, PiRow,
        PayRow, Request, Writes

LEMMA IdleType ==
  /\ Idle \in Request /\ Idle.at = "idle"
  /\ NoWrites \in Writes
  /\ NewPi \in PiRow
  /\ \A i \in Schedules : NewSched(i) \in SchedRow
BY AmountFacts, TotalAssumption DEF Idle, NoWrites, NewPi, NewSched

-----------------------------------------------------------------------------
(* Type correctness *)

\* What applyVerifiedPayment writes is a row again when the amount fits.
LEMMA AppliedType ==
  /\ \A row \in SchedRow, a \in Nat :
       a <= row.remaining => Applied(row, a) \in SchedRow
  /\ \A row \in PiRow, a \in Nat :
       a <= row.remaining => Applied(row, a) \in PiRow
BY DEF Applied, PaidStatus

\* Moving a request to another step keeps requests and their writes typed.
LEMMA StepType ==
  ASSUME TypeOK, NEW r \in Requests
  PROVE  /\ \A at \in At, w \in Writes : Continue(r, at, w) =>
              req' \in [Requests -> Request] /\ tx' \in [Requests -> Writes]
         /\ Done(r) =>
              req' \in [Requests -> Request] /\ tx' \in [Requests -> Writes]
<1>1. ASSUME NEW at \in At, NEW w \in Writes, Continue(r, at, w)
      PROVE  req' \in [Requests -> Request] /\ tx' \in [Requests -> Writes]
  BY <1>1 DEF TypeOK, Continue
<1>2. ASSUME Done(r)
      PROVE  req' \in [Requests -> Request] /\ tx' \in [Requests -> Writes]
  <2> HIDE DEF Request, Writes
  <2> QED BY <1>2, IdleType DEF TypeOK, Done
<1> QED BY <1>1, <1>2

\* A step that only takes a lock and looks moves its request and nothing else.
LEMMA ClaimQuiet ==
  ASSUME TypeOK, NEW r \in Requests,
         SubmitTransaction(r) \/ SubmitReference(r) \/ VerifyClaim(r) \/ RejectClaim(r)
  PROVE  /\ UNCHANGED tables
         /\ \/ Done(r)
            \/ \E at \in At \ Writing, w \in Writes : w = tx[r] /\ Continue(r, at, w)
<1>1. tx[r] \in Writes
  BY DEF TypeOK
<1>2. {"reference", "submitPayment", "transaction", "rejectTransaction"} \subseteq At \ Writing
  BY DEF Writing, Verifying
<1>3. UNCHANGED tables
  BY DEF SubmitTransaction, SubmitReference, VerifyClaim, RejectClaim
<1>4. \/ Done(r) \/ Continue(r, "reference", tx[r]) \/ Continue(r, "submitPayment", tx[r])
      \/ Continue(r, "transaction", tx[r]) \/ Continue(r, "rejectTransaction", tx[r])
  BY DEF SubmitTransaction, SubmitReference, VerifyClaim, RejectClaim
<1> QED BY <1>1, <1>2, <1>3, <1>4

LEMMA TypeInit == Init => TypeOK
BY AmountFacts, IdleType, TotalAssumption DEF Init, TypeOK, NoPayRow

LEMMA TypeNext == TypeOK /\ [Next]_vars => TypeOK'
<1> SUFFICES ASSUME TypeOK, [Next]_vars PROVE TypeOK'
  OBVIOUS
<1> USE DEF TypeOK
<1>0. CASE UNCHANGED vars
  BY <1>0 DEF vars
<1> SUFFICES ASSUME NEW r \in Requests,
      \/ \E i \in Schedules, a \in InputAmounts, k \in Keys \cup {NoKey} :
           CreateRead(r, i, a, k)
      \/ \E p \in Payments : CreateInsert(r, p)
      \/ \E p \in Payments, u \in Utrs : SubmitRead(r, p, u)
      \/ SubmitTransaction(r) \/ SubmitReference(r) \/ SubmitCommit(r)
      \/ \E p \in Payments : VerifyRead(r, p)
      \/ VerifyClaim(r) \/ VerifyTransaction(r) \/ VerifySchedule(r)
      \/ VerifyProforma(r) \/ VerifyCommit(r) \/ Rollback(r)
      \/ \E p \in Payments : RejectRead(r, p)
      \/ RejectClaim(r) \/ RejectCommit(r)
      \/ \E i \in Schedules : MarkDueRead(r, i)
      \/ MarkDueWrite(r)
    PROVE TypeOK'
  BY <1>0 DEF Next
<1> USE IdleType
<1>1. ASSUME NEW i \in Schedules, NEW a \in InputAmounts,
             NEW k \in Keys \cup {NoKey}, CreateRead(r, i, a, k)
      PROVE  TypeOK'
  BY <1>1, AmountAssumption DEF CreateRead, Begin, tables
<1>2. ASSUME NEW p \in Payments, CreateInsert(r, p) PROVE TypeOK'
  BY <1>2 DEF CreateInsert, Done
<1>3. ASSUME NEW p \in Payments, NEW u \in Utrs, SubmitRead(r, p, u)
      PROVE  TypeOK'
  BY <1>3, AmountFacts DEF SubmitRead, Begin, tables
<1>4. CASE SubmitCommit(r)
  BY <1>4 DEF SubmitCommit, Updated, Done
<1>5. ASSUME NEW p \in Payments, VerifyRead(r, p) PROVE TypeOK'
  BY <1>5 DEF VerifyRead, Begin, tables
<1>15. CASE SubmitTransaction(r) \/ SubmitReference(r) \/ VerifyClaim(r) \/ RejectClaim(r)
  <2>1. UNCHANGED tables
    BY <1>15, ClaimQuiet
  <2>2. req' \in [Requests -> Request] /\ tx' \in [Requests -> Writes]
    <3>1. CASE Done(r)
      BY <3>1, StepType
    <3>2. ASSUME NEW at \in At \ Writing, NEW w \in Writes, Continue(r, at, w)
          PROVE  req' \in [Requests -> Request] /\ tx' \in [Requests -> Writes]
      BY <3>2, StepType
    <3> HIDE DEF Request, Writes, TypeOK
    <3> QED BY <1>15, <3>1, <3>2, ClaimQuiet DEF TypeOK
  <2> HIDE DEF Request, Writes
  <2> QED BY <2>1, <2>2 DEF tables
<1>6. CASE VerifyTransaction(r)
  <2> DEFINE w == [row |-> Applied(sched[req[r].s], req[r].amount),
                   pi |-> NewPi, draft |-> 0, settle |-> 0]
  <2>1. SchedApplicable(sched[req[r].s], req[r].amount) => w \in Writes
    BY AppliedType DEF SchedApplicable
  <2>2. \/ w \in Writes /\ Continue(r, "schedule", w)
        \/ Done(r)
    BY <1>6, <2>1 DEF VerifyTransaction
  <2> HIDE DEF w
  <2> QED BY <1>6, <2>2, StepType DEF VerifyTransaction, tables
<1>7. CASE VerifySchedule(r)
  <2> DEFINE w == [row |-> tx[r].row, pi |-> Applied(pi, req[r].amount),
                   draft |-> 0, settle |-> 0]
  <2>1. req[r].amount <= pi.remaining => w \in Writes
    BY AppliedType
  <2>2. \/ w \in Writes /\ Continue(r, "proforma", w)
        \/ Done(r)
    BY <1>7, <2>1 DEF VerifySchedule
  <2> HIDE DEF w
  <2> QED BY <1>7, <2>2, StepType DEF VerifySchedule, tables
<1>8. CASE VerifyProforma(r)
  BY <1>8 DEF VerifyProforma, Continue, tables
<1>9. CASE VerifyCommit(r)
  <2>0. /\ req[r] \in Request /\ tx[r] \in Writes
        /\ tx[r].draft \in Nat /\ tx[r].settle \in Nat /\ req[r].amount \in Nat
    OBVIOUS
  <2>1. pay' \in [Payments -> PayRow]
    BY <1>9 DEF VerifyCommit, Updated
  <2>1a. sched' \in [Schedules -> SchedRow]
    BY <1>9 DEF VerifyCommit
  <2>2. pi' \in PiRow
    BY <1>9 DEF VerifyCommit
  <2>3. invoices' \in Nat /\ settlements' \in Nat
    BY <1>9, <2>0 DEF VerifyCommit
  <2>4. credited' \in [Schedules -> Nat] /\ creditedTotal' \in Nat
    BY <1>9, <2>0 DEF VerifyCommit
  <2> QED BY <1>9, <2>1, <2>1a, <2>2, <2>3, <2>4, StepType DEF VerifyCommit
<1>10. CASE Rollback(r)
  BY <1>10 DEF Rollback, Done, tables
<1>11. ASSUME NEW p \in Payments, RejectRead(r, p) PROVE TypeOK'
  BY <1>11, AmountFacts DEF RejectRead, Begin, tables
<1>12. CASE RejectCommit(r)
  BY <1>12 DEF RejectCommit, Updated, Done
<1>13. ASSUME NEW i \in Schedules, MarkDueRead(r, i) PROVE TypeOK'
  BY <1>13 DEF MarkDueRead, Begin, tables
<1>14. CASE MarkDueWrite(r)
  BY <1>14 DEF MarkDueWrite, Done
<1> QED BY <1>1, <1>2, <1>3, <1>4, <1>5, <1>6, <1>7, <1>8, <1>9, <1>10,
           <1>11, <1>12, <1>13, <1>14, <1>15

\* Every reachable state of the payment tables and requests is well typed.
THEOREM TypeCorrect == Spec => []TypeOK
BY TypeInit, TypeNext, PTL DEF Spec

-----------------------------------------------------------------------------
(* Safety *)

\* A step that leaves the ledgers alone and starts or continues no
\* verification keeps the invariant.
LEMMA Frame ==
  ASSUME IInv, TypeOK',
         UNCHANGED <<sched, pi, invoices, settlements, credited, creditedTotal>>,
         \A q \in Requests :
           \/ req'[q] = req[q] /\ tx'[q] = tx[q]
           \/ req'[q].at \notin Writing
  PROVE  IInv'
<1> USE DEF IInv, Writing, Verifying
<1>1. LedgersBalance' /\ RecordedMoneyWasVerified' /\ PaidRowsAreFull'
        /\ AtMostOneDraft' /\ SettlementIsFunded'
  BY DEF LedgersBalance, RecordedMoneyWasVerified, PaidRowsAreFull,
         AtMostOneDraft, SettlementIsFunded
<1>2. ScheduleWritesSound'
  BY DEF ScheduleWritesSound
<1>3. PiWritesSound'
  BY DEF PiWritesSound
<1>4. OnePiWriter'
  BY DEF OnePiWriter
<1>5. DraftsSound'
  BY DEF DraftsSound
<1> QED BY <1>1, <1>2, <1>3, <1>4, <1>5

LEMMA InvInit == Init => IInv
<1> SUFFICES ASSUME Init PROVE IInv
  OBVIOUS
<1>1. TypeOK
  BY TypeInit
<1>2. \A r \in Requests : req[r].at = "idle"
  BY IdleType DEF Init
<1>3. ScheduleWritesSound /\ PiWritesSound /\ OnePiWriter /\ DraftsSound
  BY <1>2 DEF ScheduleWritesSound, PiWritesSound, OnePiWriter, DraftsSound,
              Writing, Verifying
<1>4. \A i \in Schedules : /\ sched[i].paid = 0 /\ sched[i].remaining = Amount[i]
                           /\ sched[i].status # "PAID" /\ credited[i] = 0
  BY AmountFacts DEF Init, NewSched
<1>5. pi.paid = 0 /\ pi.remaining = Total /\ creditedTotal = 0
        /\ invoices = 0 /\ settlements = 0
  BY DEF Init, NewPi
<1>6. LedgersBalance /\ RecordedMoneyWasVerified /\ PaidRowsAreFull
  BY <1>4, <1>5, AmountFacts, TotalAssumption
  DEF LedgersBalance, RecordedMoneyWasVerified, PaidRowsAreFull
<1>7. AtMostOneDraft /\ SettlementIsFunded
  BY <1>5 DEF AtMostOneDraft, SettlementIsFunded
<1> QED BY <1>1, <1>3, <1>6, <1>7 DEF IInv

\* What a verification is about to write balances and is backed by money.
LEMMA AppliedSound ==
  ASSUME NEW row, row.paid \in Nat, row.remaining \in Nat,
         NEW a \in Nat, a <= row.remaining
  PROVE  LET w == Applied(row, a) IN
         /\ w.paid = row.paid + a
         /\ w.remaining = row.remaining - a
         /\ w.status = "PAID" => w.remaining = 0
BY DEF Applied, PaidStatus

LEMMA TransactionStep ==
  ASSUME IInv, TypeOK', NEW r \in Requests, VerifyTransaction(r)
  PROVE  IInv'
<1> DEFINE i == req[r].s
           a == req[r].amount
<1> USE DEF IInv
<1>1. UNCHANGED <<sched, pi, invoices, settlements, credited, creditedTotal>>
  BY DEF VerifyTransaction, tables
<1>2. CASE Done(r)
  BY <1>1, <1>2, Frame, IdleType DEF Done, TypeOK, Writing, Verifying
<1>3. CASE /\ SchedApplicable(sched[i], a)
           /\ Continue(r, "schedule",
                       [row |-> Applied(sched[i], a), pi |-> NewPi,
                        draft |-> 0, settle |-> 0])
  <2>1. i \in Schedules /\ sched[i] \in SchedRow /\ a \in Nat
    BY DEF TypeOK
  <2>2. /\ req'[r].at = "schedule" /\ req'[r].s = i /\ req'[r].amount = a
        /\ tx'[r].row = Applied(sched[i], a) /\ req[r].at = "transaction"
    BY <1>3 DEF Continue, TypeOK, VerifyTransaction
  <2>3. \A q \in Requests \ {r} : req'[q] = req[q] /\ tx'[q] = tx[q]
    BY <1>3 DEF Continue, TypeOK
  <2>4. a <= sched[i].remaining /\ a > 0
    BY <1>3 DEF SchedApplicable
  <2>5. /\ tx'[r].row.paid = sched[i].paid + a
        /\ tx'[r].row.remaining = sched[i].remaining - a
        /\ tx'[r].row.status = "PAID" => tx'[r].row.remaining = 0
    BY <2>1, <2>2, <2>4, AppliedSound
  <2>6. /\ tx'[r].row.paid + tx'[r].row.remaining = Amount[i]
        /\ tx'[r].row.paid <= credited[i] + a
    <3>1. /\ sched[i].paid + sched[i].remaining = Amount[i]
          /\ sched[i].paid <= credited[i] /\ credited[i] \in Nat
          /\ sched[i].paid \in Nat /\ sched[i].remaining \in Nat
      BY <2>1 DEF TypeOK, LedgersBalance, RecordedMoneyWasVerified
    <3> HIDE DEF i, a
    <3> QED BY <2>1, <2>5, <3>1
  <2>7. ScheduleWritesSound'
    BY <1>1, <2>2, <2>3, <2>4, <2>5, <2>6 DEF ScheduleWritesSound
  <2>8. PiWritesSound' /\ OnePiWriter' /\ DraftsSound'
    BY <1>1, <2>2, <2>3 DEF PiWritesSound, OnePiWriter, DraftsSound
  <2> QED BY <1>1, <2>7, <2>8
    DEF LedgersBalance, RecordedMoneyWasVerified, PaidRowsAreFull,
        AtMostOneDraft, SettlementIsFunded
<1> QED BY <1>2, <1>3 DEF VerifyTransaction

LEMMA ScheduleStep ==
  ASSUME IInv, TypeOK', NEW r \in Requests, VerifySchedule(r)
  PROVE  IInv'
<1> DEFINE a == req[r].amount
<1> USE DEF IInv
<1>1. UNCHANGED <<sched, pi, invoices, settlements, credited, creditedTotal>>
  BY DEF VerifySchedule, tables
<1>2. CASE Done(r)
  BY <1>1, <1>2, Frame, IdleType DEF Done, TypeOK, Writing, Verifying
<1>3. CASE /\ a <= pi.remaining
           /\ Continue(r, "proforma",
                       [row |-> tx[r].row, pi |-> Applied(pi, a),
                        draft |-> 0, settle |-> 0])
  <2>1. pi \in PiRow /\ a \in Nat
    BY DEF TypeOK
  <2>2. /\ req'[r].at = "proforma" /\ req'[r].s = req[r].s
        /\ req'[r].amount = a /\ req[r].at = "schedule"
        /\ tx'[r].row = tx[r].row /\ tx'[r].pi = Applied(pi, a)
    BY <1>3 DEF Continue, TypeOK, VerifySchedule
  <2>3. \A q \in Requests \ {r} : req'[q] = req[q] /\ tx'[q] = tx[q]
    BY <1>3 DEF Continue, TypeOK
  <2>4. /\ tx'[r].pi.paid = pi.paid + a
        /\ tx'[r].pi.remaining = pi.remaining - a
        /\ tx'[r].pi.status = "PAID" => tx'[r].pi.remaining = 0
    BY <1>3, <2>1, <2>2, AppliedSound
  <2>5. /\ tx'[r].pi.paid + tx'[r].pi.remaining = Total
        /\ tx'[r].pi.paid <= creditedTotal + a
    BY <1>3, <2>1, <2>4, TotalAssumption
    DEF TypeOK, LedgersBalance, RecordedMoneyWasVerified
  <2>6. PiWritesSound'
    BY <1>1, <2>2, <2>3, <2>4, <2>5 DEF PiWritesSound
  <2>7. ScheduleWritesSound'
    BY <1>1, <2>2, <2>3 DEF ScheduleWritesSound, Writing, Verifying
  <2>8. OnePiWriter' /\ DraftsSound'
    BY <1>1, <2>2, <2>3 DEF OnePiWriter, DraftsSound
  <2> QED BY <1>1, <2>6, <2>7, <2>8
    DEF LedgersBalance, RecordedMoneyWasVerified, PaidRowsAreFull,
        AtMostOneDraft, SettlementIsFunded
<1> QED BY <1>2, <1>3 DEF VerifySchedule

LEMMA ProformaStep ==
  ASSUME IInv, TypeOK', NEW r \in Requests, VerifyProforma(r)
  PROVE  IInv'
<1> USE DEF IInv
<1>1. UNCHANGED <<sched, pi, invoices, settlements, credited, creditedTotal>>
  BY DEF VerifyProforma, tables
<1>2. /\ req'[r].at = "commit" /\ req'[r].s = req[r].s
      /\ req'[r].amount = req[r].amount /\ req[r].at = "proforma"
      /\ tx'[r].row = tx[r].row /\ tx'[r].pi = tx[r].pi
      /\ tx'[r].draft = 1 => invoices = 0
      /\ tx'[r].settle = 1 =>
           AllPaid(r) /\ tx[r].pi.status = "PAID" /\ settlements = 0
  BY DEF VerifyProforma, Continue, TypeOK
<1>3. \A q \in Requests \ {r} : req'[q] = req[q] /\ tx'[q] = tx[q]
  BY DEF VerifyProforma, Continue, TypeOK
<1>4. \A q \in Requests : req[q].at # "commit"
  BY DEF VerifyProforma, PiLocked
<1>5. OnePiWriter'
  BY <1>2, <1>3, <1>4 DEF OnePiWriter
<1>6. PiWritesSound' /\ ScheduleWritesSound'
  BY <1>1, <1>2, <1>3 DEF PiWritesSound, ScheduleWritesSound, Writing, Verifying
<1>7. ASSUME tx'[r].settle = 1
      PROVE  /\ settlements = 0
             /\ tx[r].row.remaining = 0 /\ tx[r].pi.remaining = 0
             /\ \A i \in Schedules \ {req[r].s} : credited[i] >= Amount[i]
  <2>1. tx[r].row.remaining = 0 /\ tx[r].pi.remaining = 0 /\ settlements = 0
    BY <1>2, <1>7 DEF AllPaid, ScheduleWritesSound, PiWritesSound, Writing, Verifying
  <2>2. ASSUME NEW i \in Schedules \ {req[r].s}
        PROVE  credited[i] >= Amount[i]
    <3>1. sched[i].remaining = 0
      BY <1>2, <1>7, <2>2 DEF AllPaid, PaidRowsAreFull
    <3>2. sched[i].paid = Amount[i] /\ sched[i].paid <= credited[i]
      BY <3>1, AmountFacts
      DEF TypeOK, LedgersBalance, RecordedMoneyWasVerified
    <3> QED BY <3>2, AmountFacts DEF TypeOK
  <2> QED BY <2>1, <2>2
<1>8. DraftsSound'
  BY <1>1, <1>2, <1>3, <1>4, <1>7 DEF DraftsSound
<1> QED BY <1>1, <1>5, <1>6, <1>8
  DEF LedgersBalance, RecordedMoneyWasVerified, PaidRowsAreFull,
      AtMostOneDraft, SettlementIsFunded

LEMMA CommitStep ==
  ASSUME IInv, TypeOK', NEW r \in Requests, VerifyCommit(r)
  PROVE  IInv'
<1> DEFINE s == req[r].s
           a == req[r].amount
<1> USE DEF IInv
<1>1. /\ req[r].at = "commit" /\ s \in Schedules /\ a \in Nat
      /\ tx[r].draft \in {0, 1} /\ tx[r].settle \in {0, 1}
      /\ tx[r].row \in SchedRow /\ tx[r].pi \in PiRow
  BY DEF VerifyCommit, TypeOK
<1>2. /\ req'[r].at = "idle"
      /\ \A q \in Requests \ {r} : req'[q] = req[q] /\ tx'[q] = tx[q]
  BY IdleType DEF VerifyCommit, Done, TypeOK
<1>3. /\ sched'[s] = tx[r].row /\ credited'[s] = credited[s] + a
      /\ \A i \in Schedules \ {s} :
           sched'[i] = sched[i] /\ credited'[i] = credited[i]
  BY DEF VerifyCommit, TypeOK
<1>4. /\ pi' = tx[r].pi /\ creditedTotal' = creditedTotal + a
      /\ invoices' = invoices + tx[r].draft
      /\ settlements' = settlements + tx[r].settle
  BY DEF VerifyCommit
<1>5. \A i \in Schedules : credited[i] <= credited'[i]
  <2>1. \A i \in Schedules : credited[i] \in Nat
    BY DEF TypeOK
  <2> QED BY <1>1, <1>3, <2>1
<1>6. creditedTotal <= creditedTotal'
  BY <1>1, <1>4 DEF TypeOK
<1>7. /\ tx[r].row.paid + tx[r].row.remaining = Amount[s]
      /\ tx[r].row.paid <= credited[s] + a
      /\ tx[r].row.status = "PAID" => tx[r].row.remaining = 0
      /\ tx[r].pi.paid + tx[r].pi.remaining = Total
      /\ tx[r].pi.paid <= creditedTotal + a
  BY <1>1 DEF ScheduleWritesSound, PiWritesSound, Writing, Verifying
<1>8. LedgersBalance'
  BY <1>3, <1>4, <1>7 DEF LedgersBalance
<1>9. RecordedMoneyWasVerified'
  BY <1>3, <1>4, <1>7 DEF RecordedMoneyWasVerified
<1>10. PaidRowsAreFull'
  BY <1>3, <1>7 DEF PaidRowsAreFull
<1>11. \A q \in Requests : req'[q].at # "commit"
  BY <1>1, <1>2 DEF OnePiWriter
<1>12. OnePiWriter' /\ DraftsSound'
  BY <1>11 DEF OnePiWriter, DraftsSound
<1>13. ScheduleWritesSound'
  <2> SUFFICES ASSUME NEW q \in Requests, req'[q].at \in Writing
               PROVE  /\ req'[q].amount > 0
                      /\ tx'[q].row.paid + tx'[q].row.remaining = Amount[req'[q].s]
                      /\ tx'[q].row.paid <= credited'[req'[q].s] + req'[q].amount
                      /\ tx'[q].row.status = "PAID" => tx'[q].row.remaining = 0
    BY DEF ScheduleWritesSound
  <2>1. q # r /\ req'[q] = req[q] /\ tx'[q] = tx[q]
    BY <1>2 DEF Writing, Verifying
  <2>2. /\ req[q].amount > 0
        /\ tx[q].row.paid + tx[q].row.remaining = Amount[req[q].s]
        /\ tx[q].row.paid <= credited[req[q].s] + req[q].amount
        /\ tx[q].row.status = "PAID" => tx[q].row.remaining = 0
    BY <2>1 DEF ScheduleWritesSound
  <2>3. /\ credited[req[q].s] \in Nat /\ credited'[req[q].s] \in Nat
        /\ credited[req[q].s] <= credited'[req[q].s]
        /\ req[q].amount \in Nat /\ tx[q].row.paid \in Nat
    BY <1>5 DEF TypeOK
  <2> QED BY <2>1, <2>2, <2>3
<1>14. PiWritesSound'
  <2> SUFFICES ASSUME NEW q \in Requests, req'[q].at \in {"proforma", "commit"}
               PROVE  /\ tx'[q].pi.paid + tx'[q].pi.remaining = Total
                      /\ tx'[q].pi.paid <= creditedTotal' + req'[q].amount
                      /\ tx'[q].pi.status = "PAID" => tx'[q].pi.remaining = 0
    BY DEF PiWritesSound
  <2>1. q # r /\ req'[q] = req[q] /\ tx'[q] = tx[q]
    BY <1>2
  <2>2. /\ tx[q].pi.paid + tx[q].pi.remaining = Total
        /\ tx[q].pi.paid <= creditedTotal + req[q].amount
        /\ tx[q].pi.status = "PAID" => tx[q].pi.remaining = 0
    BY <2>1 DEF PiWritesSound
  <2>3. /\ creditedTotal \in Nat /\ creditedTotal' \in Nat
        /\ req[q].amount \in Nat /\ tx[q].pi.paid \in Nat
    BY DEF TypeOK
  <2> QED BY <1>6, <2>1, <2>2, <2>3
<1>15. AtMostOneDraft'
  BY <1>1, <1>4 DEF AtMostOneDraft, DraftsSound, TypeOK
<1>16. SettlementIsFunded'
  <2>1. CASE settlements > 0
    BY <1>4, <1>5, <1>6, <2>1, AmountFacts, TotalAssumption
    DEF SettlementIsFunded, TypeOK
  <2>2. CASE tx[r].settle = 1
    <3>1. /\ tx[r].row.remaining = 0 /\ tx[r].pi.remaining = 0
          /\ \A i \in Schedules \ {s} : credited[i] >= Amount[i]
      BY <1>1, <2>2 DEF DraftsSound
    <3>2. credited'[s] >= Amount[s]
      BY <1>1, <1>3, <1>7, <3>1, AmountFacts DEF TypeOK
    <3>3. creditedTotal' >= Total
      BY <1>1, <1>4, <1>7, <3>1, TotalAssumption DEF TypeOK
    <3> QED BY <1>3, <3>1, <3>2, <3>3 DEF SettlementIsFunded
  <2>3. CASE settlements = 0 /\ tx[r].settle = 0
    BY <1>4, <2>3 DEF SettlementIsFunded
  <2> QED BY <1>1, <2>1, <2>2, <2>3 DEF TypeOK
<1> QED BY <1>8, <1>9, <1>10, <1>12, <1>13, <1>14, <1>15, <1>16

LEMMA MarkDueStep ==
  ASSUME IInv, TypeOK', NEW r \in Requests, MarkDueWrite(r)
  PROVE  IInv'
<1> USE DEF IInv
<1>1. /\ req'[r].at = "idle"
      /\ \A q \in Requests \ {r} : req'[q] = req[q] /\ tx'[q] = tx[q]
      /\ UNCHANGED <<pi, invoices, settlements, credited, creditedTotal>>
  BY IdleType DEF MarkDueWrite, Done, TypeOK
<1>2. \A i \in Schedules :
        /\ sched'[i].paid = sched[i].paid
        /\ sched'[i].remaining = sched[i].remaining
        /\ sched'[i].status \in {sched[i].status, "DUE"}
  BY DEF MarkDueWrite, TypeOK
<1>3. LedgersBalance' /\ RecordedMoneyWasVerified' /\ PaidRowsAreFull'
  BY <1>1, <1>2 DEF LedgersBalance, RecordedMoneyWasVerified, PaidRowsAreFull
<1>4. AtMostOneDraft' /\ SettlementIsFunded'
  BY <1>1 DEF AtMostOneDraft, SettlementIsFunded
<1>5. ScheduleWritesSound' /\ PiWritesSound'
  BY <1>1 DEF ScheduleWritesSound, PiWritesSound, Writing, Verifying
<1>6. OnePiWriter' /\ DraftsSound'
  BY <1>1 DEF OnePiWriter, DraftsSound
<1> QED BY <1>3, <1>4, <1>5, <1>6

\* The request of such a step does not write the schedule after it.
LEMMA ClaimMoves ==
  ASSUME TypeOK, NEW r \in Requests,
         SubmitTransaction(r) \/ SubmitReference(r) \/ VerifyClaim(r) \/ RejectClaim(r)
  PROVE  /\ req'[r].at \notin Writing
         /\ \A q \in Requests \ {r} : req'[q] = req[q] /\ tx'[q] = tx[q]
<1>1. CASE Done(r)
  BY <1>1, IdleType DEF Done, TypeOK, Writing, Verifying
<1>2. ASSUME NEW at \in At \ Writing, NEW w \in Writes, Continue(r, at, w)
      PROVE  /\ req'[r].at = at
             /\ \A q \in Requests \ {r} : req'[q] = req[q] /\ tx'[q] = tx[q]
  BY <1>2 DEF Continue, TypeOK
<1> HIDE DEF At, Writes, Request
<1> QED BY <1>1, <1>2, ClaimQuiet

LEMMA InvNext == IInv /\ [Next]_vars => IInv'
<1> SUFFICES ASSUME IInv, [Next]_vars PROVE IInv'
  OBVIOUS
<1>1. TypeOK /\ TypeOK'
  BY TypeNext DEF IInv
<1>2. CASE UNCHANGED vars
  BY <1>1, <1>2, Frame DEF vars
<1>3. ASSUME NEW r \in Requests,
        \/ \E i \in Schedules, a \in InputAmounts, k \in Keys \cup {NoKey} :
             CreateRead(r, i, a, k)
        \/ \E p \in Payments, u \in Utrs : SubmitRead(r, p, u)
        \/ \E p \in Payments : VerifyRead(r, p) \/ RejectRead(r, p)
        \/ \E i \in Schedules : MarkDueRead(r, i)
      PROVE IInv'
  BY <1>1, <1>3, Frame
  DEF CreateRead, SubmitRead, VerifyRead, RejectRead, MarkDueRead, Begin,
      tables, TypeOK, Writing, Verifying
<1>5. ASSUME NEW r \in Requests,
             SubmitTransaction(r) \/ SubmitReference(r) \/ VerifyClaim(r) \/ RejectClaim(r)
      PROVE IInv'
  <2>0. UNCHANGED tables
    BY <1>1, <1>5, ClaimQuiet
  <2>1. req'[r].at \notin Writing
    BY <1>1, <1>5, ClaimMoves
  <2>2. \A q \in Requests \ {r} : req'[q] = req[q] /\ tx'[q] = tx[q]
    BY <1>1, <1>5, ClaimMoves
  <2> QED BY <1>1, <2>0, <2>1, <2>2, Frame DEF tables
<1>4. ASSUME NEW r \in Requests,
        \/ \E p \in Payments : CreateInsert(r, p)
        \/ SubmitCommit(r) \/ RejectCommit(r) \/ Rollback(r)
      PROVE IInv'
  BY <1>1, <1>4, Frame, IdleType
  DEF CreateInsert, SubmitCommit, RejectCommit, Rollback, Done, tables,
      TypeOK, Writing, Verifying
<1> QED BY <1>1, <1>2, <1>3, <1>4, <1>5, TransactionStep, ScheduleStep, ProformaStep,
           CommitStep, MarkDueStep DEF Next

\* The inductive invariant holds in every reachable state.
THEOREM Inductive == Spec => []IInv
BY InvInit, InvNext, PTL DEF Spec

\* For every instance: the rows balance, and show no money as paid that no
\* committed verification brought in.
THEOREM LedgersAreSound == Spec => [](LedgersBalance /\ RecordedMoneyWasVerified)
<1>1. IInv => LedgersBalance /\ RecordedMoneyWasVerified
  BY DEF IInv
<1> QED BY <1>1, Inductive, PTL

\* For every instance: whatever updates are lost, a schedule or the invoice
\* never shows money as paid that no committed verification brought in.
THEOREM PaidMoneyWasVerified == Spec => []RecordedMoneyWasVerified
BY LedgersAreSound, PTL

\* For every instance: at most one invoice draft and one settlement draft,
\* although only the order of the row locks protects them.
THEOREM DraftsAreUnique == Spec => []AtMostOneDraft
<1>1. IInv => AtMostOneDraft
  BY DEF IInv
<1> QED BY <1>1, Inductive, PTL

\* For every instance: a settlement draft means every schedule was covered
\* in full by verified payments.
THEOREM SettlementsAreFunded == Spec => []SettlementIsFunded
<1>1. IInv => SettlementIsFunded
  BY DEF IInv
<1> QED BY <1>1, Inductive, PTL

\* For every instance: an open dispatch gate means the lines that block
\* dispatch were covered in full by verified payments.
THEOREM ClearancesAreFunded == Spec => []ClearanceIsFunded
<1>1. IInv => ClearanceIsFunded
  BY AmountFacts DEF IInv, TypeOK, ClearanceIsFunded, ClearedForDispatch,
     LedgersBalance, RecordedMoneyWasVerified
<1> QED BY <1>1, Inductive, PTL

-----------------------------------------------------------------------------
(* Unique keys and references, and what may reopen a payment *)

\* What open submits have written is on no other payment, committed or not.
ReferencesSound ==
  /\ \A r \in Requests : req[r].at \in {"submit", "reference", "submitPayment"} =>
       req[r].utr \in Utrs
  /\ \A r \in Requests : req[r].at = "submitPayment" => ~UtrTaken(req[r].p, req[r].utr)
  /\ \A q, r \in Requests :
       (/\ req[q].at = "submitPayment" /\ req[r].at = "submitPayment"
        /\ req[q].utr = req[r].utr) => q = r

UniqueInv == NoDuplicatePayments /\ ReferencesSound

\* Of the steps only four write payments, and they end their requests.
LEMMA PayWrites ==
  ASSUME TypeOK, [Next]_vars
  PROVE  \/ UNCHANGED pay
         \/ \E r \in Requests :
              /\ \/ \E p \in Payments : CreateInsert(r, p)
                 \/ SubmitCommit(r) \/ VerifyCommit(r) \/ RejectCommit(r)
              /\ req'[r].at = "idle"
              /\ \A q \in Requests \ {r} : req'[q] = req[q]
<1>1. ASSUME NEW r \in Requests, Done(r)
      PROVE  req'[r].at = "idle" /\ \A q \in Requests \ {r} : req'[q] = req[q]
  BY <1>1, IdleType DEF Done, TypeOK
<1>2. ASSUME NEW r \in Requests, NEW p \in Payments, CreateInsert(r, p) PROVE Done(r)
  BY <1>2 DEF CreateInsert
<1>3. ASSUME NEW r \in Requests, SubmitCommit(r) \/ VerifyCommit(r) \/ RejectCommit(r)
      PROVE  Done(r)
  BY <1>3 DEF SubmitCommit, VerifyCommit, RejectCommit
<1>4. \/ UNCHANGED pay
      \/ \E r \in Requests : \/ \E p \in Payments : CreateInsert(r, p)
                             \/ SubmitCommit(r) \/ VerifyCommit(r) \/ RejectCommit(r)
  BY DEF Next, vars, tables, Begin, CreateRead, SubmitRead, SubmitTransaction,
         SubmitReference, VerifyRead, VerifyClaim, VerifyTransaction, VerifySchedule,
         VerifyProforma, Rollback, RejectRead, RejectClaim, MarkDueRead, MarkDueWrite
<1> QED BY <1>1, <1>2, <1>3, <1>4

\* How a request moves in a step that leaves the payments alone.
LEMMA RequestMoves ==
  ASSUME TypeOK, [Next]_vars, UNCHANGED pay, UNCHANGED req => FALSE
  PROVE  \E r \in Requests :
           /\ \A q \in Requests \ {r} : req'[q] = req[q]
           /\ \/ req'[r].at = "idle"
              \/ /\ req'[r].at \in {"create", "verify", "markDue"}
              \/ \E p \in Payments, u \in Utrs :
                   req'[r].at = "submit" /\ req'[r].p = p /\ req'[r].utr = u
              \/ \E p \in Payments : req'[r].at = "reject" /\ req'[r].p = p
              \/ /\ req'[r].p = req[r].p /\ req'[r].utr = req[r].utr
                 /\ \/ req[r].at = "submit" /\ req'[r].at = "reference"
                    \/ SubmitReference(r) /\ req'[r].at = "submitPayment"
                         /\ ~UtrTaken(req[r].p, req[r].utr)
                    \/ VerifyClaim(r) /\ req'[r].at = "transaction"
                    \/ req[r].at \in Verifying /\ req'[r].at \in Verifying
                    \/ RejectClaim(r) /\ req'[r].at = "rejectTransaction"
                         /\ pay[req[r].p].status \in {"UNDER_VERIFICATION", "SUBMITTED"}
<1> DEFINE Goal(r) ==
      /\ \A q \in Requests \ {r} : req'[q] = req[q]
      /\ \/ req'[r].at = "idle"
         \/ /\ req'[r].at \in {"create", "verify", "markDue"}
         \/ \E p \in Payments, u \in Utrs :
              req'[r].at = "submit" /\ req'[r].p = p /\ req'[r].utr = u
         \/ \E p \in Payments : req'[r].at = "reject" /\ req'[r].p = p
         \/ /\ req'[r].p = req[r].p /\ req'[r].utr = req[r].utr
            /\ \/ req[r].at = "submit" /\ req'[r].at = "reference"
               \/ SubmitReference(r) /\ req'[r].at = "submitPayment"
                    /\ ~UtrTaken(req[r].p, req[r].utr)
               \/ VerifyClaim(r) /\ req'[r].at = "transaction"
               \/ req[r].at \in Verifying /\ req'[r].at \in Verifying
               \/ RejectClaim(r) /\ req'[r].at = "rejectTransaction"
                    /\ pay[req[r].p].status \in {"UNDER_VERIFICATION", "SUBMITTED"}
<1>1. ASSUME NEW r \in Requests, Done(r) PROVE Goal(r)
  BY <1>1, IdleType DEF Done, TypeOK
<1>2. ASSUME NEW r \in Requests, NEW at, NEW p, NEW i, NEW a, NEW k, NEW u, Begin(r, at, p, i, a, k, u)
      PROVE  /\ req'[r].at = at /\ req'[r].p = p /\ req'[r].utr = u
             /\ \A q \in Requests \ {r} : req'[q] = req[q]
  BY <1>2 DEF Begin, TypeOK
<1>3. ASSUME NEW r \in Requests, NEW at, NEW w, Continue(r, at, w)
      PROVE  /\ req'[r].at = at /\ req'[r].p = req[r].p /\ req'[r].utr = req[r].utr
             /\ \A q \in Requests \ {r} : req'[q] = req[q]
  BY <1>3 DEF Continue, TypeOK
<1>4. ASSUME NEW r \in Requests, NEW i \in Schedules, NEW a \in InputAmounts,
             NEW k \in Keys \cup {NoKey}, CreateRead(r, i, a, k)
      PROVE  Goal(r)
  BY <1>2, <1>4 DEF CreateRead
<1>5. ASSUME NEW r \in Requests, NEW p \in Payments, NEW u \in Utrs, SubmitRead(r, p, u)
      PROVE  Goal(r)
  BY <1>2, <1>5 DEF SubmitRead
<1>6. ASSUME NEW r \in Requests, NEW p \in Payments, VerifyRead(r, p) \/ RejectRead(r, p)
      PROVE  Goal(r)
  BY <1>2, <1>6 DEF VerifyRead, RejectRead
<1>7. ASSUME NEW r \in Requests, NEW i \in Schedules, MarkDueRead(r, i)
      PROVE  Goal(r)
  BY <1>2, <1>7 DEF MarkDueRead
<1>8. ASSUME NEW r \in Requests, SubmitTransaction(r) PROVE Goal(r)
  BY <1>3, <1>8 DEF SubmitTransaction
<1>9. ASSUME NEW r \in Requests, SubmitReference(r) PROVE Goal(r)
  BY <1>1, <1>3, <1>9 DEF SubmitReference
<1>10. ASSUME NEW r \in Requests, VerifyClaim(r) PROVE Goal(r)
  BY <1>1, <1>3, <1>10 DEF VerifyClaim
<1>11. ASSUME NEW r \in Requests, VerifyTransaction(r) \/ VerifySchedule(r) \/ VerifyProforma(r)
       PROVE  Goal(r)
  BY <1>1, <1>3, <1>11 DEF VerifyTransaction, VerifySchedule, VerifyProforma, Verifying
<1>12. ASSUME NEW r \in Requests, RejectClaim(r) PROVE Goal(r)
  BY <1>1, <1>3, <1>12 DEF RejectClaim
<1>13. ASSUME NEW r \in Requests,
              \/ \E p \in Payments : CreateInsert(r, p)
              \/ SubmitCommit(r) \/ VerifyCommit(r) \/ Rollback(r) \/ RejectCommit(r)
              \/ MarkDueWrite(r)
       PROVE  Goal(r)
  BY <1>1, <1>13 DEF CreateInsert, SubmitCommit, VerifyCommit, Rollback, RejectCommit, MarkDueWrite
<1>14. PICK r \in Requests : Goal(r)
  <2> HIDE DEF Goal
  <2> QED BY <1>4, <1>5, <1>6, <1>7, <1>8, <1>9, <1>10, <1>11, <1>12, <1>13 DEF Next, vars
<1> QED BY <1>14

\* A step of a payment row keeps its key and its reference, or inserts them
\* where no other row has them.
LEMMA UniqueNext ==
  ASSUME TypeOK, UniqueInv, [Next]_vars
  PROVE  NoDuplicatePayments'
<1> USE DEF NoDuplicatePayments
<1>0. NoDuplicatePayments
  BY DEF UniqueInv
<1>1. CASE UNCHANGED pay
  BY <1>0, <1>1
<1>2. ASSUME NEW r \in Requests, NEW p \in Payments, CreateInsert(r, p)
      PROVE  NoDuplicatePayments'
  <2>1. CASE KeyTaken(req[r].key)
    BY <1>1, <1>2, <2>1 DEF CreateInsert
  <2>2. CASE ~KeyTaken(req[r].key)
    <3>1. /\ pay'[p].key = req[r].key /\ pay'[p].utr = NoUtr
          /\ \A q \in Payments \ {p} : pay'[q].key = pay[q].key /\ pay'[q].utr = pay[q].utr
      BY <1>2, <2>2 DEF CreateInsert, TypeOK
    <3>2. req[r].key # NoKey => \A q \in Payments : pay[q].key # req[r].key
      BY <2>2 DEF KeyTaken
    <3>3. ASSUME NEW q \in Payments, NEW x \in Payments, q # x, pay'[q].key # NoKey
          PROVE  pay'[q].key # pay'[x].key
      <4>1. CASE q = p
        BY <3>1, <3>2, <3>3, <4>1
      <4>2. CASE q # p /\ x = p
        BY <3>1, <3>2, <3>3, <4>2
      <4>3. CASE q # p /\ x # p
        BY <1>0, <3>1, <3>3, <4>3
      <4> QED BY <4>1, <4>2, <4>3
    <3>4. \A q, x \in Payments : q # x /\ pay'[q].utr # NoUtr => pay'[q].utr # pay'[x].utr
      BY <1>0, <3>1
    <3> QED BY <3>3, <3>4
  <2> QED BY <2>1, <2>2
<1>3. ASSUME NEW r \in Requests, SubmitCommit(r)
      PROVE  NoDuplicatePayments'
  <2>0. PICK p, u : p = req[r].p /\ u = req[r].utr
    OBVIOUS
  <2>1. pay' = [pay EXCEPT ![p] = Updated(@, "UNDER_VERIFICATION", "PROCESSING", u)]
    BY <1>3, <2>0 DEF SubmitCommit
  <2>2. \A q \in Payments : /\ pay'[q].key = pay[q].key
                            /\ q # p => pay'[q].utr = pay[q].utr
                            /\ q = p => pay'[q].utr = u
    BY <2>1 DEF Updated, TypeOK
  <2>3. \A q \in Payments \ {p} : pay[q].utr # u
    BY <1>3, <2>0 DEF SubmitCommit, UniqueInv, ReferencesSound, UtrTaken
  <2>4. \A q, x \in Payments :
           q # x => /\ pay[q].key # NoKey => pay[q].key # pay[x].key
                    /\ pay[q].utr # NoUtr => pay[q].utr # pay[x].utr
    BY <1>0
  <2>5. ASSUME NEW q \in Payments, NEW x \in Payments, q # x
        PROVE  /\ pay'[q].utr # NoUtr => pay'[q].utr # pay'[x].utr
               /\ pay'[q].key # NoKey => pay'[q].key # pay'[x].key
    BY <2>2, <2>3, <2>4, <2>5
  <2> QED BY <2>5
<1>4. ASSUME NEW r \in Requests, VerifyCommit(r) \/ RejectCommit(r)
      PROVE  NoDuplicatePayments'
  <2>1. \A q \in Payments : pay'[q].key = pay[q].key /\ pay'[q].utr = pay[q].utr
    BY <1>4 DEF VerifyCommit, RejectCommit, Updated, TypeOK
  <2> QED BY <1>0, <2>1
<1> QED BY <1>1, <1>2, <1>3, <1>4, PayWrites

\* A reference is written once no open submit and no other payment has it.
LEMMA ReferencesNext ==
  ASSUME TypeOK, UniqueInv, [Next]_vars
  PROVE  ReferencesSound'
<1>1. ReferencesSound
  BY DEF UniqueInv
<1>2. CASE UNCHANGED <<pay, req>>
  BY <1>1, <1>2 DEF ReferencesSound, UtrTaken
<1>3. ASSUME UNCHANGED pay, UNCHANGED req => FALSE
      PROVE  ReferencesSound'
  <2>1. \A p, u : UtrTaken(p, u)' = UtrTaken(p, u)
    BY <1>3 DEF UtrTaken
  <2>2. PICK r \in Requests :
          /\ \A q \in Requests \ {r} : req'[q] = req[q]
          /\ \/ req'[r].at \notin {"submit", "reference", "submitPayment"}
             \/ req'[r].at = "submit" /\ req'[r].utr \in Utrs
             \/ /\ req'[r].p = req[r].p /\ req'[r].utr = req[r].utr
                /\ \/ req[r].at = "submit" /\ req'[r].at = "reference"
                   \/ SubmitReference(r) /\ req'[r].at = "submitPayment"
                         /\ ~UtrTaken(req[r].p, req[r].utr)
    BY <1>3, RequestMoves DEF Verifying
  <2>3. CASE req'[r].at \notin {"reference", "submitPayment"}
    BY <1>1, <1>3, <2>1, <2>2, <2>3 DEF ReferencesSound, UtrTaken
  <2>4. CASE req'[r].at = "reference"
    BY <1>1, <1>3, <2>1, <2>2, <2>4 DEF ReferencesSound, UtrTaken
  <2>5. CASE req'[r].at = "submitPayment"
    <3>1. /\ req[r].at = "reference" /\ ~UtrTaken(req[r].p, req[r].utr)
          /\ req'[r].p = req[r].p /\ req'[r].utr = req[r].utr
          /\ \A q \in Requests : req[q].at = "submitPayment" => req[q].utr # req[r].utr
      BY <2>2, <2>5 DEF SubmitReference
    <3> QED BY <1>1, <1>3, <2>1, <2>2, <2>5, <3>1 DEF ReferencesSound, UtrTaken
  <2> QED BY <2>3, <2>4, <2>5
<1>4. ASSUME NEW r \in Requests, req'[r].at = "idle",
             \A q \in Requests \ {r} : req'[q] = req[q],
             \A x \in Payments : pay'[x].utr \in {pay[x].utr, NoUtr} \/
               (req[r].at = "submitPayment" /\ pay'[x].utr = req[r].utr)
      PROVE  ReferencesSound'
  <2>1. ASSUME NEW q \in Requests, req'[q].at = "submitPayment"
        PROVE  \A x \in Payments \ {req[q].p} : pay'[x].utr # req[q].utr
    <3>1. q # r /\ req'[q] = req[q] /\ req[q].utr \in Utrs
      BY <1>1, <1>4, <2>1 DEF ReferencesSound
    <3>2. req[q].utr # NoUtr /\ (req[r].at = "submitPayment" => req[r].utr # req[q].utr)
      BY <1>1, <2>1, <3>1, NoneAssumption DEF ReferencesSound
    <3>3. \A x \in Payments \ {req[q].p} : pay[x].utr # req[q].utr
      BY <1>1, <2>1, <3>1 DEF ReferencesSound, UtrTaken
    <3>4. \A x \in Payments \ {req[q].p} : pay'[x].utr # req[q].utr
      BY <1>4, <3>2, <3>3
    <3> QED BY <3>4
  <2>2. \A q \in Requests : req'[q].at \in {"submit", "reference", "submitPayment"} =>
          req'[q] = req[q]
    BY <1>4
  <2>3. \A q \in Requests : req'[q].at = "submitPayment" =>
          \A x \in Payments \ {req[q].p} : pay'[x].utr # req[q].utr
    BY <2>1
  <2> QED BY <1>1, <2>2, <2>3 DEF ReferencesSound, UtrTaken
<1>5. ASSUME NEW r \in Requests, NEW p \in Payments, CreateInsert(r, p)
      PROVE  \A x \in Payments : pay'[x].utr \in {pay[x].utr, NoUtr}
  BY <1>5 DEF CreateInsert, TypeOK
<1>6. ASSUME NEW r \in Requests, VerifyCommit(r) \/ RejectCommit(r)
      PROVE  \A x \in Payments : pay'[x].utr = pay[x].utr
  <2>1. CASE VerifyCommit(r)
    BY <2>1 DEF VerifyCommit, Updated, TypeOK
  <2>2. CASE RejectCommit(r)
    BY <2>2 DEF RejectCommit, Updated, TypeOK
  <2> QED BY <1>6, <2>1, <2>2
<1>7. ASSUME NEW r \in Requests, SubmitCommit(r)
      PROVE  \A x \in Payments : pay'[x].utr \in {pay[x].utr, NoUtr} \/
               (req[r].at = "submitPayment" /\ pay'[x].utr = req[r].utr)
  BY <1>7 DEF SubmitCommit, Updated, TypeOK
<1> QED BY <1>2, <1>3, <1>4, <1>5, <1>6, <1>7, PayWrites

\* For every instance: neither an idempotency key nor a bank reference is on two
\* payments, however many requests passed the look-ups together.
THEOREM PaymentsAreNotDuplicated == Spec => []NoDuplicatePayments
<1>1. Init => UniqueInv
  BY IdleType DEF Init, UniqueInv, ReferencesSound, NoDuplicatePayments, NoPayRow
<1>2. TypeOK /\ UniqueInv /\ [Next]_vars => UniqueInv'
  BY UniqueNext, ReferencesNext DEF UniqueInv
<1>3. UniqueInv => NoDuplicatePayments
  BY DEF UniqueInv
<1> QED BY <1>1, <1>2, <1>3, TypeCorrect, PTL DEF Spec

\* A payment row is held by one transaction, and a rejection that holds it
\* found it rejectable.
Claiming == Verifying \cup {"rejectTransaction"}
ClaimsHold ==
  /\ \A r \in Requests : req[r].at \in {"reject", "rejectTransaction"} => req[r].p \in Payments
  /\ \A r \in Requests : req[r].at = "rejectTransaction" =>
       pay[req[r].p].status \in {"UNDER_VERIFICATION", "SUBMITTED"}
  /\ \A q, r \in Requests :
       (/\ req[q].at \in Claiming /\ req[r].at \in Claiming
        /\ req[q].p = req[r].p) => q = r

LEMMA ClaimsNext ==
  ASSUME TypeOK, ClaimsHold, [Next]_vars
  PROVE  ClaimsHold'
<1>1. CASE UNCHANGED <<pay, req>>
  BY <1>1 DEF ClaimsHold
<1>2. ASSUME UNCHANGED pay, UNCHANGED req => FALSE
      PROVE  ClaimsHold'
  <2>1. PICK r \in Requests :
          /\ \A q \in Requests \ {r} : req'[q] = req[q]
          /\ \/ req'[r].at \notin Claiming \cup {"reject"}
             \/ req'[r].at = "reject" /\ req'[r].p \in Payments
             \/ /\ req'[r].p = req[r].p
                /\ \/ VerifyClaim(r) /\ req'[r].at = "transaction"
                   \/ req[r].at \in Verifying /\ req'[r].at \in Verifying
                   \/ RejectClaim(r) /\ req'[r].at = "rejectTransaction"
                         /\ pay[req[r].p].status \in {"UNDER_VERIFICATION", "SUBMITTED"}
    BY <1>2, RequestMoves DEF Claiming, Verifying
  <2>2. CASE req'[r].at \notin Claiming
    BY <1>2, <2>1, <2>2 DEF ClaimsHold, Claiming, Verifying
  <2>3. CASE req[r].at \in Verifying /\ req'[r].at \in Verifying /\ req'[r].p = req[r].p
    BY <1>2, <2>1, <2>3 DEF ClaimsHold, Claiming, Verifying
  <2>4. CASE /\ VerifyClaim(r) \/ RejectClaim(r)
             /\ req'[r].p = req[r].p
             /\ req'[r].at \in {"transaction", "rejectTransaction"}
    <3>1. \A q \in Requests : req[q].at \in Claiming => req[q].p # req[r].p
      BY <2>4 DEF VerifyClaim, RejectClaim, PayLocked, HoldsPay, Claiming
    <3>2. req'[r].at = "rejectTransaction" =>
            /\ req[r].p \in Payments
            /\ pay[req[r].p].status \in {"UNDER_VERIFICATION", "SUBMITTED"}
      <4>1. ASSUME req'[r].at = "rejectTransaction" PROVE RejectClaim(r)
        BY <2>1, <4>1 DEF Claiming, Verifying
      <4> QED BY <2>1, <4>1 DEF ClaimsHold, RejectClaim, Claiming, Verifying
    <3> QED BY <1>2, <2>1, <2>4, <3>1, <3>2 DEF ClaimsHold, Claiming, Verifying
  <2> QED BY <2>1, <2>2, <2>3, <2>4 DEF Claiming, Verifying
<1>3. ASSUME NEW r \in Requests, req'[r].at = "idle",
             \A q \in Requests \ {r} : req'[q] = req[q],
             \A q \in Requests \ {r} : req[q].at = "rejectTransaction" =>
               pay'[req[q].p] = pay[req[q].p]
      PROVE  ClaimsHold'
  BY <1>3 DEF ClaimsHold, Claiming, Verifying
<1>4. ASSUME NEW r \in Requests, NEW p \in Payments, CreateInsert(r, p),
             NEW q \in Requests \ {r}, req[q].at = "rejectTransaction"
      PROVE  pay'[req[q].p] = pay[req[q].p]
  BY <1>4 DEF CreateInsert, ClaimsHold, TypeOK
<1>5. ASSUME NEW r \in Requests, SubmitCommit(r),
             NEW q \in Requests \ {r}, req[q].at = "rejectTransaction"
      PROVE  pay'[req[q].p] = pay[req[q].p]
  BY <1>5 DEF SubmitCommit, PayLocked, HoldsPay, ClaimsHold, TypeOK
<1>6. ASSUME NEW r \in Requests, VerifyCommit(r) \/ RejectCommit(r),
             NEW q \in Requests \ {r}, req[q].at = "rejectTransaction"
      PROVE  pay'[req[q].p] = pay[req[q].p]
  <2>1. req[r].at \in Claiming /\ req[q].at \in Claiming /\ req[q].p \in Payments
    BY <1>6 DEF VerifyCommit, RejectCommit, Claiming, Verifying, ClaimsHold
  <2>2. req[r].p # req[q].p
    BY <1>6, <2>1 DEF ClaimsHold
  <2> QED BY <1>6, <2>1, <2>2 DEF VerifyCommit, RejectCommit, TypeOK
<1> QED BY <1>1, <1>2, <1>3, <1>4, <1>5, <1>6, PayWrites

\* Verify and reject check the status of the row they hold; submit does not.
LEMMA VerifiedStep ==
  ASSUME TypeOK, ClaimsHold, [Next]_vars, NEW p \in Payments, pay[p].status = "VERIFIED"
  PROVE  \/ pay'[p].status = "VERIFIED"
         \/ \E r \in Requests : req[r].at = "submitPayment" /\ req[r].p = p /\ req'[r] = Idle
<1>1. CASE UNCHANGED pay
  BY <1>1
<1>2. ASSUME NEW r \in Requests, NEW q \in Payments, CreateInsert(r, q)
      PROVE  pay'[p] = pay[p]
  BY <1>2 DEF CreateInsert, TypeOK
<1>3. ASSUME NEW r \in Requests, SubmitCommit(r)
      PROVE  pay'[p] = pay[p] \/ (req[r].at = "submitPayment" /\ req[r].p = p /\ req'[r] = Idle)
  BY <1>3 DEF SubmitCommit, Done, TypeOK
<1>4. ASSUME NEW r \in Requests, VerifyCommit(r)
      PROVE  pay'[p].status = "VERIFIED"
  BY <1>4 DEF VerifyCommit, Updated, TypeOK
<1>5. ASSUME NEW r \in Requests, RejectCommit(r)
      PROVE  pay'[p] = pay[p]
  <2>1. req[r].p # p
    BY <1>5 DEF ClaimsHold, RejectCommit
  <2> QED BY <1>5, <2>1 DEF RejectCommit, TypeOK
<1> QED BY <1>1, <1>2, <1>3, <1>4, <1>5, PayWrites

\* For every instance: only the commit of a submit for the same payment takes a
\* verified payment back.
THEOREM OnlySubmitsReopen == Spec => OnlySubmitReopens
<1>1. TypeOK /\ ClaimsHold /\ [Next]_vars =>
        [\A p \in Payments : pay[p].status = "VERIFIED" =>
           \/ pay'[p].status = "VERIFIED"
           \/ \E r \in Requests : /\ req[r].at = "submitPayment" /\ req[r].p = p
                                  /\ req'[r] = Idle]_vars
  BY VerifiedStep
<1>2. Init => ClaimsHold
  BY IdleType DEF Init, ClaimsHold, Claiming, Verifying
<1>3. TypeOK /\ ClaimsHold /\ [Next]_vars => ClaimsHold'
  BY ClaimsNext
<1> QED BY <1>1, <1>2, <1>3, TypeCorrect, PTL DEF Spec, OnlySubmitReopens

-----------------------------------------------------------------------------
(* Row locks *)

\* The next step of q needs what r holds to the end of its transaction.
Waits(q, r) ==
  \/ req[q].at \in {"submitPayment", "verify", "reject"} /\ HoldsPay(r, req[q].p)
  \/ req[q].at \in {"submit", "transaction", "rejectTransaction"} /\ HoldsTxn(r, req[q].p)
  \/ req[q].at = "reference" /\ req[r].at = "submitPayment" /\ req[r].utr = req[q].utr
  \/ req[q].at \in {"schedule", "markDue"} /\ HoldsSched(r, req[q].s)
  \/ req[q].at = "proforma" /\ req[r].at = "commit"

\* For any number of requests: among requests each of which waits for another of
\* them, a submit and a verification or rejection of its payment wait for each
\* other.  All other steps take their rows in one order, from the payment to the
\* invoice, so the circles that the database ends are the only ones.
THEOREM CirclesHaveASubmit ==
  ASSUME NEW C \in SUBSET Requests, C # {},
         \A q \in C : \E r \in C : Waits(q, r)
  PROVE  \E q, r \in C : Deadlocked(q, r)
<1> USE DEF Waits, HoldsPay, HoldsTxn, HoldsSched, Writing, Verifying
<1>1. \A q \in C : req[q].at # "commit"
  OBVIOUS
<1>2. \A q \in C : req[q].at # "proforma"
  BY <1>1
<1>3. \A q \in C : req[q].at \notin {"schedule", "markDue"}
  BY <1>1, <1>2
<1>4. \A q \in C : req[q].at = "submitPayment" => \E r \in C : Deadlocked(q, r)
  BY <1>1, <1>2, <1>3 DEF Deadlocked
<1>5. \A q \in C : req[q].at = "reference" => \E r \in C : req[r].at = "submitPayment"
  OBVIOUS
<1>6. \A q \in C : req[q].at \in {"submit", "transaction", "rejectTransaction"} =>
        \E r \in C : req[r].at \in {"reference", "submitPayment"}
  BY <1>1, <1>2, <1>3
<1>7. \A q \in C : req[q].at \in {"verify", "reject"} =>
        \E r \in C : req[r].at \in {"transaction", "rejectTransaction"}
  BY <1>1, <1>2, <1>3
<1>8. \E q \in C : req[q].at = "submitPayment"
  BY <1>1, <1>2, <1>3, <1>5, <1>6, <1>7
<1> QED BY <1>4, <1>8

-----------------------------------------------------------------------------
(* Refinement *)

\* Only a committing verification moves the money received or the settlement,
\* and it moves them as the escrow allows.
LEMMA EscrowStep ==
  ASSUME IInv, IInv', [Next]_vars
  PROVE  [E!Receive]_<<creditedTotal, settlements>>
<1>1. ASSUME NEW r \in Requests, VerifyCommit(r)
      PROVE  E!Receive
  <2>1. /\ req[r].at = "commit" /\ creditedTotal \in Nat
        /\ req[r].amount \in Nat /\ settlements \in Nat
        /\ creditedTotal' = creditedTotal + req[r].amount
        /\ settlements' = settlements + tx[r].settle
        /\ tx[r].settle \in {0, 1}
    BY <1>1 DEF VerifyCommit, IInv, TypeOK
  <2>2. req[r].amount > 0
    BY <2>1 DEF IInv, ScheduleWritesSound, Writing, Verifying
  <2>3. tx[r].settle = 1 => settlements = 0
    BY <2>1 DEF IInv, DraftsSound
  <2>4. settlements' > 0 => creditedTotal' >= Total
    BY DEF IInv, SettlementIsFunded
  <2> QED BY <2>1, <2>2, <2>3, <2>4 DEF E!Receive
<1>2. CASE UNCHANGED <<creditedTotal, settlements>>
  BY <1>2, Zenon
<1>3. ASSUME [Next]_vars, \A r \in Requests : ~VerifyCommit(r)
      PROVE  UNCHANGED <<creditedTotal, settlements>>
  BY <1>3, ZenonT(60)
  DEF Next, vars, tables, CreateRead, CreateInsert, SubmitRead, SubmitCommit,
      SubmitTransaction, SubmitReference, VerifyRead, VerifyClaim, VerifyTransaction,
      VerifySchedule, VerifyProforma, Rollback, RejectRead, RejectClaim, RejectCommit, MarkDueRead, MarkDueWrite, Begin
<1> QED BY <1>1, <1>2, <1>3

\* For every instance: the payment flow implements the escrow.
THEOREM PaymentsImplementEscrow == Spec => SellerIsProtected
<1>1. Init => E!Init
  BY DEF Init, E!Init
<1> QED BY <1>1, EscrowStep, Inductive, PTL DEF Spec, SellerIsProtected, E!Spec

-----------------------------------------------------------------------------
(* One request at a time: the settlement draft is never missed *)

OneAtATime == \A q, r \in Requests : q = r

\* What the schedules record as paid, together.
PaidTogether ==
  sched[1].paid + (IF Len(Template) > 1 THEN sched[2].paid ELSE 0)
                + (IF Len(Template) > 2 THEN sched[3].paid ELSE 0)

\* A verification that nothing overlaps writes what it read plus its amount,
\* and finds the last schedule paid when it is.
ReadsAreFresh ==
  \A r \in Requests :
    /\ req[r].at \in Writing => tx[r].row.paid = sched[req[r].s].paid + req[r].amount
    /\ req[r].at \in {"proforma", "commit"} =>
         /\ tx[r].pi.paid = pi.paid + req[r].amount
         /\ tx[r].pi.remaining = 0 => tx[r].pi.status = "PAID"
    /\ (/\ req[r].at = "commit" /\ AllPaid(r)
        /\ tx[r].pi.status = "PAID" /\ settlements = 0) => tx[r].settle = 1

\* The invoice and its schedules agree on what is paid, and paid orders are
\* settled.
Even ==
  /\ PaidTogether = pi.paid
  /\ ReadsAreFresh
  /\ (\A i \in Schedules : sched[i].status = "PAID") => settlements = 1

\* The template has one, two or three lines.
LEMMA Lines ==
  \/ Len(Template) = 1 /\ Schedules = {1}
  \/ Len(Template) = 2 /\ Schedules = {1, 2}
  \/ Len(Template) = 3 /\ Schedules = {1, 2, 3}
<1>1. Len(Template) \in {1, 2, 3}
  BY MethodAssumption, TemplateShape DEF Template
<1>2. 1 .. 1 = {1} /\ 1 .. 2 = {1, 2} /\ 1 .. 3 = {1, 2, 3}
  OBVIOUS
<1> QED BY <1>1, <1>2 DEF Schedules

\* The lines add up to the total: the last one takes what rounding left over.
LEMMA FullIsTotal ==
  ASSUME \A i \in Schedules : sched[i].paid = Amount[i]
  PROVE  PaidTogether = Total
<1>1. \A i \in 1 .. Len(Template) :
        Amount[i] = IF i = Len(Template) THEN Total - Allocated(Total, Template, i)
                    ELSE Part(Total, Template[i].pct)
  BY DEF Amount, SplitByPercentages
<1>2. Total \in Nat
  BY TotalAssumption
<1>3. CASE Len(Template) = 1 /\ Schedules = {1}
  BY <1>1, <1>2, <1>3 DEF PaidTogether, Allocated
<1>4. CASE Len(Template) = 2 /\ Schedules = {1, 2}
  <2>1. Part(Total, Template[1].pct) \in Int
    BY AmountFacts, <1>1, <1>4
  <2> QED BY <1>1, <1>2, <1>4, <2>1 DEF PaidTogether, Allocated
<1>5. CASE Len(Template) = 3 /\ Schedules = {1, 2, 3}
  <2>1. Part(Total, Template[1].pct) \in Int /\ Part(Total, Template[2].pct) \in Int
    BY AmountFacts, <1>1, <1>5
  <2> QED BY <1>1, <1>2, <1>5, <2>1 DEF PaidTogether, Allocated
<1> QED BY <1>3, <1>4, <1>5, Lines

\* A payment for one schedule is added to the sum.
LEMMA TogetherMoves ==
  ASSUME TypeOK, TypeOK', NEW s \in Schedules, NEW a \in Nat,
         sched'[s].paid = sched[s].paid + a,
         \A i \in Schedules \ {s} : sched'[i] = sched[i]
  PROVE  PaidTogether' = PaidTogether + a
<1>1. \A i \in Schedules : sched[i].paid \in Nat /\ sched'[i].paid \in Nat
  BY DEF TypeOK
<1>2. \A i \in Schedules : sched'[i].paid = IF i = s THEN sched[i].paid + a ELSE sched[i].paid
  OBVIOUS
<1>3. CASE Len(Template) = 1 /\ Schedules = {1}
  BY <1>1, <1>2, <1>3 DEF PaidTogether
<1>4. CASE Len(Template) = 2 /\ Schedules = {1, 2}
  BY <1>1, <1>2, <1>4 DEF PaidTogether
<1>5. CASE Len(Template) = 3 /\ Schedules = {1, 2, 3}
  BY <1>1, <1>2, <1>5 DEF PaidTogether
<1> QED BY <1>3, <1>4, <1>5, Lines

LEMMA TogetherStays ==
  ASSUME \A i \in Schedules : sched'[i].paid = sched[i].paid
  PROVE  PaidTogether' = PaidTogether
<1>1. CASE Len(Template) = 1 /\ Schedules = {1}
  BY <1>1 DEF PaidTogether
<1>2. CASE Len(Template) = 2 /\ Schedules = {1, 2}
  BY <1>2 DEF PaidTogether
<1>3. CASE Len(Template) = 3 /\ Schedules = {1, 2, 3}
  BY <1>3 DEF PaidTogether
<1> QED BY <1>1, <1>2, <1>3, Lines

LEMMA EvenInit == Init => Even
<1> SUFFICES ASSUME Init PROVE Even
  OBVIOUS
<1>1. \A i \in Schedules : sched[i].paid = 0 /\ sched[i].status # "PAID"
  BY AmountFacts DEF Init, NewSched
<1>2. PaidTogether = 0
  <2>1. CASE Len(Template) = 1 /\ Schedules = {1}
    BY <1>1, <2>1 DEF PaidTogether
  <2>2. CASE Len(Template) = 2 /\ Schedules = {1, 2}
    BY <1>1, <2>2 DEF PaidTogether
  <2>3. CASE Len(Template) = 3 /\ Schedules = {1, 2, 3}
    BY <1>1, <2>3 DEF PaidTogether
  <2> QED BY <2>1, <2>2, <2>3, Lines
<1>3. \A r \in Requests : req[r].at = "idle"
  BY IdleType DEF Init
<1>4. pi.paid = 0
  BY DEF Init, NewPi
<1> QED BY <1>1, <1>2, <1>3, <1>4, AmountFacts DEF Even, ReadsAreFresh, Writing, Verifying

\* No verification is under way after the step, and the tables stay.
LEMMA QuietEven ==
  ASSUME Even, UNCHANGED <<sched, pi, settlements>>,
         \A q \in Requests : req'[q].at \notin Writing
  PROVE  Even'
<1>1. PaidTogether' = PaidTogether
  BY TogetherStays
<1>2. ReadsAreFresh'
  BY DEF ReadsAreFresh, Writing, Verifying
<1> QED BY <1>1, <1>2 DEF Even

\* The call that ends was the only one.
LEMMA DoneQuiet ==
  ASSUME TypeOK, OneAtATime, NEW r \in Requests, Done(r)
  PROVE  \A q \in Requests : req'[q].at \notin Writing
<1>1. req'[r].at = "idle"
  BY IdleType DEF Done, TypeOK
<1> QED BY <1>1 DEF OneAtATime, Writing, Verifying

\* The steps of the one verification.
LEMMA TransactionEven ==
  ASSUME IInv, Even, OneAtATime, NEW r \in Requests, VerifyTransaction(r)
  PROVE  Even'
<1> DEFINE i == req[r].s
           a == req[r].amount
           w == [row |-> Applied(sched[i], a), pi |-> NewPi, draft |-> 0, settle |-> 0]
<1>1. TypeOK /\ UNCHANGED <<sched, pi, settlements>>
  BY DEF VerifyTransaction, tables, IInv
<1>2. CASE Done(r)
  BY <1>1, <1>2, DoneQuiet, QuietEven
<1>3. CASE Continue(r, "schedule", w)
  <2>1. /\ req'[r].at = "schedule" /\ req'[r].s = i /\ req'[r].amount = a
        /\ tx'[r].row = Applied(sched[i], a)
    BY <1>1, <1>3 DEF Continue, TypeOK
  <2>2. Applied(sched[i], a).paid = sched[i].paid + a
    BY DEF Applied
  <2>3. ReadsAreFresh'
    BY <1>1, <2>1, <2>2 DEF ReadsAreFresh, OneAtATime, Writing, Verifying
  <2> QED BY <1>1, <2>3, TogetherStays DEF Even
<1> QED BY <1>2, <1>3 DEF VerifyTransaction

LEMMA ScheduleEven ==
  ASSUME IInv, Even, OneAtATime, NEW r \in Requests, VerifySchedule(r)
  PROVE  Even'
<1> DEFINE a == req[r].amount
           w == [row |-> tx[r].row, pi |-> Applied(pi, a), draft |-> 0, settle |-> 0]
<1>1. TypeOK /\ UNCHANGED <<sched, pi, settlements>>
  BY DEF VerifySchedule, tables, IInv
<1>2. CASE Done(r)
  BY <1>1, <1>2, DoneQuiet, QuietEven
<1>3. CASE Continue(r, "proforma", w)
  <2>1. /\ req'[r].at = "proforma" /\ req'[r].s = req[r].s /\ req'[r].amount = a
        /\ tx'[r].row = tx[r].row /\ tx'[r].pi = Applied(pi, a)
    BY <1>1, <1>3 DEF Continue, TypeOK
  <2>2. /\ Applied(pi, a).paid = pi.paid + a
        /\ Applied(pi, a).remaining = 0 => Applied(pi, a).status = "PAID"
    BY DEF Applied, PaidStatus
  <2>3. tx[r].row.paid = sched[req[r].s].paid + a
    BY DEF Even, ReadsAreFresh, Writing, Verifying, VerifySchedule
  <2>4. ReadsAreFresh'
    BY <1>1, <2>1, <2>2, <2>3 DEF ReadsAreFresh, OneAtATime, Writing, Verifying
  <2> QED BY <1>1, <2>4, TogetherStays DEF Even
<1> QED BY <1>2, <1>3 DEF VerifySchedule

LEMMA ProformaEven ==
  ASSUME IInv, Even, OneAtATime, NEW r \in Requests, VerifyProforma(r)
  PROVE  Even'
<1>1. TypeOK /\ UNCHANGED <<sched, pi, settlements>>
  BY DEF VerifyProforma, tables, IInv
<1>2. /\ req'[r].at = "commit" /\ req'[r].s = req[r].s /\ req'[r].amount = req[r].amount
      /\ tx'[r].row = tx[r].row /\ tx'[r].pi = tx[r].pi
      /\ tx'[r].settle = IF /\ AllPaid(r) /\ tx[r].pi.status = "PAID" /\ settlements = 0
                         THEN 1 ELSE 0
  BY <1>1 DEF VerifyProforma, Continue, TypeOK
<1>3. AllPaid(r)' => AllPaid(r)
  BY <1>1, <1>2 DEF AllPaid
<1>4. /\ tx[r].row.paid = sched[req[r].s].paid + req[r].amount
      /\ tx[r].pi.paid = pi.paid + req[r].amount
      /\ tx[r].pi.remaining = 0 => tx[r].pi.status = "PAID"
  BY DEF Even, ReadsAreFresh, Writing, Verifying, VerifyProforma
<1>5. ReadsAreFresh'
  BY <1>1, <1>2, <1>3, <1>4 DEF ReadsAreFresh, OneAtATime, Writing, Verifying
<1> QED BY <1>1, <1>5, TogetherStays DEF Even

\* The commit that pays the last schedule settles the order, for then the whole
\* total is paid and the invoice shows it.
LEMMA CommitEven ==
  ASSUME IInv, IInv', Even, OneAtATime, NEW r \in Requests, VerifyCommit(r)
  PROVE  Even'
<1> DEFINE s == req[r].s
           a == req[r].amount
<1>1. /\ TypeOK /\ TypeOK' /\ req[r].at = "commit" /\ s \in Schedules /\ a \in Nat
      /\ tx[r].settle \in {0, 1} /\ settlements \in Nat
  BY DEF VerifyCommit, IInv, TypeOK
<1>2. /\ Done(r) /\ sched'[s] = tx[r].row /\ pi' = tx[r].pi
      /\ settlements' = settlements + tx[r].settle
      /\ \A i \in Schedules \ {s} : sched'[i] = sched[i]
  BY <1>1 DEF VerifyCommit, TypeOK
<1>3. /\ tx[r].row.paid = sched[s].paid + a
      /\ tx[r].pi.paid = pi.paid + a
      /\ tx[r].pi.remaining = 0 => tx[r].pi.status = "PAID"
  BY <1>1 DEF Even, ReadsAreFresh, Writing, Verifying
<1>4. PaidTogether' = pi'.paid
  <2>1. sched'[s].paid = sched[s].paid + a
    BY <1>2, <1>3
  <2>2. PaidTogether' = PaidTogether + a
    BY <1>1, <1>2, <2>1, TogetherMoves
  <2> QED BY <1>2, <1>3, <2>2 DEF Even
<1>5. ASSUME \A i \in Schedules : sched'[i].status = "PAID"
      PROVE  settlements' = 1
  <2>1. AllPaid(r)
    BY <1>1, <1>2, <1>5 DEF AllPaid
  <2>2. \A i \in Schedules : sched'[i].paid = Amount[i]
    <3>1. ASSUME NEW i \in Schedules PROVE sched'[i].paid = Amount[i]
      <4>1. sched'[i].remaining = 0 /\ sched'[i].paid + sched'[i].remaining = Amount[i]
        BY <1>5 DEF IInv, PaidRowsAreFull, LedgersBalance
      <4>2. sched'[i].paid \in Nat
        BY <1>1 DEF TypeOK
      <4> QED BY <4>1, <4>2
    <3> QED BY <3>1
  <2>3. PaidTogether' = Total
    <3>1. ((\A i \in Schedules : sched[i].paid = Amount[i]) => PaidTogether = Total)'
      BY FullIsTotal, PTL
    <3> QED BY <2>2, <3>1
  <2>4. tx[r].pi.remaining = 0
    <3>1. pi'.paid + pi'.remaining = Total /\ pi'.paid \in Nat /\ pi'.remaining \in Nat
      BY <1>1 DEF IInv, LedgersBalance, TypeOK
    <3> QED BY <1>2, <1>4, <2>3, <3>1
  <2>5. settlements = 0 => tx[r].settle = 1
    BY <1>1, <1>3, <2>1, <2>4 DEF Even, ReadsAreFresh
  <2>6. settlements' <= 1
    BY DEF IInv, AtMostOneDraft
  <2> QED BY <1>1, <1>2, <2>5, <2>6
<1>6. ReadsAreFresh'
  <2>1. \A q \in Requests : req'[q].at \notin Writing
    BY <1>1, <1>2, DoneQuiet
  <2> QED BY <2>1 DEF ReadsAreFresh, Writing, Verifying
<1> QED BY <1>4, <1>5, <1>6 DEF Even

\* A milestone makes a schedule due, and leaves what was paid.
LEMMA MarkDueEven ==
  ASSUME IInv, Even, OneAtATime, NEW r \in Requests, MarkDueWrite(r)
  PROVE  Even'
<1>1. TypeOK /\ Done(r) /\ pi' = pi /\ settlements' = settlements
  BY DEF MarkDueWrite, IInv
<1>2. \A i \in Schedules : /\ sched'[i].paid = sched[i].paid
                           /\ sched'[i].status = "PAID" => sched[i].status = "PAID"
  BY DEF MarkDueWrite, IInv, TypeOK
<1>3. PaidTogether' = PaidTogether
  BY <1>2, TogetherStays
<1>4. ReadsAreFresh'
  <2>1. \A q \in Requests : req'[q].at \notin Writing
    BY <1>1, DoneQuiet
  <2> QED BY <2>1 DEF ReadsAreFresh, Writing, Verifying
<1> QED BY <1>1, <1>2, <1>3, <1>4 DEF Even

LEMMA EvenNext ==
  ASSUME IInv, IInv', Even, OneAtATime, [Next]_vars
  PROVE  Even'
<1>1. TypeOK
  BY DEF IInv
<1>2. CASE UNCHANGED vars
  <2>1. UNCHANGED <<sched, pi, settlements, req, tx>>
    BY <1>2 DEF vars
  <2>2. ReadsAreFresh'
    BY <2>1 DEF Even, ReadsAreFresh, AllPaid
  <2> QED BY <2>1, <2>2, TogetherStays DEF Even
<1>3. ASSUME NEW r \in Requests, NEW at \in At \ Writing, NEW p, NEW i, NEW a, NEW k, NEW u,
             Begin(r, at, p, i, a, k, u)
      PROVE  Even'
  <2>1. UNCHANGED <<sched, pi, settlements>> /\ req'[r].at = at
    BY <1>1, <1>3 DEF Begin, tables, TypeOK
  <2>2. \A q \in Requests : req'[q].at \notin Writing
    BY <2>1 DEF OneAtATime
  <2> QED BY <2>1, <2>2, QuietEven
<1>4. ASSUME NEW r \in Requests,
        \/ \E i \in Schedules, a \in InputAmounts, k \in Keys \cup {NoKey} :
             CreateRead(r, i, a, k)
        \/ \E p \in Payments, u \in Utrs : SubmitRead(r, p, u)
        \/ \E p \in Payments : VerifyRead(r, p) \/ RejectRead(r, p)
        \/ \E i \in Schedules : MarkDueRead(r, i)
      PROVE Even'
  <2>1. {"create", "submit", "verify", "reject", "markDue"} \subseteq At \ Writing
    BY DEF Writing, Verifying
  <2> QED BY <1>3, <1>4, <2>1 DEF CreateRead, SubmitRead, VerifyRead, RejectRead, MarkDueRead
<1>5. ASSUME NEW r \in Requests,
        \/ \E p \in Payments : CreateInsert(r, p)
        \/ SubmitCommit(r) \/ RejectCommit(r) \/ Rollback(r)
      PROVE Even'
  <2>1. Done(r) /\ UNCHANGED <<sched, pi, settlements>>
    BY <1>5 DEF CreateInsert, SubmitCommit, RejectCommit, Rollback, tables
  <2> QED BY <1>1, <2>1, DoneQuiet, QuietEven
<1>6. ASSUME NEW r \in Requests,
             SubmitTransaction(r) \/ SubmitReference(r) \/ VerifyClaim(r) \/ RejectClaim(r)
      PROVE Even'
  <2>1. UNCHANGED <<sched, pi, settlements>> /\ req'[r].at \notin Writing
    BY <1>1, <1>6, ClaimQuiet, IdleType
    DEF Done, Continue, TypeOK, Writing, Verifying, tables
  <2> QED BY <2>1, QuietEven DEF OneAtATime
<1> QED BY <1>2, <1>4, <1>5, <1>6, TransactionEven, ScheduleEven, ProformaEven, CommitEven, MarkDueEven
   DEF Next

\* One request at a time: an order whose schedules are all paid has its
\* settlement draft (createPendingDraft).  It takes two verifications that
\* overlap to miss it, as the run payments_unsettled finds.
THEOREM PaidOrdersAreSettled == ASSUME OneAtATime PROVE Spec => []FullyPaidIsSettled
<1>1. Init => Even
  BY EvenInit
<1>2. IInv /\ IInv' /\ Even /\ [Next]_vars => Even'
  BY EvenNext
<1>3. Even => FullyPaidIsSettled
  BY DEF Even, FullyPaidIsSettled
<1> QED BY <1>1, <1>2, <1>3, Inductive, PTL DEF Spec
=============================================================================
