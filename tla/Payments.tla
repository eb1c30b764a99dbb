------------------------------- MODULE Payments -------------------------------
(***************************************************************************)
(* The money side of one purchase order: its proforma invoice (PI), its    *)
(* payment schedules, the customer's payments, their verification by the   *)
(* finance desk, and the invoice and settlement drafts that verification   *)
(* produces.                                                               *)
(*                                                                         *)
(* Requests run concurrently.  Every handler reads before it opens its     *)
(* database transaction, and transactions run at READ COMMITTED: a read    *)
(* sees the last committed row, a write takes the row's lock, holds it to  *)
(* the end of the transaction and overwrites whatever was committed in     *)
(* between.  A request is therefore a sequence of steps; what it has       *)
(* written but not committed is kept in the request itself.                *)
(***************************************************************************)
EXTENDS ScheduleTemplate, FiniteSets

CONSTANTS
  Method,       \* the order's PaymentMethod
  Total,        \* the PI total, in paise
  Payments,     \* ids of payment rows
  Requests,     \* concurrently running HTTP requests
  Keys,         \* idempotency keys customers send
  Utrs,         \* bank transfer references customers submit
  InputAmounts, \* amounts customers ask to pay
  NoPayment, NoKey, NoUtr

ASSUME MethodAssumption == Method \in PaymentMethods
ASSUME TotalAssumption == Total \in Nat \ {0}
ASSUME AmountAssumption == InputAmounts \subseteq Nat \ {0}
ASSUME NoneAssumption ==
  NoPayment \notin Payments /\ NoKey \notin Keys /\ NoUtr \notin Utrs
ASSUME PaymentsFinite == IsFiniteSet(Payments)

Template == BuildTemplate(Method)
Schedules == 1 .. Len(Template)
Amount == SplitByPercentages(Total, Template)

VARIABLES
  pay,           \* payments table with the payment's transaction row
  sched,         \* payment_schedules of the order
  pi,            \* its proforma_invoices row
  invoices,      \* number of finance_invoices rows of the order
  settlements,   \* number of settlements rows of the order
  req,           \* requests in progress
  tx,            \* what a request's open transaction has written
  credited,      \* history: money verified against each schedule
  creditedTotal  \* history: money verified against the PI

vars == <<pay, sched, pi, invoices, settlements, req, tx, credited, creditedTotal>>

PayStatus == {"NONE", "INITIATED", "UNDER_VERIFICATION", "VERIFIED", "REJECTED"}
TxnStatus == {"CREATED", "PROCESSING", "SUCCESS", "FAILED"}
SchedStatus == {"PENDING", "DUE", "PARTIALLY_PAID", "PAID"}
PiStatus == {"ISSUED", "PARTIALLY_PAID", "PAID"}

SchedRow == [status : SchedStatus, paid : Nat, remaining : Nat]
PiRow == [status : PiStatus, paid : Nat, remaining : Nat]
PayRow == [status : PayStatus, amount : Nat, s : Schedules, txn : TxnStatus,
           key : Keys \cup {NoKey}, utr : Utrs \cup {NoUtr}]

\* Where a request stands: the step it takes next.
At == {"idle", "create", "submit", "reference", "submitPayment", "verify",
       "transaction", "schedule", "proforma", "commit", "reject",
       "rejectTransaction", "markDue"}
Request ==
  [at : At, p : Payments \cup {NoPayment}, s : Schedules, amount : Nat,
   key : Keys \cup {NoKey}, utr : Utrs \cup {NoUtr}]

\* The steps of a verification that has claimed its payment, and those of one
\* that has computed the schedule row it writes.
Verifying == {"transaction", "schedule", "proforma", "commit"}
Writing == Verifying \ {"transaction"}

\* The steps of a transaction that holds a row.
Holding == Verifying \cup {"reference", "submitPayment", "rejectTransaction"}

\* The uncommitted writes of verify: the schedule row, the PI row, and how many
\* invoice drafts and settlement drafts it inserts.
Writes == [row : SchedRow, pi : PiRow, draft : {0, 1}, settle : {0, 1}]

NewSched(i) ==
  [status |-> Template[i].status, paid |-> 0, remaining |-> Amount[i]]
NewPi == [status |-> "ISSUED", paid |-> 0, remaining |-> Total]
NoPayRow == [status |-> "NONE", amount |-> 0, s |-> 1, txn |-> "CREATED",
             key |-> NoKey, utr |-> NoUtr]
Idle == [at |-> "idle", p |-> NoPayment, s |-> 1, amount |-> 0,
         key |-> NoKey, utr |-> NoUtr]
NoWrites == [row |-> NewSched(1), pi |-> NewPi, draft |-> 0,
             settle |-> 0]

\* createIssued and createFromPo, run by the acceptance that created the order.
Init ==
  /\ pay = [p \in Payments |-> NoPayRow]
  /\ sched = [i \in Schedules |-> NewSched(i)]
  /\ pi = NewPi
  /\ invoices = 0
  /\ settlements = 0
  /\ req = [r \in Requests |-> Idle]
  /\ tx = [r \in Requests |-> NoWrites]
  /\ credited = [i \in Schedules |-> 0]
  /\ creditedTotal = 0

-----------------------------------------------------------------------------
(* Row locks: a transaction holds the rows it has updated until it ends.   *)

\* The payment row: verify and reject take it first, submit last.
HoldsPay(r, p) == req[r].p = p /\ req[r].at \in Verifying \cup {"rejectTransaction"}
PayLocked(p) == \E r \in Requests : HoldsPay(r, p)

\* The payment's transaction row: submit takes it first, verify and reject
\* after the payment row.  A rejection commits with it.
HoldsTxn(r, p) == req[r].p = p /\ req[r].at \in Writing \cup {"reference", "submitPayment"}
TxnLocked(p) == \E r \in Requests : HoldsTxn(r, p)

HoldsSched(r, i) == req[r].s = i /\ req[r].at \in {"proforma", "commit"}
SchedLocked(i) == \E r \in Requests : HoldsSched(r, i)

\* Mutants: the drafts are looked up before the PI row is locked; the PI row
\* is updated on a connection of its own while the transaction that has read
\* it holds it already.
PiLocked_Never == FALSE
PiLocked_TakenEarly == \E r \in Requests : req[r].at \in {"proforma", "commit"}

PiLocked == \E r \in Requests : req[r].at = "commit"

tables == <<pay, sched, pi, invoices, settlements, credited, creditedTotal>>

\* An idle request becomes a call that has done its reads.
Begin(r, at, p, i, amount, key, utr) ==
  /\ req[r].at = "idle"
  /\ req' = [req EXCEPT ![r] = [at |-> at, p |-> p, s |-> i,
                                amount |-> amount, key |-> key, utr |-> utr]]
  /\ UNCHANGED <<tables, tx>>

\* A transaction that has made the writes w goes on to the step `at`.
Continue(r, at, w) ==
  /\ req' = [req EXCEPT ![r] =
               [at |-> at, p |-> req[r].p, s |-> req[r].s,
                amount |-> req[r].amount, key |-> req[r].key,
                utr |-> req[r].utr]]
  /\ tx' = [tx EXCEPT ![r] = w]

\* The call returns or throws; what was not committed is gone.
Done(r) ==
  /\ req' = [req EXCEPT ![r] = Idle]
  /\ tx' = [tx EXCEPT ![r] = NoWrites]

-----------------------------------------------------------------------------
(* PaymentService.create                                                   *)

\* Mutant: the unique index is missing.
KeyTaken_NotUnique(key) == FALSE

KeyTaken(key) == key # NoKey /\ \E p \in Payments : pay[p].key = key

\* The reads and checks before the transaction.  A known key returns the
\* existing payment, a failed check throws: neither changes anything.  The
\* body names any schedule of the order, or none: then the first one that is
\* DUE or PARTIALLY_PAID is taken, which is one of them.
CreateRead(r, i, amount, key) ==
  /\ ~KeyTaken(key)
  /\ amount > 0
  /\ amount <= sched[i].remaining
  /\ amount <= pi.remaining
  /\ Begin(r, "create", NoPayment, i, amount, key, NoUtr)

\* The insert; a key inserted meanwhile violates the unique index and the
\* request ends without a payment of its own.
CreateInsert(r, p) ==
  /\ req[r].at = "create"
  /\ pay[p].status = "NONE"
  /\ pay' = IF KeyTaken(req[r].key) THEN pay
            ELSE [pay EXCEPT ![p] =
                   [status |-> "INITIATED", amount |-> req[r].amount,
                    s |-> req[r].s, txn |-> "CREATED", key |-> req[r].key,
                    utr |-> NoUtr]]
  /\ Done(r)
  /\ UNCHANGED <<sched, pi, invoices, settlements, credited, creditedTotal>>

-----------------------------------------------------------------------------
(* PaymentService.submitUtr                                                *)

\* PaymentStateService.assertTransition over the statuses that occur here.
PayTransition(from, to) ==
  \/ from = to
  \/ from = "INITIATED" /\ to = "SUBMITTED"
  \/ from = "SUBMITTED" /\ to \in {"UNDER_VERIFICATION", "REJECTED"}
  \/ from = "UNDER_VERIFICATION" /\ to \in {"VERIFIED", "REJECTED"}

SubmitRead(r, p, utr) ==
  /\ pay[p].status # "NONE"
  /\ PayTransition(pay[p].status, "SUBMITTED")
  /\ Begin(r, "submit", p, 1, 0, NoKey, utr)

\* A payment row after an update of its status and of its transaction row.
Updated(row, status, txn, utr) ==
  [status |-> status, amount |-> row.amount, s |-> row.s, txn |-> txn,
   key |-> row.key, utr |-> utr]

UtrTaken(p, utr) == \E q \in Payments \ {p} : pay[q].utr = utr

\* The transaction row is locked and overwritten ...
SubmitTransaction(r) ==
  /\ req[r].at = "submit"
  /\ ~TxnLocked(req[r].p)
  /\ Continue(r, "reference", tx[r])
  /\ UNCHANGED tables

\* ... its UTR column is unique: an open submit that wrote the same reference
\* is waited for, a committed one ends the request ...
SubmitReference(r) ==
  /\ req[r].at = "reference"
  /\ \A q \in Requests : req[q].at = "submitPayment" => req[q].utr # req[r].utr
  /\ IF UtrTaken(req[r].p, req[r].utr) THEN Done(r)
     ELSE Continue(r, "submitPayment", tx[r])
  /\ UNCHANGED tables

\* ... and the payment row is written SUBMITTED and then UNDER_VERIFICATION,
\* whatever its status is by now.
SubmitCommit(r) ==
  LET p == req[r].p IN
  /\ req[r].at = "submitPayment"
  /\ ~PayLocked(p)
  /\ pay' = [pay EXCEPT ![p] =
               Updated(@, "UNDER_VERIFICATION", "PROCESSING", req[r].utr)]
  /\ Done(r)
  /\ UNCHANGED <<sched, pi, invoices, settlements, credited, creditedTotal>>

-----------------------------------------------------------------------------
(* PaymentVerificationService.verify                                       *)

VerifyRead(r, p) ==
  /\ PayTransition(pay[p].status, "VERIFIED")
  /\ pay[p].status = "UNDER_VERIFICATION"
  /\ Begin(r, "verify", p, pay[p].s, pay[p].amount, NoKey, NoUtr)

\* ScheduleStateService.assertTransition over the statuses that occur here.
SchedTransition(from, to) ==
  \/ from = to
  \/ from = "PENDING" /\ to = "DUE"
  \/ from = "DUE" /\ to \in {"PARTIALLY_PAID", "PAID"}
  \/ from = "PARTIALLY_PAID" /\ to = "PAID"

\* Mutant: any payment closes the row.
PaidStatus_AlwaysPaid(remaining) == "PAID"

\* PaymentScheduleService.applyVerifiedPayment: the row it writes, from the
\* row it read, and the conditions under which it does not throw.
PaidStatus(remaining) == IF remaining = 0 THEN "PAID" ELSE "PARTIALLY_PAID"
\* Mutant: the amount replaces paidAmount instead of being added to it.
Applied_Overwrites(row, amount) ==
  [status |-> PaidStatus(row.remaining - amount), paid |-> amount,
   remaining |-> row.remaining - amount]

Applied(row, amount) ==
  [status |-> PaidStatus(row.remaining - amount), paid |-> row.paid + amount,
   remaining |-> row.remaining - amount]
SchedApplicable(row, amount) ==
  /\ amount > 0
  /\ amount <= row.remaining
  /\ \/ row.status = "PARTIALLY_PAID"
     \/ SchedTransition(row.status, Applied(row, amount).status)

\* updateMany ... where status = UNDER_VERIFICATION claims the payment row;
\* count = 0 ends the request.
VerifyClaim(r) ==
  /\ req[r].at = "verify"
  /\ ~PayLocked(req[r].p)
  /\ IF pay[req[r].p].status = "UNDER_VERIFICATION"
     THEN Continue(r, "transaction", tx[r])
     ELSE Done(r)
  /\ UNCHANGED tables

\* The transaction row is locked and overwritten, then the schedule is read; a
\* refusal ends the request.
VerifyTransaction(r) ==
  LET i == req[r].s
      amount == req[r].amount IN
  /\ req[r].at = "transaction"
  /\ ~TxnLocked(req[r].p)
  /\ IF SchedApplicable(sched[i], amount)
     THEN Continue(r, "schedule",
                   [row |-> Applied(sched[i], amount), pi |-> NewPi,
                    draft |-> 0, settle |-> 0])
     ELSE Done(r)
  /\ UNCHANGED tables

\* Mutant: the schedule is updated outside the transaction, so a later refusal
\* does not undo it.
VerifySchedule_Autocommit(r) ==
  /\ req[r].at = "schedule"
  /\ ~SchedLocked(req[r].s)
  /\ sched' = [sched EXCEPT ![req[r].s] = tx[r].row]
  /\ IF req[r].amount <= pi.remaining
     THEN Continue(r, "proforma",
                   [row |-> tx[r].row, pi |-> Applied(pi, req[r].amount),
                    draft |-> 0, settle |-> 0])
     ELSE Done(r)
  /\ UNCHANGED <<pay, pi, invoices, settlements, credited, creditedTotal>>

\* The schedule row is locked and overwritten, then the PI is read.
VerifySchedule(r) ==
  /\ req[r].at = "schedule"
  /\ ~SchedLocked(req[r].s)
  /\ IF req[r].amount <= pi.remaining
     THEN Continue(r, "proforma",
                   [row |-> tx[r].row, pi |-> Applied(pi, req[r].amount),
                    draft |-> 0, settle |-> 0])
     ELSE Done(r)
  /\ UNCHANGED tables

\* Mutant: only the schedule of the verified payment is looked at.
AllPaid_OwnRow(r) == tx[r].row.status = "PAID"

\* All schedules PAID, as the transaction sees them: its own write, else the
\* table.
AllPaid(r) ==
  /\ tx[r].row.status = "PAID"
  /\ \A i \in Schedules \ {req[r].s} : sched[i].status = "PAID"

\* The PI row is locked and overwritten; createDraft and createPendingDraft
\* look for existing drafts.
VerifyProforma(r) ==
  /\ req[r].at = "proforma"
  /\ ~PiLocked
  /\ Continue(r, "commit",
              [row |-> tx[r].row, pi |-> tx[r].pi,
               draft |-> IF invoices = 0 THEN 1 ELSE 0,
               settle |-> IF /\ AllPaid(r)
                             /\ tx[r].pi.status = "PAID"
                             /\ settlements = 0
                          THEN 1 ELSE 0])
  /\ UNCHANGED tables

VerifyCommit(r) ==
  LET p == req[r].p
      i == req[r].s IN
  /\ req[r].at = "commit"
  /\ pay' = [pay EXCEPT ![p] = Updated(@, "VERIFIED", "SUCCESS", @.utr)]
  /\ sched' = [sched EXCEPT ![i] = tx[r].row]
  /\ pi' = tx[r].pi
  /\ invoices' = invoices + tx[r].draft
  /\ settlements' = settlements + tx[r].settle
  /\ credited' = [credited EXCEPT ![i] = @ + req[r].amount]
  /\ creditedTotal' = creditedTotal + req[r].amount
  /\ Done(r)

\* Any open transaction may be rolled back: a lost connection, Prisma's
\* transaction timeout, a deadlock victim.
Rollback(r) ==
  /\ req[r].at # "idle"
  /\ Done(r)
  /\ UNCHANGED tables

\* A submit of a payment holds its transaction row and waits for its payment
\* row, a verification or a rejection the other way round: PostgreSQL ends one
\* of the two.
Deadlocked(q, r) ==
  /\ req[q].at = "submitPayment"
  /\ req[r].at \in {"transaction", "rejectTransaction"}
  /\ req[q].p = req[r].p
DeadlockEnds(q, r) == Deadlocked(q, r) /\ (Rollback(q) \/ Rollback(r))

-----------------------------------------------------------------------------
(* PaymentVerificationService.reject                                       *)

RejectRead(r, p) ==
  /\ pay[p].status # "NONE"
  /\ PayTransition(pay[p].status, "REJECTED")
  /\ Begin(r, "reject", p, 1, 0, NoKey, NoUtr)

\* Mutant: reject writes on the status it read before.
RejectClaim_AnyStatus(r) ==
  /\ req[r].at = "reject"
  /\ ~PayLocked(req[r].p)
  /\ Continue(r, "rejectTransaction", tx[r])
  /\ UNCHANGED tables

\* updateMany claims the payment row; count = 0 ends the request.
RejectClaim(r) ==
  /\ req[r].at = "reject"
  /\ ~PayLocked(req[r].p)
  /\ IF pay[req[r].p].status \in {"UNDER_VERIFICATION", "SUBMITTED"}
     THEN Continue(r, "rejectTransaction", tx[r])
     ELSE Done(r)
  /\ UNCHANGED tables

\* The transaction row is updated, and the rejection committed.
RejectCommit(r) ==
  LET p == req[r].p IN
  /\ req[r].at = "rejectTransaction"
  /\ ~TxnLocked(p)
  /\ pay' = [pay EXCEPT ![p] = Updated(@, "REJECTED", "FAILED", @.utr)]
  /\ Done(r)
  /\ UNCHANGED <<sched, pi, invoices, settlements, credited, creditedTotal>>

-----------------------------------------------------------------------------
(* PaymentScheduleService.markDue, called when a dispatch of the order      *)
(* starts loading (ON_LOADING) and when a delivery is marked delivered      *)
(* (ON_DELIVERY); an order may have several dispatches and deliveries.      *)

Milestones == {"ON_LOADING", "ON_DELIVERY"}

MarkDueRead(r, i) ==
  /\ Template[i].type \in Milestones
  /\ sched[i].status = "PENDING"
  /\ SchedTransition(sched[i].status, "DUE")
  /\ Begin(r, "markDue", NoPayment, i, 0, NoKey, NoUtr)

MarkDueWrite(r) ==
  /\ req[r].at = "markDue"
  /\ ~SchedLocked(req[r].s)
  /\ sched' = [sched EXCEPT ![req[r].s] =
                 [status |-> "DUE", paid |-> @.paid, remaining |-> @.remaining]]
  /\ Done(r)
  /\ UNCHANGED <<pay, pi, invoices, settlements, credited, creditedTotal>>

-----------------------------------------------------------------------------
(* The dispatch gate: PaymentScheduleService.isPaymentClearedForDispatch.   *)
(* createFromPo never sets metadata.dispatchBlocking.                       *)

DispatchBlocking(i) == Template[i].type \in {"ADVANCE", "BEFORE_DISPATCH"}
\* Mutant: the gate looks at statuses instead of amounts.
ClearedForDispatch_NotPending ==
  \A i \in Schedules : DispatchBlocking(i) =>
    sched[i].status \in {"PARTIALLY_PAID", "PAID"}

ClearedForDispatch ==
  \A i \in Schedules : DispatchBlocking(i) => sched[i].remaining = 0

-----------------------------------------------------------------------------
Next ==
  \E r \in Requests :
    \/ \E i \in Schedules, a \in InputAmounts, k \in Keys \cup {NoKey} :
         CreateRead(r, i, a, k)
    \/ \E p \in Payments : CreateInsert(r, p)
    \/ \E p \in Payments, u \in Utrs : SubmitRead(r, p, u)
    \/ SubmitTransaction(r)
    \/ SubmitReference(r)
    \/ SubmitCommit(r)
    \/ \E p \in Payments : VerifyRead(r, p)
    \/ VerifyClaim(r)
    \/ VerifyTransaction(r)
    \/ VerifySchedule(r)
    \/ VerifyProforma(r)
    \/ VerifyCommit(r)
    \/ Rollback(r)
    \/ \E p \in Payments : RejectRead(r, p)
    \/ RejectClaim(r)
    \/ RejectCommit(r)
    \/ \E i \in Schedules : MarkDueRead(r, i)
    \/ MarkDueWrite(r)

Spec == Init /\ [][Next]_vars

\* The next step of a transaction that holds a row.
GoesOn(r) ==
  \/ SubmitReference(r) \/ SubmitCommit(r)
  \/ VerifyTransaction(r) \/ VerifySchedule(r) \/ VerifyProforma(r) \/ VerifyCommit(r)
  \/ RejectCommit(r)

\* Node and the database go on with a transaction once it holds a row:
\* PostgreSQL serves waiters for a row lock in order, hence strong fairness,
\* and ends one of two transactions that wait for each other.
FairSpec ==
  /\ Spec
  /\ \A r \in Requests :
       /\ SF_vars(GoesOn(r))
       /\ WF_vars(\E q \in Requests : DeadlockEnds(q, r))

\* Loading and delivery are reported as well.
ReportedSpec ==
  /\ FairSpec
  /\ \A r \in Requests :
       /\ \A i \in Schedules : WF_vars(MarkDueRead(r, i))
       /\ SF_vars(MarkDueWrite(r))

-----------------------------------------------------------------------------
(* Properties *)

\* Every row and every request in progress has its type.
TypeOK ==
  /\ pay \in [Payments -> PayRow]
  /\ sched \in [Schedules -> SchedRow]
  /\ pi \in PiRow
  /\ invoices \in Nat
  /\ settlements \in Nat
  /\ req \in [Requests -> Request]
  /\ tx \in [Requests -> Writes]
  /\ credited \in [Schedules -> Nat]
  /\ creditedTotal \in Nat

\* However verifications interleave, and whichever update of a row is lost,
\* paidAmount and remainingAmount of a schedule and of the PI add up to the
\* amount the row was created with (applyVerifiedPayment of both services).
LedgersBalance ==
  /\ \A i \in Schedules : sched[i].paid + sched[i].remaining = Amount[i]
  /\ pi.paid + pi.remaining = Total

\* No row shows more money as paid than committed verifications brought in.
RecordedMoneyWasVerified ==
  /\ \A i \in Schedules : sched[i].paid <= credited[i]
  /\ pi.paid <= creditedTotal

\* createDraft and createPendingDraft look before they insert and no unique
\* index backs them; the order still gets at most one invoice draft and at
\* most one settlement draft, because the PI row is locked before they look.
AtMostOneDraft == invoices <= 1 /\ settlements <= 1

\* A settlement draft for the seller exists only for an order each of whose
\* schedules, and whose PI, was covered in full by verified payments.
SettlementIsFunded ==
  settlements > 0 =>
    /\ \A i \in Schedules : credited[i] >= Amount[i]
    /\ creditedTotal >= Total

\* The dispatch gate opens only when every ADVANCE and BEFORE_DISPATCH line
\* was covered in full by verified payments.
ClearanceIsFunded ==
  ClearedForDispatch =>
    \A i \in Schedules : DispatchBlocking(i) => credited[i] >= Amount[i]

\* A retried or duplicated create with the same idempotency key never leaves
\* two payments behind, even when both requests passed the look-up, and one bank
\* transfer reference never backs two payments.
NoDuplicatePayments ==
  \A p, q \in Payments : p # q =>
    /\ pay[p].key # NoKey => pay[p].key # pay[q].key
    /\ pay[p].utr # NoUtr => pay[p].utr # pay[q].utr

\* Once verified, a payment stays verified against every rejection and second
\* verification that read it earlier; only a duplicate of the submit that
\* brought it to verification takes it back there (the guarded updates of
\* verify and reject, the unguarded ones of submitUtr).
OnlySubmitReopens ==
  [][\A p \in Payments : pay[p].status = "VERIFIED" =>
       \/ pay'[p].status = "VERIFIED"
       \/ \E r \in Requests : /\ req[r].at = "submitPayment" /\ req[r].p = p
                              /\ req'[r] = Idle]_vars

\* A transaction that holds a row commits or rolls back (submitUtr, verify,
\* reject).  A submit takes the two rows of its payment in the order opposite to
\* verify and reject, so a second submit can wait in a circle with either; that
\* circle the database ends, and no other forms over payments, their
\* transaction rows and references, schedules and the PI.
TransactionsFinish ==
  \A r \in Requests : req[r].at \in Holding ~> req[r].at = "idle"

\* When all schedules are PAID and no verification is open, the settlement
\* draft exists.
FullyPaidIsSettled ==
  (/\ \A r \in Requests : req[r].at \notin Verifying
   /\ \A i \in Schedules : sched[i].status = "PAID") => settlements = 1

\* Every line of the template becomes payable at some point, if loading and
\* delivery are eventually reported.
LinesBecomeDue ==
  \A i \in Schedules : <>(sched[i].status # "PENDING")

\* The order's money and settlement behave as Escrow promises.
E == INSTANCE Escrow WITH received <- creditedTotal, settled <- settlements
SellerIsProtected == E!Spec

-----------------------------------------------------------------------------
(* The inductive invariant behind the safety properties above. *)

\* A PAID schedule has nothing remaining.
PaidRowsAreFull ==
  \A i \in Schedules : sched[i].status = "PAID" => sched[i].remaining = 0

\* A schedule row about to be written balances and is backed by the money
\* already credited plus the payment being verified, stale read or not.
ScheduleWritesSound ==
  \A r \in Requests : req[r].at \in Writing =>
    /\ req[r].amount > 0
    /\ tx[r].row.paid + tx[r].row.remaining = Amount[req[r].s]
    /\ tx[r].row.paid <= credited[req[r].s] + req[r].amount
    /\ tx[r].row.status = "PAID" => tx[r].row.remaining = 0

\* The same for the PI row.
PiWritesSound ==
  \A r \in Requests : req[r].at \in {"proforma", "commit"} =>
    /\ tx[r].pi.paid + tx[r].pi.remaining = Total
    /\ tx[r].pi.paid <= creditedTotal + req[r].amount
    /\ tx[r].pi.status = "PAID" => tx[r].pi.remaining = 0

\* Only one transaction holds the PI row, so what it saw of the drafts still
\* stands when it commits.
OnePiWriter ==
  \A q, r \in Requests : req[q].at = "commit" /\ req[r].at = "commit" => q = r
DraftsSound ==
  \A r \in Requests : req[r].at = "commit" =>
    /\ tx[r].draft = 1 => invoices = 0
    /\ tx[r].settle = 1 =>
         /\ settlements = 0
         /\ tx[r].row.remaining = 0 /\ tx[r].pi.remaining = 0
         /\ \A i \in Schedules \ {req[r].s} : credited[i] >= Amount[i]

IInv ==
  /\ TypeOK
  /\ LedgersBalance
  /\ RecordedMoneyWasVerified
  /\ PaidRowsAreFull
  /\ ScheduleWritesSound
  /\ PiWritesSound
  /\ OnePiWriter
  /\ DraftsSound
  /\ AtMostOneDraft
  /\ SettlementIsFunded
=============================================================================
