--------------------------- MODULE CreditApplications ---------------------------
(***************************************************************************)
(* The applications of one customer for platform credit, and the credit    *)
(* status that the customer's two profiles take from them.                 *)
(*                                                                         *)
(* An application is created under an advisory lock of the customer.  A    *)
(* handler that moves one reads it, and its transaction compares the       *)
(* status in the update (moveStatus) before it writes the profiles.  The   *)
(* transactions that write the same rows take one of them first, or are    *)
(* ended by the database when they wait for each other; each of them is    *)
(* one step.  What an approval does to the ledger is in CreditLedger.      *)
(***************************************************************************)
EXTENDS Integers, Sequences

CONSTANTS
  Requests,          \* concurrently running requests
  MaxApplications    \* bound: applications of the customer

VARIABLES
  apps,        \* credit_applications in the order of their creation
  customer,    \* customer_profiles.credit_status
  account,     \* customer_credit_profiles.status
  suspended,   \* customer_credit_profiles.account_status is SUSPENDED
  byHand,      \* history: the customer's status was last set by suspend or reactivate
  lock,        \* requests that hold the advisory lock
  req          \* requests in progress

profiles == <<customer, account, suspended, byHand>>
vars == <<apps, profiles, lock, req>>

OpenStatus == {"DRAFT", "PENDING", "DOCUMENTS_UNDER_REVIEW", "UNDER_REVIEW",
               "DOCUMENTS_REQUIRED", "INSURANCE_REVIEW", "CREDIT_ARRANGEMENT_PENDING"}
\* EXPIRED and CANCELLED are never written.
Status == OpenStatus \cup {"APPROVED", "PARTIALLY_APPROVED", "REJECTED"}
CreditStatus == {"NOT_APPLIED", "PENDING", "UNDER_REVIEW", "DOCUMENTS_REQUIRED",
                 "APPROVED", "REJECTED", "SUSPENDED"}

Decisions == {"APPROVED", "PARTIALLY_APPROVED"}

\* CREDIT_APPLICATION_TRANSITIONS.
MayBecome(from, to) ==
  \/ from = "DRAFT" /\ to = "PENDING"
  \/ from \in {"PENDING", "DOCUMENTS_UNDER_REVIEW"}
       /\ to \in {"UNDER_REVIEW", "DOCUMENTS_REQUIRED", "REJECTED", "DRAFT"}
  \/ from = "UNDER_REVIEW"
       /\ to \in Decisions \cup {"DOCUMENTS_REQUIRED", "INSURANCE_REVIEW",
                                 "CREDIT_ARRANGEMENT_PENDING", "REJECTED", "DRAFT"}
  \/ from = "DOCUMENTS_REQUIRED"
       /\ to \in {"DOCUMENTS_UNDER_REVIEW", "UNDER_REVIEW", "REJECTED", "DRAFT"}
  \/ from = "INSURANCE_REVIEW"
       /\ to \in Decisions \cup {"CREDIT_ARRANGEMENT_PENDING", "DOCUMENTS_REQUIRED", "REJECTED"}
  \/ from = "CREDIT_ARRANGEMENT_PENDING"
       /\ to \in Decisions \cup {"DOCUMENTS_REQUIRED", "REJECTED"}

Applied == DOMAIN apps

\* An application: whether it was submitted (1), and the credit it was granted.
Application == [status : Status, submitted : {0, 1}, grants : Nat]

\* A request: the application it moves (of one that applies: 0 when it found
\* none open), the status it read and the one it writes.
Request == [at : {"idle", "applying", "drafting", "moving", "suspending", "reactivating"},
            a : Nat, was : Status, to : Status]
Idle == [at |-> "idle", a |-> 0, was |-> "DRAFT", to |-> "DRAFT"]

Init ==
  /\ apps = <<>>
  /\ customer = "NOT_APPLIED" /\ account = "NOT_APPLIED"
  /\ suspended = FALSE /\ byHand = FALSE
  /\ lock = {}
  /\ req = [r \in Requests |-> Idle]

TypeOK ==
  /\ apps \in Seq(Application)
  /\ customer \in CreditStatus /\ account \in CreditStatus
  /\ suspended \in BOOLEAN /\ byHand \in BOOLEAN
  /\ lock \in SUBSET Requests
  /\ req \in [Requests -> Request]

-----------------------------------------------------------------------------
(* The customer *)

OpenApplications == {a \in Applied : apps[a].status \in OpenStatus}

\* apply and saveDraft: the lock, and the open application found with it.
EnterLock(r, at) ==
  /\ req[r].at = "idle"
  /\ lock = {}
  /\ lock' = {r}
  /\ req' = [req EXCEPT ![r] = [at |-> at, a |-> IF OpenApplications = {} THEN 0 ELSE 1,
                                was |-> "DRAFT", to |-> "DRAFT"]]
  /\ UNCHANGED <<apps, profiles>>

LeaveLock(r) == lock' = lock \ {r} /\ req' = [req EXCEPT ![r] = Idle]

\* markCustomerPending.
MarkPending ==
  /\ customer' = "PENDING" /\ account' = "PENDING" /\ byHand' = FALSE
  /\ UNCHANGED suspended

\* apply creates a submitted application ...
Apply(r) ==
  /\ req[r].at = "applying" /\ req[r].a = 0
  /\ Len(apps) < MaxApplications
  /\ apps' = Append(apps, [status |-> "PENDING", submitted |-> 1, grants |-> 0])
  /\ MarkPending
  /\ LeaveLock(r)

\* ... and saveDraft a draft, unless there is one that it updates.
SaveDraft(r) ==
  /\ req[r].at = "drafting" /\ req[r].a = 0
  /\ Len(apps) < MaxApplications
  /\ apps' = Append(apps, [status |-> "DRAFT", submitted |-> 0, grants |-> 0])
  /\ LeaveLock(r)
  /\ UNCHANGED profiles

\* "An open credit application already exists", or the draft takes the new terms.
Applying(r) ==
  /\ req[r].at \in {"applying", "drafting"} /\ req[r].a # 0
  /\ LeaveLock(r)
  /\ UNCHANGED <<apps, profiles>>

-----------------------------------------------------------------------------
(* The moves of an application *)

\* submit, resubmitDocuments, and the administrator's actions: the read.
MoveRead(r, a, to) ==
  /\ req[r].at = "idle"
  /\ MayBecome(apps[a].status, to)
  /\ req' = [req EXCEPT ![r] = [at |-> "moving", a |-> a, was |-> apps[a].status, to |-> to]]
  /\ UNCHANGED <<apps, profiles, lock>>

\* An approval posts CREDIT_APPROVED.
Granted(status) == IF status \in Decisions THEN 1 ELSE 0

\* Mutant: the update does not compare the status.
MoveStatus_Unchecked(r) ==
  apps' = [apps EXCEPT ![req[r].a] =
    [status |-> req[r].to, submitted |-> 1, grants |-> @.grants + Granted(req[r].to)]]

\* moveStatus: compare and set.
MoveStatus(r) ==
  /\ apps[req[r].a].status = req[r].was
  /\ apps' = [apps EXCEPT ![req[r].a] =
       [status |-> req[r].to, submitted |-> 1, grants |-> @.grants + Granted(req[r].to)]]

Moving(r, targets) == req[r].at = "moving" /\ req[r].to \in targets
Moved(r) == req' = [req EXCEPT ![r] = Idle] /\ UNCHANGED lock

\* submit: the customer is pending again.
Submit(r) ==
  /\ Moving(r, {"PENDING"})
  /\ MoveStatus(r)
  /\ MarkPending
  /\ Moved(r)

\* Two moves leave the profiles as they are.
Advance(r, to) ==
  /\ Moving(r, {to})
  /\ MoveStatus(r)
  /\ Moved(r)
  /\ UNCHANGED profiles

ResubmitDocuments(r) == Advance(r, "DOCUMENTS_UNDER_REVIEW")
MarkArrangementPending(r) == Advance(r, "CREDIT_ARRANGEMENT_PENDING")

\* Three write the customer's profile only.
Ask(r, to, credit) ==
  /\ Moving(r, {to})
  /\ MoveStatus(r)
  /\ customer' = credit /\ byHand' = FALSE
  /\ Moved(r)
  /\ UNCHANGED <<account, suspended>>

RequestDocuments(r) == Ask(r, "DOCUMENTS_REQUIRED", "DOCUMENTS_REQUIRED")
RequestResubmission(r) == Ask(r, "DRAFT", "DOCUMENTS_REQUIRED")
SendInsuranceReview(r) == Ask(r, "INSURANCE_REVIEW", "UNDER_REVIEW")

\* The others write both, and an approval ends a suspension.
Decide(r, targets, credit) ==
  /\ Moving(r, targets)
  /\ MoveStatus(r)
  /\ customer' = credit /\ account' = credit /\ byHand' = FALSE
  /\ suspended' = (suspended /\ req[r].to \notin Decisions)
  /\ Moved(r)

StartReview(r) == Decide(r, {"UNDER_REVIEW"}, "UNDER_REVIEW")
DecideApproval(r) == Decide(r, Decisions, "APPROVED")
Reject(r) == Decide(r, {"REJECTED"}, "REJECTED")

\* "This application was updated by someone else."
Conflict(r) ==
  /\ req[r].at = "moving" /\ apps[req[r].a].status # req[r].was
  /\ Moved(r)
  /\ UNCHANGED <<apps, profiles>>

-----------------------------------------------------------------------------
(* The account *)

\* suspend and reactivate check the account, and then write both profiles
\* whatever the account and the applications are by then.
HandRead(r, at) ==
  /\ req[r].at = "idle"
  /\ account # "NOT_APPLIED"
  /\ IF at = "suspending" THEN ~suspended ELSE account \in {"APPROVED", "SUSPENDED"}
  /\ req' = [req EXCEPT ![r] = [at |-> at, a |-> 0, was |-> "DRAFT", to |-> "DRAFT"]]
  /\ UNCHANGED <<apps, profiles, lock>>

HandCommit(r, at, credit) ==
  /\ req[r].at = at
  /\ customer' = credit /\ account' = credit /\ byHand' = TRUE
  /\ suspended' = (credit = "SUSPENDED")
  /\ Moved(r)
  /\ UNCHANGED apps

Suspend(r) == HandCommit(r, "suspending", "SUSPENDED")
Reactivate(r) == HandCommit(r, "reactivating", "APPROVED")

Next ==
  \/ \E r \in Requests :
       \/ EnterLock(r, "applying") \/ EnterLock(r, "drafting")
       \/ Apply(r) \/ SaveDraft(r) \/ Applying(r)
       \/ \E a \in Applied, to \in Status : MoveRead(r, a, to)
       \/ Submit(r) \/ ResubmitDocuments(r) \/ MarkArrangementPending(r)
       \/ RequestDocuments(r) \/ RequestResubmission(r) \/ SendInsuranceReview(r)
       \/ StartReview(r) \/ DecideApproval(r) \/ Reject(r)
       \/ Conflict(r)
       \/ HandRead(r, "suspending") \/ HandRead(r, "reactivating")
       \/ Suspend(r) \/ Reactivate(r)

Spec == Init /\ [][Next]_vars

-----------------------------------------------------------------------------
(* Properties *)

\* What the customer is told while the application has the status s.
Told(s) ==
  IF s \in {"UNDER_REVIEW", "INSURANCE_REVIEW", "CREDIT_ARRANGEMENT_PENDING"} THEN "UNDER_REVIEW"
  ELSE IF s \in {"DRAFT", "DOCUMENTS_REQUIRED", "DOCUMENTS_UNDER_REVIEW"} THEN "DOCUMENTS_REQUIRED"
  ELSE IF s \in Decisions THEN "APPROVED" ELSE s

\* The last application that was submitted.
LastSubmitted(a) ==
  apps[a].submitted = 1 /\ \A b \in Applied : b > a => apps[b].submitted = 0

\* However two administrators and the customer race: an application is decided
\* once, a customer never has two open ones, and the customer's credit status
\* tells the state of the last application that was submitted, until the
\* account is suspended or reactivated by hand.
StatusesAgree ==
  /\ \A a, b \in OpenApplications : a = b
  /\ \A a \in Applied : apps[a].grants = Granted(apps[a].status)
  /\ \A a \in Applied : LastSubmitted(a) /\ ~byHand => customer = Told(apps[a].status)

-----------------------------------------------------------------------------
(* The inductive invariant behind them. *)

\* What a request found stays true: it moves an application that exists, by a
\* step that its read allowed; the lock is held while one applies, and with it
\* that no application is open.
RequestsKnow ==
  \A r \in Requests :
    /\ req[r].at = "moving" => /\ req[r].a \in Applied
                               /\ MayBecome(req[r].was, req[r].to)
    /\ req[r].at \in {"applying", "drafting"} =>
         /\ lock = {r}
         /\ req[r].a = 0 => OpenApplications = {}

\* Only the last application is open, and all but a new draft were submitted.
OpenIsLast ==
  \A a \in Applied :
    /\ apps[a].status \in OpenStatus => a = Len(apps)
    /\ apps[a].submitted = 0 => apps[a].status = "DRAFT"

\* The account was opened by an application, and an approved one is approved
\* until it is suspended.
AccountFollows ==
  /\ apps = <<>> => account = "NOT_APPLIED" /\ \A r \in Requests :
                      req[r].at \notin {"suspending", "reactivating"}
  /\ \A a \in Applied : a = Len(apps) /\ apps[a].status \in Decisions =>
                          account \in {"APPROVED", "SUSPENDED"}

IInv ==
  /\ TypeOK
  /\ RequestsKnow
  /\ OpenIsLast
  /\ AccountFollows
  /\ StatusesAgree
=============================================================================
