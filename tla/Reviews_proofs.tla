----------------------------- MODULE Reviews_proofs -----------------------------
(***************************************************************************)
(* What is reviewed by the administration, for any number of concurrent    *)
(* requests: applications for credit and the payment page that shows them; *)
(* the onboarding of a seller; the KYC of a customer; the calls to the     *)
(* provider that verifies an identifier; requests for a grade; tickets of  *)
(* the support.  The components share no state, and a variable or constant *)
(* that two of them name alike stands for that of the one a theorem is     *)
(* about.                                                                  *)
(***************************************************************************)
EXTENDS PaymentTerms, SequenceTheorems, TLAPS

CONSTANTS
  MaxSubmissions,                       \* of a customer's KYC
  Agents, MaxResolutions, NoAgent,      \* of the support
  Processes, Identifiers, Adapters, MaxRows, NoIdentifier, NoProcess,   \* of a verification
  Rows, Admins, Keys, Catalogue, NewGrades, MaxDocuments, MaxEvents,
  NoAdmin, NoKey, NoGrade, NoRow        \* of grade requests

VARIABLES
  profile, form, org, change, review,   \* of a seller, a customer's KYC, a verification
  kyc, history,                         \* of a customer's KYC
  ticket, clock, reply,                 \* of the support
  rows, verifier, adapter,              \* of a verification
  row, story, docs, grades, call        \* of grade requests

Seller == INSTANCE SellerReview
Kyc == INSTANCE CustomerKyc
Support == INSTANCE SupportTickets
Check == INSTANCE KycVerification
Grade == INSTANCE GradeRequests

-----------------------------------------------------------------------------
(* Applications for credit: one is decided once, one at a time is open, and *)
(* the customer's status tells its state.                                  *)

LEMMA IdleIsRequest == Idle \in Request
<1>1. "DRAFT" \in Status
  BY DEF Status, OpenStatus
<1> QED BY <1>1 DEF Idle, Request

\* What is known of an application.
LEMMA ApplicationsTyped ==
  ASSUME TypeOK, NEW a \in Applied
  PROVE  /\ a \in Nat
         /\ apps[a].status \in Status /\ apps[a].submitted \in {0, 1}
<1>1. apps \in Seq(Application) /\ a \in 1 .. Len(apps) /\ Len(apps) \in Nat
  BY DEF TypeOK, Applied
<1>2. apps[a] \in Application
  BY <1>1
<1> QED BY <1>1, <1>2 DEF Application

LEMMA InvInit == Init => IInv
<1> SUFFICES ASSUME Init PROVE IInv
  OBVIOUS
<1>1. TypeOK
  <2>1. apps \in Seq(Application)
    BY DEF Init
  <2>2. customer \in CreditStatus /\ account \in CreditStatus
    BY DEF Init, CreditStatus
  <2> QED BY <2>1, <2>2, IdleIsRequest DEF Init, TypeOK
<1>2. RequestsKnow /\ OpenIsLast /\ AccountFollows
  BY DEF Init, RequestsKnow, OpenIsLast, AccountFollows, Idle, Applied
<1>3. StatusesAgree
  BY DEF Init, StatusesAgree, OpenApplications, Applied
<1> QED BY <1>1, <1>2, <1>3 DEF IInv

\* A step that leaves the applications and the profiles as they are.
LEMMA KeepsApplications ==
  ASSUME OpenIsLast, StatusesAgree, UNCHANGED <<apps, customer, byHand>>
  PROVE  OpenIsLast' /\ StatusesAgree'
BY DEF OpenIsLast, StatusesAgree, OpenApplications, Applied, LastSubmitted, Granted, Told

LEMMA EnterLockStep ==
  ASSUME IInv, NEW r \in Requests, NEW at \in {"applying", "drafting"}, EnterLock(r, at)
  PROVE  IInv'
<1> USE DEF IInv, EnterLock, profiles
<1>1. TypeOK'
  BY DEF TypeOK, Request, Status, OpenStatus
<1>2. RequestsKnow'
  BY DEF RequestsKnow, TypeOK, OpenApplications, Applied, MayBecome
<1>3. AccountFollows'
  BY DEF AccountFollows, TypeOK, Applied
<1> QED BY <1>1, <1>2, <1>3, KeepsApplications

\* A new application, when none is open.
LEMMA AppendStep ==
  ASSUME IInv, NEW r \in Requests, Apply(r) \/ SaveDraft(r)
  PROVE  IInv'
<1> USE DEF IInv, profiles, MarkPending, LeaveLock
<1>1. PICK x \in Application :
        /\ apps' = Append(apps, x)
        /\ x.grants = 0
        /\ \/ /\ x.status = "PENDING" /\ x.submitted = 1
              /\ customer' = "PENDING" /\ account' = "PENDING" /\ byHand' = FALSE
           \/ /\ x.status = "DRAFT" /\ x.submitted = 0
              /\ UNCHANGED <<customer, account, byHand>>
  BY DEF Apply, SaveDraft, Application, Status, OpenStatus
<1>2. /\ req' = [req EXCEPT ![r] = Idle] /\ lock' = lock \ {r} /\ lock = {r}
      /\ OpenApplications = {} /\ suspended' = suspended
  BY DEF Apply, SaveDraft, RequestsKnow
<1>3. /\ Applied' = 1 .. Len(apps) + 1 /\ Applied = 1 .. Len(apps) /\ Len(apps) \in Nat
      /\ Len(apps') = Len(apps) + 1 /\ apps' # <<>>
      /\ \A a \in Applied : apps'[a] = apps[a]
      /\ apps'[Len(apps) + 1] = x
  BY <1>1 DEF Applied, TypeOK
<1>4. \A a \in Applied : apps[a].status \notin OpenStatus
  BY <1>2 DEF OpenApplications
<1>5. TypeOK'
  <2>1. apps' \in Seq(Application)
    BY <1>1 DEF TypeOK
  <2>2. customer' \in CreditStatus /\ account' \in CreditStatus /\ byHand' \in BOOLEAN
    BY <1>1 DEF TypeOK, CreditStatus
  <2> QED BY <1>2, <2>1, <2>2, IdleIsRequest DEF TypeOK
<1>6. RequestsKnow'
  <2>1. \A q \in Requests \ {r} : req'[q] = req[q] /\ req[q].at \notin {"applying", "drafting"}
    BY <1>2 DEF RequestsKnow, TypeOK
  <2>2. req'[r].at = "idle"
    BY <1>2 DEF TypeOK, Idle
  <2>3. Applied \subseteq Applied'
    BY <1>3
  <2> QED BY <2>1, <2>2, <2>3 DEF RequestsKnow, MayBecome, Decisions
<1>7. OpenIsLast'
  BY <1>1, <1>3, <1>4 DEF OpenIsLast
<1>8. AccountFollows'
  BY <1>1, <1>3 DEF AccountFollows, Decisions
<1>9. StatusesAgree'
  <2>1. \A a, b \in OpenApplications' : a = b
    BY <1>3, <1>4 DEF OpenApplications
  <2>2. \A a \in Applied' : apps'[a].grants = Granted(apps'[a].status)
    BY <1>1, <1>3 DEF StatusesAgree, Granted, Decisions
  <2>3. ASSUME NEW a \in Applied', LastSubmitted(a)', ~byHand'
        PROVE  customer' = Told(apps'[a].status)
    <3>1. CASE x.submitted = 1
      BY <1>1, <1>3, <2>3, <3>1 DEF LastSubmitted, Told, Decisions
    <3>2. CASE x.submitted = 0
      BY <1>1, <1>3, <2>3, <3>2 DEF LastSubmitted, StatusesAgree
    <3> QED BY <1>1, <3>1, <3>2
  <2> QED BY <2>1, <2>2, <2>3 DEF StatusesAgree, Told, Granted
<1> QED BY <1>5, <1>6, <1>7, <1>8, <1>9

LEMMA ApplyingStep ==
  ASSUME IInv, NEW r \in Requests, Applying(r)
  PROVE  IInv'
<1> USE DEF IInv, Applying, LeaveLock, profiles
<1>1. TypeOK'
  BY IdleIsRequest DEF TypeOK
<1>2. RequestsKnow'
  BY DEF RequestsKnow, TypeOK, OpenApplications, Applied, MayBecome, Idle
<1>3. AccountFollows'
  BY DEF AccountFollows, TypeOK, Applied, Idle
<1> QED BY <1>1, <1>2, <1>3, KeepsApplications

LEMMA MoveReadStep ==
  ASSUME IInv, NEW r \in Requests, NEW a \in Applied, NEW to \in Status, MoveRead(r, a, to)
  PROVE  IInv'
<1> USE DEF IInv, MoveRead, profiles
<1>0. a \in Nat /\ apps[a].status \in Status
  BY ApplicationsTyped
<1>1. TypeOK'
  BY <1>0 DEF TypeOK, Request
<1>2. RequestsKnow'
  BY DEF RequestsKnow, TypeOK, OpenApplications, Applied, MayBecome
<1>3. AccountFollows'
  BY DEF AccountFollows, TypeOK, Applied
<1> QED BY <1>1, <1>2, <1>3, KeepsApplications

LEMMA ConflictStep ==
  ASSUME IInv, NEW r \in Requests, Conflict(r)
  PROVE  IInv'
<1> USE DEF IInv, Conflict, Moved, profiles
<1>1. TypeOK'
  BY IdleIsRequest DEF TypeOK
<1>2. RequestsKnow'
  BY DEF RequestsKnow, TypeOK, OpenApplications, Applied, MayBecome, Idle
<1>3. AccountFollows'
  BY DEF AccountFollows, TypeOK, Applied, Idle
<1> QED BY <1>1, <1>2, <1>3, KeepsApplications

\* A move: only the last application is open, so it is the one that moves, and
\* with its new status the customer is told of it.
LEMMA MoveStep ==
  ASSUME IInv, NEW r \in Requests, req[r].at = "moving", MoveStatus(r), Moved(r),
         customer' \in CreditStatus, account' \in CreditStatus,
         suspended' \in BOOLEAN, byHand' \in BOOLEAN,
         ~byHand' => customer' = Told(req[r].to) \/ /\ ~byHand
                                                    /\ customer' = customer
                                                    /\ req[r].was # "DRAFT"
                                                    /\ Told(req[r].was) = Told(req[r].to),
         req[r].to \in Decisions => account' \in {"APPROVED", "SUSPENDED"}
  PROVE  IInv'
<1> USE DEF IInv, Moved
<1> DEFINE a == req[r].a
           was == req[r].was
           to == req[r].to
<1>1. a \in Applied /\ MayBecome(was, to) /\ apps[a].status = was /\ to \in Status
  BY DEF RequestsKnow, MoveStatus, TypeOK, Request
<1>2. was \in OpenStatus /\ was \notin Decisions
  BY <1>1 DEF MayBecome, OpenStatus, Decisions
<1>3. a = Len(apps) /\ Applied = 1 .. Len(apps) /\ Len(apps) \in Nat
      /\ \A b \in Applied \ {a} : apps[b].status \notin OpenStatus
  BY <1>1, <1>2 DEF OpenIsLast, Applied, TypeOK
<1>4. /\ Applied' = Applied /\ Len(apps') = Len(apps) /\ apps' # <<>> /\ apps # <<>>
      /\ apps'[a] = [status |-> to, submitted |-> 1, grants |-> Granted(to)]
      /\ \A b \in Applied \ {a} : apps'[b] = apps[b]
      /\ apps' \in Seq(Application)
  <2>1. apps[a].grants = 0
    BY <1>1, <1>2 DEF StatusesAgree, Granted
  <2>2. Granted(to) \in Nat /\ 0 + Granted(to) = Granted(to)
    BY DEF Granted
  <2>3. [status |-> to, submitted |-> 1, grants |-> Granted(to)] \in Application
    BY <1>1, <2>2 DEF Application
  <2>4. apps' = [apps EXCEPT ![a] = [status |-> to, submitted |-> 1, grants |-> Granted(to)]]
    BY <2>1, <2>2 DEF MoveStatus
  <2> HIDE DEF a, to
  <2> QED BY <1>1, <1>3, <2>3, <2>4 DEF Applied, TypeOK
<1> HIDE DEF a, was, to
<1>5. TypeOK'
  BY <1>4, IdleIsRequest DEF TypeOK
<1>6. RequestsKnow'
  <2>1. OpenApplications # {}
    BY <1>1, <1>2 DEF OpenApplications
  <2> QED BY <1>4, <2>1 DEF RequestsKnow, TypeOK, Idle, MayBecome
<1>7. OpenIsLast'
  BY <1>3, <1>4 DEF OpenIsLast
<1>8. AccountFollows'
  BY <1>3, <1>4 DEF AccountFollows, to
<1>9. StatusesAgree'
  <2>1. \A b, c \in OpenApplications' : b = c
    BY <1>3, <1>4 DEF OpenApplications
  <2>2. \A b \in Applied' : apps'[b].grants = Granted(apps'[b].status)
    BY <1>4 DEF StatusesAgree, Granted
  <2>3. ASSUME NEW b \in Applied', LastSubmitted(b)', ~byHand'
        PROVE  customer' = Told(apps'[b].status)
    <3>1. b = a
      BY <1>1, <1>3, <1>4, <2>3 DEF LastSubmitted
    <3>2. ASSUME ~byHand, was # "DRAFT" PROVE customer = Told(was)
      <4>1. apps[a].submitted = 1
        BY <1>1, <3>2, ApplicationsTyped DEF OpenIsLast
      <4>2. LastSubmitted(a)
        BY <1>3, <4>1 DEF LastSubmitted
      <4> QED BY <1>1, <3>2, <4>2 DEF StatusesAgree
    <3> QED BY <1>4, <2>3, <3>1, <3>2 DEF was, to
  <2> QED BY <2>1, <2>2, <2>3 DEF StatusesAgree, Told, Granted
<1> QED BY <1>5, <1>6, <1>7, <1>8, <1>9

\* Each of the moves is one.
LEMMA MovesStep ==
  ASSUME IInv, NEW r \in Requests,
         \/ Submit(r) \/ ResubmitDocuments(r) \/ MarkArrangementPending(r)
         \/ RequestDocuments(r) \/ RequestResubmission(r) \/ SendInsuranceReview(r)
         \/ StartReview(r) \/ DecideApproval(r) \/ Reject(r)
  PROVE  IInv'
<1> USE DEF IInv, Moving, profiles
<1>0. MayBecome(req[r].was, req[r].to) /\ customer \in CreditStatus
      /\ account \in CreditStatus /\ suspended \in BOOLEAN /\ byHand \in BOOLEAN
  BY DEF RequestsKnow, TypeOK, Submit, ResubmitDocuments, MarkArrangementPending, Advance,
         RequestDocuments, RequestResubmission, SendInsuranceReview, Ask,
         StartReview, DecideApproval, Reject, Decide
<1>1. CASE Submit(r)
  BY <1>0, <1>1, MoveStep DEF Submit, MarkPending, Told, Decisions, CreditStatus
<1>2. CASE ResubmitDocuments(r) \/ MarkArrangementPending(r)
  BY <1>0, <1>2, MoveStep DEF ResubmitDocuments, MarkArrangementPending, Advance, Told,
                              Decisions, MayBecome
<1>3. CASE RequestDocuments(r) \/ RequestResubmission(r) \/ SendInsuranceReview(r)
  BY <1>0, <1>3, MoveStep DEF RequestDocuments, RequestResubmission, SendInsuranceReview, Ask,
                              Told, Decisions, CreditStatus
<1>4. CASE StartReview(r) \/ DecideApproval(r) \/ Reject(r)
  BY <1>0, <1>4, MoveStep DEF StartReview, DecideApproval, Reject, Decide, Told, Decisions,
                              CreditStatus
<1> QED BY <1>1, <1>2, <1>3, <1>4

LEMMA HandReadStep ==
  ASSUME IInv, NEW r \in Requests, NEW at \in {"suspending", "reactivating"}, HandRead(r, at)
  PROVE  IInv'
<1> USE DEF IInv, HandRead, profiles
<1>1. TypeOK'
  BY DEF TypeOK, Request, Status, OpenStatus
<1>2. RequestsKnow'
  BY DEF RequestsKnow, TypeOK, OpenApplications, Applied, MayBecome
<1>3. AccountFollows'
  BY DEF AccountFollows, TypeOK, Applied
<1> QED BY <1>1, <1>2, <1>3, KeepsApplications

LEMMA HandCommitStep ==
  ASSUME IInv, NEW r \in Requests, Suspend(r) \/ Reactivate(r)
  PROVE  IInv'
<1> USE DEF IInv, Suspend, Reactivate, HandCommit, Moved
<1>1. TypeOK'
  BY IdleIsRequest DEF TypeOK, CreditStatus
<1>2. RequestsKnow'
  BY DEF RequestsKnow, TypeOK, OpenApplications, Applied, MayBecome, Idle
<1>3. AccountFollows'
  BY DEF AccountFollows, TypeOK, Applied, Idle
<1>4. OpenIsLast'
  BY DEF OpenIsLast, Applied
<1>5. StatusesAgree'
  BY DEF StatusesAgree, OpenApplications, Applied, Granted, LastSubmitted
<1> QED BY <1>1, <1>2, <1>3, <1>4, <1>5

LEMMA InvStep == IInv /\ [Next]_vars => IInv'
<1> SUFFICES ASSUME IInv, [Next]_vars PROVE IInv'
  OBVIOUS
<1>1. CASE UNCHANGED vars
  <2>1. TypeOK' /\ RequestsKnow' /\ AccountFollows'
    BY <1>1 DEF IInv, vars, profiles, TypeOK, RequestsKnow, AccountFollows, OpenApplications,
                Applied, MayBecome
  <2> QED BY <1>1, <2>1, KeepsApplications DEF IInv, vars, profiles
<1>2. CASE Next
  BY <1>2, EnterLockStep, AppendStep, ApplyingStep, MoveReadStep, ConflictStep, MovesStep,
     HandReadStep, HandCommitStep DEF Next
<1> QED BY <1>1, <1>2

\* However the customer, the reviewers and those who suspend the account race,
\* an application is decided once, one at a time is open, and the customer's
\* status tells the state of the last that was submitted.
THEOREM StatusesAgreeAlways == Spec => []StatusesAgree
<1>1. IInv => StatusesAgree
  BY DEF IInv
<1> QED BY <1>1, InvInit, InvStep, PTL DEF Spec

-----------------------------------------------------------------------------
\* The state that the page shows to a customer whose account is not approved.
LEMMA StateWithoutAccount ==
  ASSUME IInv, account # "APPROVED"
  PROVE  MayApply(StateByApplication) <=> OpenApplications = {}
<1> USE DEF MayApply, StateByApplication
<1>1. CASE apps = <<>>
  <2>1. OpenApplications = {} /\ account = "NOT_APPLIED"
    BY <1>1 DEF IInv, AccountFollows, OpenApplications, Applied
  <2> QED BY <1>1, <2>1 DEF OpenStatus
<1>2. CASE apps # <<>>
  <2> DEFINE last == apps[Len(apps)]
  <2>1. Len(apps) \in Applied
    BY <1>2 DEF IInv, TypeOK, Applied
  <2>2. last.status \in Status
    BY <2>1, ApplicationsTyped DEF IInv
  <2>3. OpenApplications = {} <=> last.status \notin OpenStatus
    BY <2>1 DEF IInv, OpenIsLast, OpenApplications
  <2>4. last.status \in Decisions => account \notin {"PENDING", "UNDER_REVIEW", "DOCUMENTS_REQUIRED"}
    BY <2>1 DEF IInv, AccountFollows
  <2> QED BY <1>2, <2>2, <2>3, <2>4 DEF OpenStatus, Status, Decisions
<1> QED BY <1>1, <1>2

\* The page and the checkout agree, whatever the amounts, the credit, the
\* term and the offer: it invites a customer to apply exactly when an
\* application would be taken, and offers the tenures the checkout accepts.
THEOREM PageAgrees ==
  ASSUME NEW available \in Int, NEW term \in Int, NEW amount \in Int,
         NEW product \in SUBSET Supported
  PROVE  Spec => [](/\ InvitesWhoMayApply(available, product, amount)
                    /\ SelectableIsAccepted(available, term, product, amount))
<1>1. ASSUME IInv
      PROVE  /\ InvitesWhoMayApply(available, product, amount)
             /\ SelectableIsAccepted(available, term, product, amount)
  <2>1. CASE account # "APPROVED"
    <3>1. AccessState(available, amount) # "APPROVED"
      BY <2>1 DEF AccessState, StateByApplication
    <3>2. Selectable(available, term, product, amount) = {}
      BY <3>1 DEF Selectable
    <3>3. MayApply(AccessState(available, amount)) <=> OpenApplications = {}
      BY <1>1, <2>1, StateWithoutAccount DEF AccessState
    <3> QED BY <2>1, <3>2, <3>3 DEF InvitesWhoMayApply, Invites, SelectableIsAccepted, Eligible
  <2>2. CASE account = "APPROVED"
    <3>1. AccessState(available, amount) \in {"SUSPENDED", "LIMIT_EXCEEDED", "APPROVED"}
      BY <2>2 DEF AccessState
    <3>2. amount > 0 => (AccessState(available, amount) = "APPROVED"
                           <=> ~suspended /\ available >= amount)
      BY <2>2 DEF AccessState
    <3>3. InvitesWhoMayApply(available, product, amount)
      BY <2>2, <3>1 DEF InvitesWhoMayApply, Invites, MayApply
    <3>4. AvailableTenures(term) \subseteq Supported
      BY DEF AvailableTenures
    <3>5. SelectableIsAccepted(available, term, product, amount)
      BY <2>2, <3>2, <3>4 DEF SelectableIsAccepted, Selectable, Eligible, OfferSupports
    <3> QED BY <3>3, <3>5
  <2> QED BY <2>1, <2>2
<1> QED BY <1>1, InvInit, InvStep, PTL DEF Spec

-----------------------------------------------------------------------------
(* Sellers: typing makes the story inductive; every operation writes the    *)
(* profile together with all that must agree with it, and what it decides   *)
(* on may be stale.                                                         *)

SellerInv == Seller!TypeOK /\ Seller!SellerTellsOneStory

\* A new seller has nothing decided, and its organization shows nothing.
LEMMA SellerInit == Seller!Init => SellerInv
  BY DEF Seller!Init, SellerInv, Seller!TypeOK, Seller!SellerTellsOneStory, Seller!Shown, Seller!Decided, Seller!Idle,
         Seller!ProfileStatus, Seller!FormStatus, Seller!Ops, Seller!Change

\* Steps that write no row keep the story.
LEMMA SellerSilent ==
  ASSUME SellerInv, UNCHANGED <<profile, form, org, change>>,
         review' \in [Requests -> [op : Seller!Ops \cup {"idle"}, change : Seller!Change]]
  PROVE  SellerInv'
  BY DEF SellerInv, Seller!TypeOK, Seller!SellerTellsOneStory, Seller!Shown, Seller!Decided

\* A request that ends leaves the requests well typed.
LEMMA SellerDone ==
  ASSUME Seller!TypeOK, NEW r \in Requests, Seller!Done(r)
  PROVE  review' \in [Requests -> [op : Seller!Ops \cup {"idle"}, change : Seller!Change]]
  BY DEF Seller!TypeOK, Seller!Done, Seller!Idle, Seller!Change

LEMMA SellerStart ==
  ASSUME SellerInv, NEW r \in Requests, NEW op \in Seller!Ops, Seller!Start(r, op)
  PROVE  SellerInv'
<1>1. review' \in [Requests -> [op : Seller!Ops \cup {"idle"}, change : Seller!Change]]
  BY DEF SellerInv, Seller!TypeOK, Seller!Start
<1>. QED  BY <1>1, SellerSilent DEF Seller!Start

LEMMA SellerRefuse ==
  ASSUME SellerInv, NEW r \in Requests, Seller!Refuse(r)
  PROVE  SellerInv'
  BY SellerDone, SellerSilent DEF SellerInv, Seller!Refuse

\* A save only takes the onboarding back to IN_PROGRESS, of which the story
\* says nothing: that it may be stale does no harm to it.
LEMMA SellerSave ==
  ASSUME SellerInv, NEW r \in Requests, Seller!Save(r)
  PROVE  SellerInv'
<1>1. review' \in [Requests -> [op : Seller!Ops \cup {"idle"}, change : Seller!Change]]
  BY SellerDone DEF SellerInv, Seller!Save
<1>. QED
  BY <1>1 DEF SellerInv, Seller!TypeOK, Seller!SellerTellsOneStory, Seller!Shown, Seller!Decided, Seller!Save, Seller!FormStatus

\* A submission resolves the request for changes it finds, so none is open
\* when the seller is under review again.
LEMMA SellerSubmit ==
  ASSUME SellerInv, NEW r \in Requests, Seller!Submit(r)
  PROVE  SellerInv'
<1>1. review' \in [Requests -> [op : Seller!Ops \cup {"idle"}, change : Seller!Change]]
  BY SellerDone DEF SellerInv, Seller!Submit
<1>2. change' \in Seller!Change /\ change' # "open"
  BY DEF SellerInv, Seller!TypeOK, Seller!Submit, Seller!Change
<1>. QED
  BY <1>1, <1>2 DEF SellerInv, Seller!TypeOK, Seller!SellerTellsOneStory, Seller!Shown, Seller!Decided, Seller!Submit,
                    Seller!ProfileStatus, Seller!FormStatus

LEMMA SellerApprove ==
  ASSUME SellerInv, NEW r \in Requests, Seller!Approve(r)
  PROVE  SellerInv'
<1>1. review' \in [Requests -> [op : Seller!Ops \cup {"idle"}, change : Seller!Change]]
  BY SellerDone DEF SellerInv, Seller!Approve
<1>2. change' \in Seller!Change
  BY DEF SellerInv, Seller!TypeOK, Seller!Approve, Seller!Closed, Seller!Change
<1>. QED
  BY <1>1, <1>2 DEF Seller!TypeOK, SellerInv, Seller!SellerTellsOneStory, Seller!Shown, Seller!Decided, Seller!Approve,
                    Seller!ProfileStatus, Seller!FormStatus

LEMMA SellerReject ==
  ASSUME SellerInv, NEW r \in Requests, Seller!Reject(r)
  PROVE  SellerInv'
<1>1. review' \in [Requests -> [op : Seller!Ops \cup {"idle"}, change : Seller!Change]]
  BY SellerDone DEF SellerInv, Seller!Reject
<1>2. change' \in Seller!Change
  BY DEF SellerInv, Seller!TypeOK, Seller!Reject, Seller!Closed, Seller!Change
<1>. QED
  BY <1>1, <1>2 DEF Seller!TypeOK, SellerInv, Seller!SellerTellsOneStory, Seller!Shown, Seller!Decided, Seller!Reject,
                    Seller!ProfileStatus, Seller!FormStatus

\* Asking for changes opens a request and takes the seller out of review in
\* the same step.
LEMMA SellerRequestChanges ==
  ASSUME SellerInv, NEW r \in Requests, Seller!RequestChanges(r)
  PROVE  SellerInv'
<1>1. review' \in [Requests -> [op : Seller!Ops \cup {"idle"}, change : Seller!Change]]
  BY SellerDone DEF SellerInv, Seller!RequestChanges
<1>. QED
  BY <1>1 DEF SellerInv, Seller!TypeOK, Seller!SellerTellsOneStory, Seller!Shown, Seller!Decided, Seller!RequestChanges,
              Seller!ProfileStatus, Seller!FormStatus, Seller!Change

\* A suspension leaves the onboarding as it is, decided or not.
LEMMA SellerSuspend ==
  ASSUME SellerInv, Seller!Suspend
  PROVE  SellerInv'
  BY DEF SellerInv, Seller!TypeOK, Seller!SellerTellsOneStory, Seller!Shown, Seller!Decided, Seller!Suspend, Seller!ProfileStatus

LEMMA SellerAlways == Seller!Spec => []SellerInv
<1>1. Seller!Init => SellerInv
  BY SellerInit
<1>2. SellerInv /\ [Seller!Next]_(Seller!vars) => SellerInv'
  <2>1. ASSUME SellerInv, Seller!Next PROVE SellerInv'
    BY <2>1, SellerStart, SellerSave, SellerSubmit, SellerApprove, SellerReject,
       SellerRequestChanges, SellerRefuse, SellerSuspend DEF Seller!Next
  <2>2. ASSUME SellerInv, UNCHANGED Seller!vars PROVE SellerInv'
    BY <2>2 DEF Seller!vars, SellerInv, Seller!TypeOK, Seller!SellerTellsOneStory, Seller!Shown, Seller!Decided
  <2>. QED  BY <2>1, <2>2
<1>. QED  BY <1>1, <1>2, PTL DEF Seller!Spec

\* However many requests overlap, a seller under review has no open request
\* for changes, the organization shows the profile's status, and a submitted
\* or decided onboarding belongs to a profile at the same point, unless that
\* is suspended (onboarding.service.ts, submit; admin-sellers.service.ts).
THEOREM SellerStoryHolds == Seller!Spec => []Seller!SellerTellsOneStory
<1>1. SellerInv => Seller!SellerTellsOneStory
  BY DEF SellerInv
<1>. QED  BY <1>1, SellerAlways, PTL

-----------------------------------------------------------------------------
(* The KYC of a customer: while it waits for a decision, a submission has   *)
(* not been approved yet.                                                   *)

KycInv ==
  /\ kyc \in Kyc!Status /\ change \in {"none", "open", "resolved"}
  /\ history \in [submitted : Nat, approved : Nat]
  /\ review \in [Requests -> Kyc!Ops \cup {"idle"}]
  /\ Kyc!KycTellsOneStory
  /\ kyc = "SUBMITTED" => history.approved < history.submitted

\* A step of one request keeps the story: what it decides on is read again
\* under the lock.
LEMMA KycStep ==
  ASSUME KycInv, NEW r \in Requests, NEW op \in Kyc!Ops,
         \/ Kyc!Start(r, op) \/ Kyc!Submit(r) \/ Kyc!Approve(r) \/ Kyc!Reject(r)
         \/ Kyc!RequestChanges(r) \/ Kyc!Refuse(r)
  PROVE  KycInv'
<1> USE DEF KycInv, Kyc!KycTellsOneStory, Kyc!Told, Kyc!Status, Kyc!Ops, Kyc!Done
<1>1. CASE Kyc!Start(r, op)
  BY <1>1 DEF Kyc!Start
<1>2. CASE Kyc!Submit(r)
  <2>1. history' = [submitted |-> history.submitted + 1, approved |-> history.approved]
    BY <1>2 DEF Kyc!Submit
  <2>. QED  BY <1>2, <2>1 DEF Kyc!Submit, Kyc!Locked, Kyc!Resolved
<1>3. CASE Kyc!Approve(r)
  <2>1. history' = [submitted |-> history.submitted, approved |-> history.approved + 1]
    BY <1>3 DEF Kyc!Approve
  <2>. QED  BY <1>3, <2>1 DEF Kyc!Approve, Kyc!MayApprove, Kyc!Resolved
<1>4. CASE Kyc!Reject(r)
  BY <1>4 DEF Kyc!Reject, Kyc!Resolved
<1>5. CASE Kyc!RequestChanges(r)
  BY <1>5 DEF Kyc!RequestChanges
<1>6. CASE Kyc!Refuse(r)
  BY <1>6 DEF Kyc!Refuse
<1>. QED  BY <1>1, <1>2, <1>3, <1>4, <1>5, <1>6

LEMMA KycAlways == Kyc!Spec => []KycInv
<1>1. Kyc!Init => KycInv
  BY DEF Kyc!Init, KycInv, Kyc!KycTellsOneStory, Kyc!Told, Kyc!Status
<1>2. KycInv /\ [Kyc!Next]_(Kyc!vars) => KycInv'
  <2>1. ASSUME KycInv, Kyc!Next PROVE KycInv'
    <3>1. "submit" \in Kyc!Ops
      BY DEF Kyc!Ops
    <3>. QED  BY <2>1, <3>1, KycStep DEF Kyc!Next
  <2>2. ASSUME KycInv, UNCHANGED Kyc!vars PROVE KycInv'
    BY <2>2 DEF KycInv, Kyc!vars, Kyc!KycTellsOneStory
  <2>. QED  BY <2>1, <2>2
<1>. QED  BY <1>1, <1>2, PTL DEF Kyc!Spec

\* However reviewers and the customer overlap, an approval answers a
\* submission of its own, the organization shows the KYC's status, and a
\* change request is open exactly while the customer has to act on it
\* (kyc-workflow.service.ts, lockCustomerKyc).
THEOREM KycStoryHolds == Kyc!Spec => []Kyc!KycTellsOneStory
<1>1. KycInv => Kyc!KycTellsOneStory
  BY DEF KycInv
<1>. QED  BY <1>1, KycAlways, PTL

-----------------------------------------------------------------------------
(* A ticket of the support: every time that was written is one of the past, *)
(* and a request's copy of the ticket is a ticket there once was.           *)

\* The times of a ticket belong to its status, and are not those of the future.
Timed(t) ==
  /\ t.status \in Support!Status /\ t.resolvedAt \in Nat /\ t.closedAt \in Nat
  /\ t.resolvedAt <= clock /\ t.closedAt <= clock
  /\ t.resolvedAt # 0 => t.status \in {"RESOLVED", "CLOSED"}
  /\ t.status = "RESOLVED" => t.resolvedAt # 0
  /\ t.closedAt # 0 => t.status = "CLOSED" /\ t.resolvedAt # 0
  /\ t.closedAt # 0 => t.resolvedAt <= t.closedAt

\* What a request is going to write goes with the status that it read.
Planned(c) ==
  \/ c.at = "idle"
  \/ /\ c.at = "replyMine" /\ c.read.status # "CLOSED"
     /\ c.to = Support!StatusAfterRequesterReply(c.read.status)
  \/ /\ c.at = "replyAdmin" /\ c.read.status # "CLOSED"
     /\ c.to = Support!StatusAfterAgentReply(c.read.status)
  \/ c.at = "updateAdmin" /\ c.to \in Support!Transitions[c.read.status] \cup {c.read.status}

TicketInv ==
  /\ clock \in Nat
  /\ Timed(ticket)
  /\ DOMAIN reply = Requests
  /\ \A r \in Requests : Planned(reply[r]) /\ Timed(reply[r].read)

\* The ticket that a commit writes is a ticket with times that agree.
LEMMA CommitTimed ==
  ASSUME TicketInv, NEW r \in Requests, Support!Commit(r)
  PROVE  Timed(ticket)' /\ clock' \in Nat /\ clock <= clock'
<1> DEFINE c == reply[r]
           now == IF c.at = "updateAdmin" /\ c.to \in {"RESOLVED", "CLOSED"} THEN clock + 1 ELSE clock
<1>1. /\ c.at # "idle" /\ ticket.status = c.read.status /\ clock' = now
      /\ ticket'.status = c.to
      /\ ticket'.resolvedAt = Support!ResolvedAt(c, now)
      /\ ticket'.closedAt = Support!ClosedAt(c, now)
  BY DEF Support!Commit, Support!Unmoved
<1>2. clock \in Nat /\ Timed(ticket) /\ Timed(c.read) /\ Planned(c)
  BY DEF TicketInv
<1>3. clock' \in Nat /\ clock <= clock'
  BY <1>1, <1>2
<1>4. CASE c.at = "replyMine"
  <2>1. c.to = Support!StatusAfterRequesterReply(c.read.status) /\ c.read.status # "CLOSED"
    BY <1>2, <1>4 DEF Planned
  <2>2. ticket'.closedAt = ticket.closedAt /\ clock' = clock
    BY <1>1, <1>4 DEF Support!ClosedAt
  <2>3. ticket'.resolvedAt = IF c.read.status = "RESOLVED" THEN 0 ELSE ticket.resolvedAt
    BY <1>1, <1>2, <1>4, <2>1 DEF Support!ResolvedAt, Support!Reopens,
       Support!StatusAfterRequesterReply, Timed, Support!Status
  <2>. QED
    BY <1>1, <1>2, <1>3, <2>1, <2>2, <2>3 DEF Timed, Support!StatusAfterRequesterReply, Support!Status
<1>5. CASE c.at = "replyAdmin"
  <2>1. c.to = Support!StatusAfterAgentReply(c.read.status) /\ c.read.status # "CLOSED"
    BY <1>2, <1>5 DEF Planned
  <2>2. ticket'.closedAt = ticket.closedAt /\ ticket'.resolvedAt = ticket.resolvedAt /\ clock' = clock
    BY <1>1, <1>5 DEF Support!ClosedAt, Support!ResolvedAt
  <2>. QED
    BY <1>1, <1>2, <1>3, <2>1, <2>2 DEF Timed, Support!StatusAfterAgentReply, Support!Status
<1>6. CASE c.at = "updateAdmin"
  <2>1. c.to \in Support!Transitions[c.read.status] \cup {c.read.status}
    BY <1>2, <1>6 DEF Planned
  <2>2. c.to \in Support!Status /\ (c.read.status = "CLOSED" => c.to \in {"IN_PROGRESS", "CLOSED"})
    BY <1>2, <2>1 DEF Support!Transitions, Support!Status, Timed
  <2>3. CASE Support!Reopens(c)
    BY <1>1, <1>2, <1>3, <1>6, <2>2, <2>3 DEF Timed, Support!ResolvedAt, Support!ClosedAt,
       Support!Reopens, Support!Status
  <2>4. CASE ~Support!Reopens(c)
    BY <1>1, <1>2, <1>3, <1>6, <2>2, <2>4 DEF Timed, Support!ResolvedAt, Support!ClosedAt,
       Support!Reopens, Support!Status
  <2>. QED  BY <2>3, <2>4
<1>. QED  BY <1>1, <1>2, <1>3, <1>4, <1>5, <1>6 DEF Planned

LEMMA TicketAlways == Support!Spec => []TicketInv
<1>1. Support!Init => TicketInv
  BY DEF Support!Init, TicketInv, Timed, Planned, Support!Idle, Support!Opened, Support!Status
<1>2. ASSUME TicketInv, NEW r \in Requests, NEW at, NEW to, NEW agent, Support!Read(r, at, to, agent),
             Planned([at |-> at, read |-> ticket, to |-> to, agent |-> agent])
      PROVE  TicketInv'
  BY <1>2 DEF TicketInv, Support!Read, Timed, Planned
<1>3. ASSUME TicketInv, Support!Next PROVE TicketInv'
  <2>1. PICK r \in Requests :
          \/ Support!ReplyMineRead(r)
          \/ \E agent \in Agents : Support!ReplyAdminRead(r, agent)
          \/ \E to \in Support!Status, agent \in Agents, named \in BOOLEAN :
               Support!UpdateAdminRead(r, to, agent, named)
          \/ Support!Commit(r) \/ Support!Stale(r)
    BY <1>3 DEF Support!Next
  <2>2. CASE Support!ReplyMineRead(r)
    BY <1>2, <1>3, <2>2 DEF Support!ReplyMineRead, Planned
  <2>3. ASSUME NEW agent \in Agents, Support!ReplyAdminRead(r, agent) PROVE TicketInv'
    BY <1>2, <1>3, <2>3 DEF Support!ReplyAdminRead, Planned
  <2>4. ASSUME NEW to, NEW agent, NEW named, Support!UpdateAdminRead(r, to, agent, named)
        PROVE  TicketInv'
    BY <1>2, <1>3, <2>4 DEF Support!UpdateAdminRead, Planned
  <2>5. CASE Support!Commit(r)
    <3>1. Timed(ticket)' /\ clock' \in Nat /\ clock <= clock'
      BY <1>3, <2>5, CommitTimed
    <3>2. reply' = [reply EXCEPT ![r] = Support!Idle]
      BY <2>5 DEF Support!Commit
    <3>3. ASSUME NEW q \in Requests PROVE Planned(reply'[q]) /\ Timed(reply[q].read)'
      BY <1>3, <3>1, <3>2 DEF TicketInv, Timed, Planned, Support!Idle, Support!Opened, Support!Status
    <3>. QED  BY <1>3, <3>1, <3>2, <3>3 DEF TicketInv, Planned
  <2>6. CASE Support!Stale(r)
    BY <1>3, <2>6 DEF TicketInv, Timed, Planned, Support!Stale, Support!Idle, Support!Opened,
       Support!Status
  <2>. QED  BY <2>1, <2>2, <2>3, <2>4, <2>5, <2>6
<1>4. ASSUME TicketInv, UNCHANGED Support!vars PROVE TicketInv'
  BY <1>4 DEF TicketInv, Timed, Planned, Support!vars
<1>. QED  BY <1>1, <1>3, <1>4, PTL DEF Support!Spec

\* However replies and moves race, and although they may write times they
\* read before the ticket was opened and closed again, the times of the ticket
\* belong to its status (support-ticket-workflow.ts and the services of both
\* sides).
THEOREM TicketTimesAgree == Support!Spec => []Support!TimesAgree
<1>1. TicketInv => Support!TimesAgree
  BY DEF TicketInv, Timed, Support!TimesAgree
<1>. QED  BY <1>1, TicketAlways, PTL

-----------------------------------------------------------------------------
(* The calls to the provider that verifies an identifier.  A request that   *)
(* is with the provider has the VERIFYING row, or one that was taken for    *)
(* abandoned.  Until it reads an answer without a timeout its row is no     *)
(* older than its posts, and a row that is found stale is older than those: *)
(* so a row is abandoned only behind a dead request or one that reads its   *)
(* answer.                                                                  *)

CheckRow == [status : Check!Status, id : Identifiers, age : Nat, left : BOOLEAN]
CheckCall ==
  [at : {"idle", "abandon", "create", "provider", "update", "apply"},
   proc : Processes \cup {NoProcess}, id : Check!Ids, row : Nat, posts : 0 .. 2,
   body : BOOLEAN, outcome : Check!Status]

\* What a request in progress knows of its row.
Asked(c) ==
  /\ c.row \in DOMAIN rows
  /\ rows[c.row].status = "VERIFYING" \/ rows[c.row].left
  /\ rows[c.row].left => c.body
  /\ c.body => adapter[c.proc] = "http"
  /\ ~c.body => rows[c.row].age <= c.posts
  /\ c.at = "update" => c.outcome # "VERIFYING"
Knowing(c) ==
  /\ c.at # "idle" => c.proc \in Processes
  /\ c.at \in {"abandon", "create"} => c.id \in Identifiers
  /\ c.at = "abandon" => c.row \in DOMAIN rows /\ rows[c.row].age >= 3
  /\ c.at \in {"provider", "update"} => Asked(c)

CheckInv ==
  /\ rows \in Seq(CheckRow)
  /\ verifier \in [Requests -> CheckCall]
  /\ adapter \in [Processes -> Adapters]
  /\ \A i, j \in Check!Verifying : i = j
  /\ \A r \in Requests : Knowing(verifier[r])
  /\ \A r, q \in Requests : Check!Asks(r) /\ Check!Asks(q) /\ verifier[r].row = verifier[q].row => r = q

\* One row of a table is replaced.
LEMMA Replaced ==
  ASSUME NEW S, NEW s \in Seq(S), NEW i \in DOMAIN s, NEW e \in S, NEW t,
         t = [s EXCEPT ![i] = e]
  PROVE  /\ t \in Seq(S) /\ DOMAIN t = DOMAIN s /\ t[i] = e
         /\ \A j \in DOMAIN s : j # i => t[j] = s[j]
<1>1. DOMAIN s = 1 .. Len(s) /\ Len(s) \in Nat
  BY LenProperties
<1>2. t \in Seq(S) /\ Len(t) = Len(s) /\ \A j \in 1 .. Len(s) : t[j] = IF j = i THEN e ELSE s[j]
  BY <1>1, ExceptSeq
<1>3. DOMAIN t = 1 .. Len(t)
  BY <1>2, LenProperties
<1>. QED  BY <1>1, <1>2, <1>3

LEMMA CheckRowTyped ==
  ASSUME CheckInv, NEW i \in DOMAIN rows
  PROVE  /\ rows \in Seq(CheckRow) /\ rows[i] \in CheckRow /\ i \in 1 .. Len(rows)
         /\ rows[i].status \in Check!Status /\ rows[i].id \in Identifiers
         /\ rows[i].age \in Nat /\ rows[i].left \in BOOLEAN
<1>1. rows \in Seq(CheckRow)
  BY DEF CheckInv
<1>2. i \in 1 .. Len(rows)
  BY <1>1, LenProperties
<1>3. rows[i] \in CheckRow
  BY <1>1, <1>2, ElementOfSeq
<1>. QED  BY <1>1, <1>2, <1>3 DEF CheckRow

LEMMA CheckCallTyped ==
  ASSUME CheckInv, NEW r \in Requests
  PROVE  /\ verifier[r] \in CheckCall /\ Knowing(verifier[r])
         /\ verifier[r].proc \in Processes \cup {NoProcess} /\ verifier[r].id \in Check!Ids
         /\ verifier[r].row \in Nat /\ verifier[r].posts \in 0 .. 2
         /\ verifier[r].body \in BOOLEAN /\ verifier[r].outcome \in Check!Status
  BY DEF CheckInv, CheckCall

\* A request begins.
LEMMA StartingTyped ==
  ASSUME NEW at \in {"idle", "create", "apply"}, NEW p \in Processes \cup {NoProcess},
         NEW id \in Check!Ids
  PROVE  /\ Check!Starting(at, p, id) \in CheckCall
         /\ Check!Starting(at, p, id).at = at
         /\ (at # "idle" => p \in Processes) /\ (at = "create" => id \in Identifiers)
              => Knowing(Check!Starting(at, p, id))
  BY DEF Check!Starting, Check!Request, CheckCall, Check!Status, Knowing

LEMMA IdleTyped ==
  /\ Check!Idle \in CheckCall /\ Check!Idle.at = "idle" /\ Knowing(Check!Idle)
  BY StartingTyped DEF Check!Idle, Check!Ids

\* No row changes, and one request knows something else, of no row that
\* another request asks for.
LEMMA CallKeeps ==
  ASSUME CheckInv, NEW r \in Requests, NEW c \in CheckCall, Knowing(c),
         UNCHANGED <<rows, adapter>>, verifier' = [verifier EXCEPT ![r] = c],
         c.at \in {"provider", "update"} => Check!Asks(r) /\ c.row = verifier[r].row
  PROVE  CheckInv'
<1>1. /\ verifier' \in [Requests -> CheckCall] /\ verifier'[r] = c
      /\ \A q \in Requests : q # r => verifier'[q] = verifier[q]
  BY DEF CheckInv
<1>2. \A q \in Requests : Knowing(verifier[q]) /\ Knowing(verifier'[q])
  BY <1>1 DEF CheckInv
<1>3. \A q \in Requests : Knowing(verifier[q])'
  BY <1>2 DEF Knowing, Asked
<1>4. \A q \in Requests : Check!Asks(q)' => Check!Asks(q) /\ verifier'[q].row = verifier[q].row
  BY <1>1 DEF Check!Asks
<1>5. \A q, w \in Requests :
        Check!Asks(q)' /\ Check!Asks(w)' /\ verifier'[q].row = verifier'[w].row => q = w
  BY <1>4 DEF CheckInv
<1>6. Check!Verifying' = Check!Verifying
  BY DEF Check!Verifying
<1>. QED  BY <1>1, <1>3, <1>5, <1>6 DEF CheckInv

\* A row keeps its age, and is not VERIFYING any more; a request begins or ends.
LEMMA RowKeeps ==
  ASSUME CheckInv, NEW r \in Requests, NEW c \in CheckCall, Knowing(c),
         c.at \in {"idle", "create", "apply"},
         NEW i \in DOMAIN rows, NEW e \in CheckRow, e.status # "VERIFYING", e.age = rows[i].age,
         rows' = [rows EXCEPT ![i] = e],
         verifier' = [verifier EXCEPT ![r] = c], adapter' = adapter,
         \A q \in Requests : q # r /\ Check!Asks(q) /\ verifier[q].row = i => e.left /\ verifier[q].body
  PROVE  CheckInv'
<1>1. e \in CheckRow /\ e.status # "VERIFYING" /\ e.age = rows[i].age
  OBVIOUS
<1>2. rows' = [rows EXCEPT ![i] = e] /\ rows \in Seq(CheckRow)
  BY DEF CheckInv
<1>3. /\ rows' \in Seq(CheckRow) /\ DOMAIN rows' = DOMAIN rows /\ rows'[i] = e
      /\ \A j \in DOMAIN rows : j # i => rows'[j] = rows[j]
  BY <1>1, <1>2, Replaced
<1>4. \A j \in DOMAIN rows : rows'[j].age = rows[j].age
  BY <1>1, <1>3
<1>5. Check!Verifying' \subseteq Check!Verifying
  BY <1>1, <1>3 DEF Check!Verifying
<1>6. /\ verifier' \in [Requests -> CheckCall] /\ verifier'[r] = c
      /\ \A q \in Requests : q # r => verifier'[q] = verifier[q]
  BY DEF CheckInv
<1>7. ASSUME NEW q \in Requests, q # r, Check!Asks(q) PROVE Asked(verifier[q])'
  <2>1. Asked(verifier[q])
    BY <1>7 DEF CheckInv, Knowing, Check!Asks
  <2>2. verifier'[q] = verifier[q]
    BY <1>6, <1>7
  <2>3. CASE verifier[q].row = i
    BY <1>1, <1>3, <1>7, <2>1, <2>2, <2>3 DEF Asked
  <2>4. CASE verifier[q].row # i
    BY <1>3, <2>1, <2>2, <2>4 DEF Asked
  <2>. QED  BY <2>3, <2>4
<1>8. \A q \in Requests : Knowing(verifier[q])'
  <2> SUFFICES ASSUME NEW q \in Requests PROVE Knowing(verifier[q])'
    OBVIOUS
  <2>1. CASE q = r
    BY <1>6, <2>1 DEF Knowing
  <2>2. CASE q # r
    BY <1>3, <1>4, <1>6, <1>7, <2>2 DEF CheckInv, Knowing, Check!Asks
  <2>. QED  BY <2>1, <2>2
<1>9. \A q \in Requests : Check!Asks(q)' => Check!Asks(q) /\ verifier'[q].row = verifier[q].row
  BY <1>6 DEF Check!Asks
<1>10. \A q, w \in Requests :
         Check!Asks(q)' /\ Check!Asks(w)' /\ verifier'[q].row = verifier'[w].row => q = w
  BY <1>9 DEF CheckInv
<1>. QED  BY <1>3, <1>5, <1>6, <1>8, <1>10 DEF CheckInv

\* A row that was found stale is older than the posts of any request: one that
\* still asks for it reads an answer without a timeout.
LEMMA AbandonKeeps ==
  ASSUME CheckInv, NEW r \in Requests, Check!Abandon(r)
  PROVE  CheckInv'
<1> DEFINE c == verifier[r]
           i == c.row
           d == Check!Starting("create", c.proc, c.id)
           e == Check!Entry("FAILED", rows[i].id, rows[i].age, TRUE)
<1>1. /\ c.at = "abandon" /\ c.proc \in Processes /\ c.id \in Identifiers
      /\ i \in DOMAIN rows /\ rows[i].age >= 3
  BY DEF Check!Abandon, CheckInv, Knowing
<1>2. /\ rows' = [rows EXCEPT ![i] = e]
      /\ verifier' = [verifier EXCEPT ![r] = d] /\ adapter' = adapter
  BY DEF Check!Abandon, Check!Set
<1>3. d \in CheckCall /\ d.at = "create" /\ Knowing(d)
  BY <1>1, StartingTyped DEF Check!Ids
<1>4. ASSUME NEW q \in Requests, Check!Asks(q), verifier[q].row = i PROVE verifier[q].body
  <2>1. Asked(verifier[q]) /\ verifier[q].posts \in 0 .. 2 /\ verifier[q].body \in BOOLEAN
    BY <1>4, CheckCallTyped DEF Knowing, Check!Asks
  <2>2. rows[i].age \in Nat
    BY <1>1, CheckRowTyped
  <2> HIDE DEF i
  <2>. QED  BY <1>1, <1>4, <2>1, <2>2 DEF Asked
<1>5. e \in CheckRow /\ e.status # "VERIFYING" /\ e.age = rows[i].age /\ e.left
  BY <1>1, CheckRowTyped DEF Check!Entry, CheckRow, Check!Status
<1> HIDE DEF c, i, d, e
<1>. QED  BY <1>1, <1>2, <1>3, <1>4, <1>5, RowKeeps

\* The row takes its outcome.
LEMMA UpdateKeeps ==
  ASSUME CheckInv, NEW r \in Requests, Check!Update(r)
  PROVE  CheckInv'
<1>1. /\ Check!Asks(r) /\ verifier[r].proc \in Processes /\ verifier[r].id \in Check!Ids
      /\ verifier[r].outcome \in Check!Status \ {"VERIFYING"} /\ verifier[r].row \in DOMAIN rows
  BY CheckCallTyped DEF Check!Update, Check!Asks, Knowing, Asked
<1>2. PICK i \in DOMAIN rows : i = verifier[r].row
  BY <1>1
<1>3. PICK e : e = Check!Entry(verifier[r].outcome, rows[i].id, rows[i].age, rows[i].left)
  OBVIOUS
<1>4. e \in CheckRow /\ e.status # "VERIFYING" /\ e.age = rows[i].age
  BY <1>1, <1>3, CheckRowTyped DEF Check!Entry, CheckRow
<1>5. rows' = [rows EXCEPT ![i] = e] /\ adapter' = adapter
  BY <1>2, <1>3 DEF Check!Update
<1>6. PICK d \in CheckCall : /\ d.at \in {"idle", "create", "apply"} /\ Knowing(d)
                             /\ verifier' = [verifier EXCEPT ![r] = d]
  <2>1. verifier' = [verifier EXCEPT ![r] =
          IF verifier[r].outcome = "FAILED" THEN Check!Idle
          ELSE Check!Starting("apply", verifier[r].proc, verifier[r].id)]
    BY DEF Check!Update, Check!Set
  <2>2. /\ Check!Starting("apply", verifier[r].proc, verifier[r].id) \in CheckCall
        /\ Check!Starting("apply", verifier[r].proc, verifier[r].id).at = "apply"
        /\ Knowing(Check!Starting("apply", verifier[r].proc, verifier[r].id))
    BY <1>1, StartingTyped
  <2>. QED  BY <2>1, <2>2, IdleTyped
<1>7. \A q \in Requests :
        q # r /\ Check!Asks(q) /\ verifier[q].row = i => e.left /\ verifier[q].body
  <2>1. \A q \in Requests : ~(q # r /\ Check!Asks(q) /\ verifier[q].row = i)
    BY <1>1, <1>2 DEF CheckInv
  <2>. QED  BY <2>1
<1>. QED  BY <1>4, <1>5, <1>6, <1>7, RowKeeps

\* The unique index lets a row be inserted when no other is VERIFYING.
LEMMA CreateKeeps ==
  ASSUME CheckInv, NEW r \in Requests, Check!Create(r)
  PROVE  CheckInv'
<1> DEFINE c == verifier[r]
           n == Len(rows) + 1
           e == Check!Entry("VERIFYING", c.id, 0, FALSE)
           d == Check!Request("provider", c.proc, c.id, n, 1, FALSE, "VERIFYING")
<1>1. /\ c.at = "create" /\ Check!Verifying = {} /\ c.proc \in Processes /\ c.id \in Identifiers
      /\ rows' = Append(rows, e) /\ verifier' = [verifier EXCEPT ![r] = d] /\ adapter' = adapter
  BY DEF Check!Create, Check!Set, CheckInv, Knowing
<1>2. e \in CheckRow /\ e.status = "VERIFYING" /\ e.age = 0 /\ e.left = FALSE
  BY <1>1 DEF Check!Entry, CheckRow, Check!Status
<1>3. rows \in Seq(CheckRow) /\ DOMAIN rows = 1 .. Len(rows) /\ Len(rows) \in Nat
  BY LenProperties DEF CheckInv
<1> HIDE DEF e
<1>4. /\ rows' \in Seq(CheckRow) /\ DOMAIN rows' = DOMAIN rows \cup {n} /\ n \in Nat
      /\ n \notin DOMAIN rows /\ rows'[n] = e /\ \A i \in DOMAIN rows : rows'[i] = rows[i]
  BY <1>1, <1>2, <1>3
<1> HIDE DEF n
<1>5. Check!Verifying' = {n}
  BY <1>1, <1>2, <1>4 DEF Check!Verifying
<1>6. /\ d \in CheckCall /\ d.at = "provider" /\ d.proc = c.proc /\ d.row = n
      /\ d.posts = 1 /\ d.body = FALSE
  BY <1>1, <1>4 DEF Check!Request, CheckCall, Check!Ids, Check!Status
<1> HIDE DEF d
<1>7. /\ verifier' \in [Requests -> CheckCall] /\ verifier'[r] = d
      /\ \A q \in Requests : q # r => verifier'[q] = verifier[q]
  BY <1>1, <1>6 DEF CheckInv
<1>8. \A q \in Requests : Knowing(verifier[q])'
  <2> SUFFICES ASSUME NEW q \in Requests PROVE Knowing(verifier[q])'
    OBVIOUS
  <2>1. CASE q = r
    BY <1>1, <1>2, <1>4, <1>6, <1>7, <2>1 DEF Knowing, Asked
  <2>2. CASE q # r
    <3>1. Knowing(verifier[q]) /\ verifier'[q] = verifier[q]
      BY <1>7, <2>2 DEF CheckInv
    <3>. QED  BY <1>1, <1>4, <3>1 DEF Knowing, Asked
  <2>. QED  BY <2>1, <2>2
<1>9. \A q \in Requests : q # r /\ Check!Asks(q)' =>
        /\ Check!Asks(q) /\ verifier'[q].row = verifier[q].row /\ verifier[q].row \in DOMAIN rows
  BY <1>7 DEF CheckInv, Check!Asks, Knowing, Asked
<1>10. verifier'[r].row = n
  BY <1>6, <1>7
<1>11. \A q, w \in Requests :
         Check!Asks(q)' /\ Check!Asks(w)' /\ verifier'[q].row = verifier'[w].row => q = w
  BY <1>4, <1>9, <1>10 DEF CheckInv
<1>. QED  BY <1>1, <1>4, <1>5, <1>7, <1>8, <1>11 DEF CheckInv

\* What a request asks changes: no post is taken back, and nothing but the
\* generic adapter comes to read without a timeout.
LEMMA AskingKeeps ==
  ASSUME CheckInv, NEW r \in Requests, Check!Asks(r),
         NEW at \in {"provider", "update"}, NEW posts \in 0 .. 2, NEW body \in BOOLEAN,
         NEW outcome \in Check!Status,
         verifier[r].posts <= posts, verifier[r].body => body,
         body => verifier[r].body \/ adapter[verifier[r].proc] = "http",
         at = "update" => outcome # "VERIFYING", UNCHANGED <<rows, adapter>>,
         verifier' = [verifier EXCEPT ![r] = Check!Request(at, verifier[r].proc, verifier[r].id,
                                                           verifier[r].row, posts, body, outcome)]
  PROVE  CheckInv'
<1>1. /\ Asked(verifier[r]) /\ verifier[r].proc \in Processes
      /\ verifier[r].id \in Check!Ids /\ verifier[r].row \in Nat
  BY CheckCallTyped DEF Check!Asks, Knowing
<1>2. PICK d : d = Check!Request(at, verifier[r].proc, verifier[r].id, verifier[r].row, posts, body, outcome)
  OBVIOUS
<1>3. /\ d \in CheckCall /\ d.at = at /\ d.proc = verifier[r].proc /\ d.row = verifier[r].row
      /\ d.posts = posts /\ d.body = body /\ d.outcome = outcome
  BY <1>1, <1>2 DEF Check!Request, CheckCall
<1>4. /\ verifier[r].row \in DOMAIN rows /\ rows[verifier[r].row].age \in Nat
      /\ verifier[r].posts \in 0 .. 2 /\ verifier[r].body \in BOOLEAN
  BY <1>1, CheckRowTyped, CheckCallTyped DEF Asked
<1>5. rows[verifier[r].row].age <= verifier[r].posts => rows[verifier[r].row].age <= posts
  BY <1>4
<1>6. Asked(d)
  BY <1>1, <1>3, <1>5 DEF Asked
<1>7. Knowing(d)
  BY <1>1, <1>3, <1>6 DEF Knowing
<1>. QED  BY <1>2, <1>3, <1>7, CallKeeps

LEMMA PostKeeps ==
  ASSUME CheckInv, NEW r \in Requests,
         Check!Retry(r) \/ Check!Headers(r)
           \/ \E status \in Check!Status \ {"VERIFYING"} : Check!Outcome(r, status)
  PROVE  CheckInv'
<1>1. Check!Asks(r)
  BY DEF Check!Retry, Check!Headers, Check!Outcome, Check!Asks
<1>2. /\ verifier[r].posts \in 0 .. 2 /\ verifier[r].body \in BOOLEAN /\ "VERIFYING" \in Check!Status
      /\ verifier[r].body => adapter[verifier[r].proc] = "http"
  BY <1>1, CheckCallTyped DEF Check!Status, Check!Asks, Knowing, Asked
<1>3. CASE Check!Retry(r)
  <2>1. /\ UNCHANGED <<rows, adapter>> /\ ~verifier[r].body
        /\ verifier' = [verifier EXCEPT ![r] = Check!Request("provider", verifier[r].proc,
               verifier[r].id, verifier[r].row, 2, FALSE, "VERIFYING")]
    BY <1>2, <1>3 DEF Check!Retry, Check!Asking, Check!Set
  <2>2. verifier[r].posts <= 2 /\ 2 \in 0 .. 2
    BY <1>2
  <2>. QED  BY <1>1, <1>2, <2>1, <2>2, AskingKeeps
<1>4. CASE Check!Headers(r)
  <2>1. /\ UNCHANGED <<rows, adapter>> /\ adapter[verifier[r].proc] = "http"
        /\ verifier' = [verifier EXCEPT ![r] = Check!Request("provider", verifier[r].proc,
               verifier[r].id, verifier[r].row, verifier[r].posts, TRUE, "VERIFYING")]
    BY <1>4 DEF Check!Headers, Check!Asking, Check!Set
  <2>2. verifier[r].posts <= verifier[r].posts
    BY <1>2
  <2>. QED  BY <1>1, <1>2, <2>1, <2>2, AskingKeeps
<1>5. ASSUME NEW status \in Check!Status \ {"VERIFYING"}, Check!Outcome(r, status)
      PROVE  CheckInv'
  <2>1. /\ UNCHANGED <<rows, adapter>>
        /\ verifier' = [verifier EXCEPT ![r] = Check!Request("update", verifier[r].proc,
               verifier[r].id, verifier[r].row, verifier[r].posts, verifier[r].body, status)]
    BY <1>5 DEF Check!Outcome, Check!Set
  <2>2. verifier[r].posts <= verifier[r].posts
    BY <1>2
  <2>. QED  BY <1>1, <1>2, <2>1, <2>2, AskingKeeps
<1>. QED  BY <1>3, <1>4, <1>5

\* A process takes its requests with it, and leaves their rows.
LEMMA CrashKeeps ==
  ASSUME CheckInv, NEW p \in Processes, Check!Crash(p)
  PROVE  CheckInv'
<1>1. rows' = rows /\ Check!Verifying' = Check!Verifying
  BY DEF Check!Crash, Check!Verifying
<1>2. PICK a \in Adapters : adapter' = [adapter EXCEPT ![p] = a]
  BY DEF Check!Crash
<1>3. /\ verifier' = [r \in Requests |-> IF verifier[r].proc = p THEN Check!Idle ELSE verifier[r]]
      /\ verifier' \in [Requests -> CheckCall] /\ adapter' \in [Processes -> Adapters]
  BY <1>2, IdleTyped DEF Check!Crash, CheckInv
<1>4. ASSUME NEW r \in Requests
      PROVE  /\ Knowing(verifier[r])'
             /\ Check!Asks(r)' => Check!Asks(r) /\ verifier'[r] = verifier[r]
  <2>1. CASE verifier[r].proc = p
    <3>1. verifier'[r] = Check!Idle
      BY <1>3, <2>1
    <3>. QED  BY <3>1, IdleTyped DEF Check!Asks, Knowing
  <2>2. CASE verifier[r].proc # p
    <3>1. verifier'[r] = verifier[r] /\ Knowing(verifier[r])
      BY <1>3, <2>2 DEF CheckInv
    <3>2. verifier[r].proc \in Processes => adapter'[verifier[r].proc] = adapter[verifier[r].proc]
      BY <1>2, <2>2 DEF CheckInv
    <3>. QED  BY <1>1, <3>1, <3>2 DEF Check!Asks, Knowing, Asked
  <2>. QED  BY <2>1, <2>2
<1>5. \A q, w \in Requests :
        Check!Asks(q)' /\ Check!Asks(w)' /\ verifier'[q].row = verifier'[w].row => q = w
  BY <1>4 DEF CheckInv
<1>. QED  BY <1>1, <1>3, <1>4, <1>5 DEF CheckInv

\* A row ages no faster than the timeouts of its request let it.
LEMMA AgeKeeps ==
  ASSUME CheckInv, NEW i \in DOMAIN rows, Check!Age(i)
  PROVE  CheckInv'
<1> DEFINE e == Check!Entry(rows[i].status, rows[i].id, rows[i].age + 1, rows[i].left)
<1>1. /\ rows' = [rows EXCEPT ![i] = e] /\ UNCHANGED <<verifier, adapter>>
      /\ \A r \in Requests :
           Check!Asks(r) /\ verifier[r].row = i /\ ~verifier[r].body => rows[i].age < verifier[r].posts
  BY DEF Check!Age
<1>2. /\ e \in CheckRow /\ e.status = rows[i].status /\ e.left = rows[i].left
      /\ e.age = rows[i].age + 1 /\ rows[i].age \in Nat /\ rows \in Seq(CheckRow)
  <2>1. /\ rows[i].status \in Check!Status /\ rows[i].id \in Identifiers /\ rows[i].age + 1 \in Nat
        /\ rows[i].left \in BOOLEAN /\ rows[i].age \in Nat /\ rows \in Seq(CheckRow)
    BY CheckRowTyped
  <2>. QED  BY <2>1 DEF Check!Entry, CheckRow
<1> HIDE DEF e
<1>3. /\ rows' \in Seq(CheckRow) /\ DOMAIN rows' = DOMAIN rows /\ rows'[i] = e
      /\ \A j \in DOMAIN rows : j # i => rows'[j] = rows[j]
  BY <1>1, <1>2, Replaced
<1>4. /\ \A j \in DOMAIN rows : rows'[j].status = rows[j].status /\ rows'[j].left = rows[j].left
      /\ \A j \in DOMAIN rows : j # i => rows'[j].age = rows[j].age
      /\ rows'[i].age = rows[i].age + 1
  BY <1>2, <1>3
<1>5. Check!Verifying' = Check!Verifying
  BY <1>3, <1>4 DEF Check!Verifying
<1>6. \A r \in Requests : Check!Asks(r)' <=> Check!Asks(r)
  BY <1>1 DEF Check!Asks
<1>7. ASSUME NEW r \in Requests PROVE Knowing(verifier[r])'
  <2>1. Knowing(verifier[r]) /\ verifier[r].posts \in 0 .. 2 /\ verifier'[r] = verifier[r]
    BY <1>1, CheckCallTyped
  <2>2. \A j \in DOMAIN rows : rows[j].age \in Nat
    BY CheckRowTyped
  <2>3. CASE Check!Asks(r)
    <3>1. Asked(verifier[r]) /\ verifier[r].row \in DOMAIN rows
      BY <2>1, <2>3 DEF Check!Asks, Knowing, Asked
    <3>2. ~verifier[r].body => rows'[verifier[r].row].age <= verifier[r].posts
      BY <1>1, <1>2, <1>4, <2>1, <2>3, <3>1 DEF Asked
    <3>3. Asked(verifier[r])'
      BY <1>1, <1>3, <1>4, <3>1, <3>2 DEF Asked
    <3>. QED  BY <1>1, <2>1, <2>3, <3>3 DEF Knowing, Check!Asks
  <2>4. CASE verifier[r].at = "abandon"
    <3>1. verifier[r].row \in DOMAIN rows /\ rows[verifier[r].row].age >= 3
      BY <2>1, <2>4 DEF Knowing
    <3>2. rows'[verifier[r].row].age >= 3
      BY <1>2, <1>4, <2>2, <3>1
    <3>. QED  BY <1>1, <1>3, <2>1, <2>4, <3>1, <3>2 DEF Knowing
  <2>5. CASE ~Check!Asks(r) /\ verifier[r].at # "abandon"
    BY <2>1, <2>5 DEF Knowing, Check!Asks
  <2>. QED  BY <2>3, <2>4, <2>5
<1>. QED  BY <1>1, <1>3, <1>5, <1>6, <1>7 DEF CheckInv

LEMMA CheckStep ==
  ASSUME CheckInv, [Check!Next]_(Check!vars)
  PROVE  CheckInv'
<1>1. ASSUME NEW r \in Requests, NEW p \in Processes, NEW id \in Identifiers,
             Check!Verify(r, p, id) \/ Check!Reuse(r, p, id)
      PROVE  CheckInv'
  <2>1. PICK at \in {"create", "apply"} :
          UNCHANGED <<rows, adapter>> /\ verifier' = [verifier EXCEPT ![r] = Check!Starting(at, p, id)]
    BY <1>1 DEF Check!Verify, Check!Reuse, Check!Set
  <2>2. PICK c : c = Check!Starting(at, p, id)
    OBVIOUS
  <2>3. c \in CheckCall /\ Knowing(c) /\ c.at = at
    BY <2>2, StartingTyped DEF Check!Ids
  <2>. QED  BY <2>1, <2>2, <2>3, CallKeeps
<1>2. ASSUME NEW r \in Requests, NEW p \in Processes, NEW id \in Identifiers,
             Check!FindStale(r, p, id)
      PROVE  CheckInv'
  <2> DEFINE c == Check!Request("abandon", p, id, Len(rows), 0, FALSE, "VERIFYING")
  <2>1. /\ UNCHANGED <<rows, adapter>> /\ verifier' = [verifier EXCEPT ![r] = c]
        /\ rows # <<>> /\ rows[Len(rows)].age >= 3
    BY <1>2 DEF Check!FindStale, Check!Set, Check!Stale, Check!Latest, Check!Abandoned
  <2>2. Len(rows) \in DOMAIN rows /\ Len(rows) \in Nat
    BY <2>1 DEF CheckInv
  <2>3. c \in CheckCall /\ Knowing(c) /\ c.at = "abandon"
    BY <2>1, <2>2 DEF Check!Request, CheckCall, Check!Ids, Check!Status, Knowing
  <2> HIDE DEF c
  <2>. QED  BY <2>1, <2>3, CallKeeps
<1>3. ASSUME NEW r \in Requests, Check!CreateFail(r) \/ Check!Apply(r)
      PROVE  CheckInv'
  <2>1. UNCHANGED <<rows, adapter>> /\ verifier' = [verifier EXCEPT ![r] = Check!Idle]
    BY <1>3 DEF Check!CreateFail, Check!Apply, Check!Set
  <2>. QED  BY <2>1, IdleTyped, CallKeeps
<1>4. CASE UNCHANGED Check!vars
  BY <1>4 DEF Check!vars, CheckInv, Check!Verifying, Check!Asks, Knowing, Asked
<1>. QED
  BY <1>1, <1>2, <1>3, <1>4, AbandonKeeps, CreateKeeps, PostKeeps, UpdateKeeps, CrashKeeps, AgeKeeps
  DEF Check!Next

LEMMA CheckAlways == Check!Spec => []CheckInv
<1>1. Check!Init => CheckInv
  <2> SUFFICES ASSUME Check!Init PROVE CheckInv
    OBVIOUS
  <2>1. /\ rows = <<>> /\ verifier = [r \in Requests |-> Check!Idle]
        /\ adapter \in [Processes -> Adapters]
    BY DEF Check!Init
  <2>2. verifier \in [Requests -> CheckCall]
        /\ \A r \in Requests : Knowing(verifier[r]) /\ ~Check!Asks(r)
    BY <2>1, IdleTyped DEF Check!Asks
  <2>3. Check!Verifying = {}
    BY <2>1 DEF Check!Verifying
  <2>. QED  BY <2>1, <2>2, <2>3 DEF CheckInv
<1>. QED  BY <1>1, CheckStep, PTL DEF Check!Spec

\* A request whose row was not taken for abandoned has the VERIFYING row.
LEMMA UnlessLeft ==
  ASSUME CheckInv
  PROVE  /\ \A r \in Requests : Check!Asks(r) =>
              /\ rows[verifier[r].row].left => verifier[r].body
              /\ verifier[r].body => verifier[r].proc \in Processes
                                       /\ adapter[verifier[r].proc] = "http"
         /\ \A r, q \in Requests :
              (/\ Check!Asks(r) /\ ~rows[verifier[r].row].left
               /\ Check!Asks(q) /\ ~rows[verifier[q].row].left) => r = q
<1>1. \A r \in Requests : Check!Asks(r) => Asked(verifier[r]) /\ verifier[r].proc \in Processes
  BY DEF CheckInv, Knowing, Check!Asks
<1>2. \A r \in Requests :
        Check!Asks(r) /\ ~rows[verifier[r].row].left => verifier[r].row \in Check!Verifying
  BY <1>1 DEF Asked, Check!Verifying
<1>3. \A r, q \in Requests :
        (/\ Check!Asks(r) /\ ~rows[verifier[r].row].left
         /\ Check!Asks(q) /\ ~rows[verifier[q].row].left) => r = q
  <2> SUFFICES ASSUME NEW r \in Requests, NEW q \in Requests,
                      Check!Asks(r), ~rows[verifier[r].row].left,
                      Check!Asks(q), ~rows[verifier[q].row].left
               PROVE  r = q
    OBVIOUS
  <2>1. verifier[r].row \in Check!Verifying /\ verifier[q].row \in Check!Verifying
    <3>1. Asked(verifier[r]) /\ Asked(verifier[q])
      BY <1>1
    <3>. QED  BY <3>1 DEF Asked, Check!Verifying
  <2>2. verifier[r].row = verifier[q].row
    <3>1. \A i, j \in Check!Verifying : i = j
      BY DEF CheckInv
    <3>. QED  BY <2>1, <3>1
  <2>. QED  BY <2>2 DEF CheckInv
<1>4. \A r \in Requests : Check!Asks(r) =>
        /\ rows[verifier[r].row].left => verifier[r].body
        /\ verifier[r].body => verifier[r].proc \in Processes /\ adapter[verifier[r].proc] = "http"
  BY <1>1 DEF Asked
<1>. QED  BY <1>3, <1>4

\* Through crashes, retries and slow providers, and for any number of server
\* processes, requests and rows, an owner has two calls to the provider at a
\* time only when the row of one was taken for abandoned, and a row is taken for
\* abandoned while its request is still there only when the request reads, or
\* has read, an answer through the generic adapter, which sets no timeout for
\* that (kyc-verification.provider.ts, kyc-verification.service.ts, the unique
\* index of the VERIFYING rows).
THEOREM TwoCallsOnlyBehindBody == Check!Spec => []Check!OneProviderCall
<1>1. CheckInv => Check!OneProviderCall
  BY UnlessLeft DEF Check!OneProviderCall
<1>. QED  BY <1>1, CheckAlways, PTL

\* Where no process asks through the generic adapter, an owner never has two
\* calls to the provider at a time, and no row is taken for abandoned while its
\* request is still there (surepass-verification.provider.ts).
THEOREM SurepassIsAskedOnce ==
  ASSUME "http" \notin Adapters
  PROVE  Check!Spec => []Check!SurepassAsksOnce
<1>1. CheckInv => Check!SurepassAsksOnce
  <2> SUFFICES ASSUME CheckInv PROVE Check!SurepassAsksOnce
    OBVIOUS
  <2>1. \A p \in Processes : adapter[p] # "http"
    BY DEF CheckInv
  <2>2. \A r \in Requests : Check!Asks(r) => ~rows[verifier[r].row].left
    BY <2>1, UnlessLeft
  <2>. QED  BY <2>2, UnlessLeft DEF Check!SurepassAsksOnce
<1>. QED  BY <1>1, CheckAlways, PTL

-----------------------------------------------------------------------------
(* Requests for a grade.  A handler that has read the row of a request     *)
(* writes it only when the status is still the one it read, and a request  *)
(* that has a grade keeps one.                                             *)

Event == [from : Grade!Status, to : Grade!Status]
StatusAfter(s, i) == IF i = 0 THEN "NONE" ELSE s[i].to
Follows(from, to) == to \in Grade!Transitions[from] \cup ({from} \cap Grade!Resolvable)
Chained(s) ==
  \A i \in 1 .. Len(s) : /\ s[i].from = StatusAfter(s, i - 1)
                         /\ i > 1 => Follows(StatusAfter(s, i - 1), s[i].to)
Graded(w) == w.status \in {"GRADE_IDENTIFIED", "CONVERTED_TO_PR"} => w.grade # NoGrade

\* What a request in progress knows of the row it is going to write.
Knows(c) ==
  c.at \in {"moving", "making", "resolving"} =>
    /\ c.g \in Rows /\ row[c.g].status # "NONE"
    /\ c.to # "NONE" /\ Follows(c.read.status, c.to)
    /\ c.at = "moving" => /\ c.to # "GRADE_IDENTIFIED"
                          /\ c.to = "CONVERTED_TO_PR" => row[c.g].grade # NoGrade
    /\ c.at = "making" => c.to # "CONVERTED_TO_PR"
    /\ c.at = "resolving" => c.grade # NoGrade

GradeCall ==
  [at : {"idle", "creating", "moving", "attaching", "making", "resolving"},
   g : Rows \cup {NoRow}, read : Grade!GradeRow, to : Grade!Status,
   grade : Catalogue \cup NewGrades \cup {NoGrade}, admin : Admins \cup {NoAdmin}]

GradeInv ==
  /\ row \in [Rows -> Grade!GradeRow]
  /\ story \in [Rows -> Seq(Event)]
  /\ call \in [Requests -> GradeCall]
  /\ \A g \in Rows : Chained(story[g]) /\ row[g].status = StatusAfter(story[g], Len(story[g])) /\ Graded(row[g])
  /\ \A r \in Requests : Knows(call[r])

\* No status leads to that of a request that was never made, and nothing
\* follows from it.
LEMMA MovesOnly ==
  ASSUME NEW from \in Grade!Status, NEW to, Follows(from, to)
  PROVE  from # "NONE" /\ to # "NONE" /\ to \in Grade!Status
  BY DEF Follows, Grade!Transitions, Grade!Resolvable, Grade!Status, Grade!Open

\* An event that starts where the story ends lengthens it.
LEMMA Continued ==
  ASSUME NEW s \in Seq(Event), Chained(s), NEW e \in Event,
         e.from = StatusAfter(s, Len(s)), Follows(e.from, e.to)
  PROVE  /\ Append(s, e) \in Seq(Event) /\ Chained(Append(s, e))
         /\ StatusAfter(Append(s, e), Len(Append(s, e))) = e.to
<1> DEFINE t == Append(s, e)
<1>1. /\ t \in Seq(Event) /\ Len(t) = Len(s) + 1 /\ Len(s) \in Nat
      /\ \A i \in 1 .. Len(s) : t[i] = s[i]
      /\ t[Len(s) + 1] = e
  BY AppendProperties, LenProperties
<1> HIDE DEF t
<1>2. \A i \in 0 .. Len(s) : StatusAfter(t, i) = StatusAfter(s, i)
  BY <1>1 DEF StatusAfter
<1>3. ASSUME NEW i \in 1 .. Len(t)
      PROVE  t[i].from = StatusAfter(t, i - 1) /\ (i > 1 => Follows(StatusAfter(t, i - 1), t[i].to))
  <2>1. CASE i \in 1 .. Len(s)
    <3>1. i - 1 \in 0 .. Len(s) /\ t[i] = s[i]
      BY <1>1, <2>1
    <3>2. StatusAfter(t, i - 1) = StatusAfter(s, i - 1)
      BY <1>2, <3>1
    <3>. QED  BY <2>1, <3>1, <3>2 DEF Chained
  <2>2. CASE i = Len(s) + 1
    <3>1. t[i] = e /\ StatusAfter(t, i - 1) = StatusAfter(s, Len(s))
      BY <1>1, <1>2, <2>2
    <3>. QED  BY <3>1
  <2>. QED  BY <1>1, <2>1, <2>2
<1>4. StatusAfter(t, Len(t)) = e.to
  BY <1>1 DEF StatusAfter
<1>5. Chained(t)
  BY <1>3 DEF Chained
<1>. QED  BY <1>1, <1>4, <1>5 DEF t

LEMMA GradeIdle ==
  /\ Grade!Idle \in GradeCall /\ Grade!Idle.at = "idle"
  /\ Grade!NoRequest \in Grade!GradeRow /\ Grade!NoRequest.status = "NONE"
<1>1. Grade!NoRequest \in Grade!GradeRow /\ Grade!NoRequest.status = "NONE"
  BY DEF Grade!NoRequest, Grade!Entry, Grade!GradeRow, Grade!Status, Grade!Sides
<1>2. "NONE" \in Grade!Status
  BY DEF Grade!Status
<1>. QED  BY <1>1, <1>2 DEF Grade!Idle, Grade!Call, GradeCall

\* A request starts or ends and no row changes.
LEMMA CallsKeep ==
  ASSUME GradeInv, NEW r \in Requests, NEW c \in GradeCall, Knows(c),
         UNCHANGED <<row, story>>, call' = [call EXCEPT ![r] = c]
  PROVE  GradeInv'
<1>1. Knows(c)'
  BY DEF Knows
<1>2. \A q \in Requests : Knows(call[q])' \/ call'[q] = c
  BY DEF GradeInv, Knows
<1>3. \A q \in Requests : Knows(call[q])'
  BY <1>1, <1>2 DEF GradeInv
<1>. QED  BY <1>3 DEF GradeInv

\* What a handler reads, and what it is going to write.
LEMMA ReadKeeps ==
  ASSUME GradeInv, NEW r \in Requests, NEW g \in Rows,
         NEW at \in {"moving", "making", "resolving"}, NEW to,
         NEW grade \in Catalogue \cup NewGrades \cup {NoGrade}, NEW admin \in Admins \cup {NoAdmin},
         Grade!Read(r, at, g, to, grade, admin), Follows(row[g].status, to),
         at = "moving" => to # "GRADE_IDENTIFIED",
         to = "CONVERTED_TO_PR" => row[g].grade # NoGrade /\ at = "moving",
         at = "resolving" => grade # NoGrade
  PROVE  GradeInv'
<1> DEFINE c == Grade!Call(at, g, row[g], to, grade, admin)
<1>1. row[g] \in Grade!GradeRow /\ row[g].status \in Grade!Status
  BY DEF GradeInv, Grade!GradeRow
<1>2. row[g].status # "NONE" /\ to # "NONE" /\ to \in Grade!Status
  BY <1>1, MovesOnly
<1>3. c \in GradeCall
  BY <1>1, <1>2 DEF GradeCall, Grade!Call
<1>4. Knows(c)
  BY <1>2 DEF Knows, Grade!Call
<1>5. UNCHANGED <<row, story>> /\ call' = [call EXCEPT ![r] = c]
  BY DEF Grade!Read
<1> HIDE DEF c
<1>. QED  BY <1>3, <1>4, <1>5, CallsKeep

\* The first event of a request, in a row that had none.
LEMMA NewRowKeeps ==
  ASSUME GradeInv, NEW r \in Requests, Grade!CreateCommit(r)
  PROVE  GradeInv'
<1> DEFINE d == call[r].read
           w == Grade!Entry("SUBMITTED", d.side, d.key, NoGrade, NoAdmin)
           e == [from |-> "NONE", to |-> "SUBMITTED"]
<1>1. PICK g \in Rows : /\ row[g].status = "NONE"
                        /\ row' = [row EXCEPT ![g] = w]
                        /\ story' = [story EXCEPT ![g] = <<e>>]
                        /\ call' = [call EXCEPT ![r] = Grade!Idle]
  BY DEF Grade!CreateCommit, Grade!Existing, Grade!Finish
<1>2. d \in Grade!GradeRow
  BY DEF GradeInv, GradeCall
<1>3. w \in Grade!GradeRow /\ w.status = "SUBMITTED"
  BY <1>2 DEF Grade!GradeRow, Grade!Entry, Grade!Status, Grade!Open
<1>4. e \in Event /\ e.from = "NONE" /\ e.to = "SUBMITTED"
  BY DEF Event, Grade!Status, Grade!Open
<1> HIDE DEF w, e, d
<1>5. /\ <<e>> \in Seq(Event) /\ Len(<<e>>) = 1 /\ <<e>>[1] = e
  BY <1>4
<1>6. Chained(<<e>>) /\ StatusAfter(<<e>>, Len(<<e>>)) = "SUBMITTED"
  BY <1>4, <1>5 DEF Chained, StatusAfter
<1>7. row' \in [Rows -> Grade!GradeRow] /\ story' \in [Rows -> Seq(Event)]
  BY <1>1, <1>3, <1>5 DEF GradeInv
<1>8. \A h \in Rows : /\ Chained(story'[h]) /\ row'[h].status = StatusAfter(story'[h], Len(story'[h]))
                      /\ Graded(row'[h])
  BY <1>1, <1>3, <1>6 DEF GradeInv, Graded
<1>9. call' \in [Requests -> GradeCall] /\ \A q \in Requests : call'[q] = call[q] \/ call'[q] = Grade!Idle
  BY <1>1, GradeIdle DEF GradeInv
<1>10. \A h \in Rows : row[h].status # "NONE" => row'[h] = row[h]
  BY <1>1 DEF GradeInv
<1>11. \A q \in Requests : Knows(call[q])'
  BY <1>9, <1>10, GradeIdle DEF GradeInv, Knows
<1>. QED  BY <1>7, <1>8, <1>9, <1>11 DEF GradeInv

\* The transaction that moves a request: it finds the status that was read.
LEMMA CommitKeeps ==
  ASSUME GradeInv, NEW r \in Requests, Grade!Commit(r)
  PROVE  GradeInv'
<1> DEFINE c == call[r]
           g == c.g
           grade == IF c.at = "resolving" THEN c.grade ELSE row[g].grade
           admin == IF c.admin # NoAdmin THEN Grade!Assignee(c) ELSE row[g].assigned
           w == Grade!Entry(c.to, row[g].side, row[g].key, grade, admin)
           e == [from |-> c.read.status, to |-> c.to]
<1>1. /\ c.at \in {"moving", "resolving"} /\ row[g].status = c.read.status
      /\ row' = [row EXCEPT ![g] = w]
      /\ story' = [story EXCEPT ![g] = Append(story[g], e)]
      /\ call' = [call EXCEPT ![r] = Grade!Idle]
  BY DEF Grade!Commit, Grade!Unmoved, Grade!Finish
<1>2. /\ c \in GradeCall /\ g \in Rows /\ row[g] \in Grade!GradeRow /\ row[g].status # "NONE"
      /\ c.to # "NONE" /\ Follows(c.read.status, c.to)
      /\ c.at = "moving" => c.to # "GRADE_IDENTIFIED"
      /\ c.at = "moving" /\ c.to = "CONVERTED_TO_PR" => row[g].grade # NoGrade
      /\ c.at = "resolving" => c.grade # NoGrade
  BY <1>1 DEF GradeInv, Knows
<1>3. grade # NoGrade \/ (c.to # "GRADE_IDENTIFIED" /\ c.to # "CONVERTED_TO_PR")
  BY <1>1, <1>2
<1>4. /\ grade \in Catalogue \cup NewGrades \cup {NoGrade} /\ admin \in Admins \cup {NoAdmin}
      /\ c.to \in Grade!Status /\ c.read.status \in Grade!Status
  BY <1>2 DEF GradeCall, Grade!GradeRow, Grade!Assignee
<1>5. row[g].grade # NoGrade => grade # NoGrade
  BY <1>1, <1>2
<1>6. w \in Grade!GradeRow /\ w.status = c.to /\ w.grade = grade
  <2>1. row[g].side \in Grade!Sides /\ row[g].key \in Keys \cup {NoKey}
    BY <1>2 DEF Grade!GradeRow
  <2> HIDE DEF c, g, grade, admin
  <2>. QED  BY <1>4, <2>1 DEF Grade!GradeRow, Grade!Entry
<1>7. e \in Event /\ e.from = row[g].status /\ e.to = c.to
  BY <1>1, <1>4 DEF Event
<1> DEFINE s == story[g]
           t == Append(s, e)
<1>8. t \in Seq(Event) /\ Chained(t) /\ StatusAfter(t, Len(t)) = c.to
  <2>1. s \in Seq(Event) /\ Chained(s) /\ row[g].status = StatusAfter(s, Len(s))
    BY <1>2 DEF GradeInv
  <2>2. Follows(e.from, e.to)
    BY <1>1, <1>2
  <2> HIDE DEF e, g, c, s
  <2>. QED  BY <1>7, <2>1, <2>2, Continued
<1> HIDE DEF w, e, g, s, t, grade, admin
<1>9. row' \in [Rows -> Grade!GradeRow] /\ story' \in [Rows -> Seq(Event)]
  BY <1>1, <1>2, <1>6, <1>8 DEF GradeInv, s, t
<1>10. row'[g] = w /\ story'[g] = t /\ \A h \in Rows : h # g => row'[h] = row[h] /\ story'[h] = story[h]
  BY <1>1, <1>2 DEF GradeInv, s, t
<1>11. Graded(w)
  BY <1>3, <1>6 DEF Graded
<1>12. \A h \in Rows : /\ Chained(story'[h]) /\ row'[h].status = StatusAfter(story'[h], Len(story'[h]))
                       /\ Graded(row'[h])
  BY <1>6, <1>8, <1>10, <1>11 DEF GradeInv
<1>13. call' \in [Requests -> GradeCall] /\ \A q \in Requests : call'[q] = call[q] \/ call'[q] = Grade!Idle
  BY <1>1, GradeIdle DEF GradeInv
<1>14. \A h \in Rows : /\ row[h].status # "NONE" => row'[h].status # "NONE"
                       /\ row[h].grade # NoGrade => row'[h].grade # NoGrade
  BY <1>2, <1>5, <1>6, <1>10
<1>15. \A q \in Requests : Knows(call[q])'
  BY <1>13, <1>14, GradeIdle DEF GradeInv, Knows
<1>. QED  BY <1>9, <1>12, <1>13, <1>15 DEF GradeInv

\* Another administrator: the status and the grade stay.
LEMMA AssignKeeps ==
  ASSUME GradeInv, NEW r \in Requests, NEW g \in Rows, NEW admin \in Admins, Grade!Assign(r, g, admin)
  PROVE  GradeInv'
<1> DEFINE w == Grade!Entry(row[g].status, row[g].side, row[g].key, row[g].grade, admin)
<1>1. row' = [row EXCEPT ![g] = w] /\ UNCHANGED <<story, call>>
  BY DEF Grade!Assign
<1>2. w \in Grade!GradeRow /\ w.status = row[g].status /\ w.grade = row[g].grade
  <2>1. row[g] \in Grade!GradeRow
    BY DEF GradeInv
  <2>. QED  BY <2>1 DEF Grade!GradeRow, Grade!Entry
<1> HIDE DEF w
<1>3. row' \in [Rows -> Grade!GradeRow]
      /\ \A h \in Rows : row'[h].status = row[h].status /\ row'[h].grade = row[h].grade
  BY <1>1, <1>2 DEF GradeInv
<1>4. \A q \in Requests : Knows(call[q])'
  BY <1>1, <1>3 DEF GradeInv, Knows
<1>. QED  BY <1>1, <1>3, <1>4 DEF GradeInv, Graded

LEMMA GradeStep ==
  ASSUME NoGrade \notin Catalogue \cup NewGrades, GradeInv, [Grade!Next]_(Grade!vars)
  PROVE  GradeInv'
<1>1. ASSUME NEW r \in Requests, NEW key \in Keys \cup {NoKey}, NEW side \in Grade!Sides,
             Grade!CreateRead(r, side, key)
      PROVE  GradeInv'
  <2> DEFINE w == Grade!Entry("NONE", side, key, NoGrade, NoAdmin)
             c == Grade!Call("creating", NoRow, w, "NONE", NoGrade, NoAdmin)
  <2>1. w \in Grade!GradeRow /\ "NONE" \in Grade!Status
    BY DEF Grade!GradeRow, Grade!Entry, Grade!Status
  <2>2. c \in GradeCall /\ c.at = "creating"
    BY <2>1 DEF Grade!Call, GradeCall
  <2>3. UNCHANGED <<row, story>> /\ call' = [call EXCEPT ![r] = c]
    BY <1>1 DEF Grade!CreateRead
  <2>4. Knows(c)
    BY <2>2 DEF Knows
  <2> HIDE DEF c
  <2>. QED  BY <2>2, <2>3, <2>4, CallsKeep
<1>2. ASSUME NEW r \in Requests, Grade!CreateFail(r) \/ Grade!Conflict(r) \/ Grade!AttachCommit(r)
      PROVE  GradeInv'
  <2>1. UNCHANGED <<row, story>> /\ call' = [call EXCEPT ![r] = Grade!Idle]
    BY <1>2 DEF Grade!CreateFail, Grade!Conflict, Grade!AttachCommit, Grade!Finish
  <2>2. Knows(Grade!Idle)
    BY GradeIdle DEF Knows
  <2>. QED  BY <2>1, <2>2, GradeIdle, CallsKeep
<1>3. ASSUME NEW r \in Requests, NEW g \in Rows, NEW side \in Grade!Sides,
             Grade!Respond(r, g, side) \/ Grade!Cancel(r, g, side)
      PROVE  GradeInv'
  <2>1. CASE Grade!Respond(r, g, side)
    <3>1. Follows(row[g].status, "UNDER_REVIEW")
      BY <2>1 DEF Grade!Respond, Follows, Grade!Transitions, Grade!Status, Grade!Open
    <3>. QED  BY <2>1, <3>1, ReadKeeps DEF Grade!Respond
  <2>2. CASE Grade!Cancel(r, g, side)
    <3>1. Follows(row[g].status, "CLOSED")
      BY <2>2 DEF Grade!Cancel, Follows
    <3>. QED  BY <2>2, <3>1, ReadKeeps DEF Grade!Cancel
  <2>. QED  BY <1>3, <2>1, <2>2
<1>4. ASSUME NEW r \in Requests, NEW g \in Rows, NEW side \in Grade!Sides, Grade!AttachRead(r, g, side)
      PROVE  GradeInv'
  <2> DEFINE c == Grade!Call("attaching", g, Grade!NoRequest, "NONE", NoGrade, NoAdmin)
  <2>1. "NONE" \in Grade!Status
    BY DEF Grade!Status
  <2>2. c \in GradeCall /\ c.at = "attaching"
    BY <2>1, GradeIdle DEF Grade!Call, GradeCall
  <2>3. UNCHANGED <<row, story>> /\ call' = [call EXCEPT ![r] = c]
    BY <1>4 DEF Grade!AttachRead
  <2>4. Knows(c)
    BY <2>2 DEF Knows
  <2> HIDE DEF c
  <2>. QED  BY <2>2, <2>3, <2>4, CallsKeep
<1>5. ASSUME NEW r \in Requests, NEW g \in Rows, NEW admin \in Admins, NEW to \in Grade!Direct,
             Grade!ChangeStatus(r, g, to, admin)
      PROVE  GradeInv'
  <2>1. /\ Follows(row[g].status, to) /\ to # "GRADE_IDENTIFIED"
        /\ to = "CONVERTED_TO_PR" => row[g].grade # NoGrade
        /\ Grade!Read(r, "moving", g, to, NoGrade, admin)
    BY <1>5 DEF Grade!ChangeStatus, Follows, Grade!Direct
  <2>. QED  BY <2>1, ReadKeeps
<1>6. ASSUME NEW r \in Requests, NEW g \in Rows, NEW admin \in Admins, Grade!RequestInfo(r, g, admin)
      PROVE  GradeInv'
  <2>1. Follows(row[g].status, "INFO_REQUIRED")
    BY <1>6 DEF Grade!RequestInfo, Follows
  <2>. QED  BY <1>6, <2>1, ReadKeeps DEF Grade!RequestInfo
<1>7. ASSUME NEW r \in Requests, NEW g \in Rows, NEW admin \in Admins,
             Grade!CreateGrade(r, g, admin) \/ \E grade \in Catalogue : Grade!MapGrade(r, g, grade, admin)
      PROVE  GradeInv'
  <2>1. row[g].status \in Grade!Resolvable
    BY <1>7 DEF Grade!CreateGrade, Grade!MapGrade
  <2>2. Follows(row[g].status, "GRADE_IDENTIFIED")
    BY <2>1 DEF Follows, Grade!Transitions, Grade!Resolvable, Grade!Status, Grade!Open
  <2>3. CASE Grade!CreateGrade(r, g, admin)
    BY <2>2, <2>3, ReadKeeps DEF Grade!CreateGrade
  <2>4. ASSUME NEW grade \in Catalogue, Grade!MapGrade(r, g, grade, admin) PROVE GradeInv'
    BY <2>2, <2>4, ReadKeeps DEF Grade!MapGrade
  <2>. QED  BY <1>7, <2>3, <2>4
<1>8. ASSUME NEW r \in Requests, Grade!MakeGrade(r)
      PROVE  GradeInv'
  <2> DEFINE c == call[r]
  <2>1. PICK n \in NewGrades : /\ UNCHANGED <<row, story>> /\ c.at = "making"
          /\ call' = [call EXCEPT ![r] = Grade!Call("resolving", c.g, c.read, c.to, n, c.admin)]
    BY <1>8 DEF Grade!MakeGrade
  <2> DEFINE d == Grade!Call("resolving", c.g, c.read, c.to, n, c.admin)
  <2>2. c \in GradeCall /\ Knows(c)
    BY DEF GradeInv
  <2>3. d \in GradeCall
    BY <2>2 DEF GradeCall, Grade!Call
  <2>4. Knows(d)
    BY <2>1, <2>2 DEF Knows, Grade!Call
  <2> HIDE DEF d
  <2>. QED  BY <2>1, <2>3, <2>4, CallsKeep DEF d
<1>9. CASE UNCHANGED Grade!vars
  BY <1>9 DEF Grade!vars, GradeInv, Knows
<1>. QED
  BY <1>1, <1>2, <1>3, <1>4, <1>5, <1>6, <1>7, <1>8, <1>9, NewRowKeeps, CommitKeeps, AssignKeeps
  DEF Grade!Next, Grade!CustomerCreates, Grade!SellerCreates, Grade!CustomerResponds,
      Grade!SellerResponds, Grade!CustomerCancels, Grade!SellerCancels, Grade!CustomerAttaches,
      Grade!SellerAttaches, Grade!Sides

LEMMA GradeAlways ==
  ASSUME NoGrade \notin Catalogue \cup NewGrades
  PROVE  Grade!Spec => []GradeInv
<1>1. Grade!Init => GradeInv
  <2>1. <<>> \in Seq(Event) /\ Len(<<>>) = 0
    OBVIOUS
  <2>2. Chained(<<>>) /\ StatusAfter(<<>>, 0) = "NONE"
    BY <2>1 DEF Chained, StatusAfter
  <2>. QED  BY <2>1, <2>2, GradeIdle DEF Grade!Init, GradeInv, Graded, Knows
<1>. QED  BY <1>1, GradeStep, PTL DEF Grade!Spec

\* However many administrators, customers and sellers race, the timeline of a
\* request for a grade tells one story that ends in the request's status, and
\* a request that was identified or converted has its grade
\* (grade-request.service.ts, GRADE_REQUEST_TRANSITIONS).
THEOREM TimelineIsOneStory ==
  ASSUME NoGrade \notin Catalogue \cup NewGrades
  PROVE  Grade!Spec => []Grade!OneTimeline
<1>1. GradeInv => Grade!OneTimeline
  <2> SUFFICES ASSUME GradeInv, NEW g \in Rows
               PROVE  /\ \A i \in DOMAIN story[g] :
                           /\ story[g][i].from = StatusAfter(story[g], i - 1)
                           /\ i > 1 => Follows(StatusAfter(story[g], i - 1), story[g][i].to)
                      /\ row[g].status = StatusAfter(story[g], Len(story[g]))
                      /\ Graded(row[g])
    BY DEF Grade!OneTimeline, StatusAfter, Follows, Graded
  <2>1. story[g] \in Seq(Event) /\ Chained(story[g])
    BY DEF GradeInv
  <2>2. DOMAIN story[g] = 1 .. Len(story[g])
    BY <2>1, LenProperties
  <2>. QED  BY <2>1, <2>2 DEF GradeInv, Chained
<1>. QED  BY <1>1, GradeAlways, PTL

-----------------------------------------------------------------------------
(* Types *)

\* A KYC is submitted as often as is counted.
LEMMA KycIsTyped ==
  ASSUME MaxSubmissions \in Nat
  PROVE  Kyc!Spec => []Kyc!TypeOK
<1> DEFINE Counted == history.submitted <= MaxSubmissions
<1>1. Kyc!Init => Counted
  BY DEF Kyc!Init
<1>2. KycInv /\ Counted /\ [Kyc!Next]_(Kyc!vars) => Counted'
  <2>1. SUFFICES ASSUME KycInv, Counted, [Kyc!Next]_(Kyc!vars) PROVE Counted'
    OBVIOUS
  <2>2. history \in [submitted : Nat, approved : Nat]
    BY <2>1 DEF KycInv
  <2>3. ASSUME NEW r \in Requests, Kyc!Submit(r) PROVE Counted'
    BY <2>2, <2>3 DEF Kyc!Submit
  <2>4. ASSUME NEW r \in Requests, Kyc!Approve(r) PROVE history'.submitted = history.submitted
    BY <2>2, <2>4 DEF Kyc!Approve
  <2>5. ASSUME NEW r \in Requests, NEW op \in Kyc!Ops,
               Kyc!Start(r, op) \/ Kyc!Reject(r) \/ Kyc!RequestChanges(r) \/ Kyc!Refuse(r)
        PROVE  history' = history
    BY <2>5 DEF Kyc!Start, Kyc!Reject, Kyc!RequestChanges, Kyc!Refuse
  <2>6. "submit" \in Kyc!Ops
    BY DEF Kyc!Ops
  <2>7. UNCHANGED Kyc!vars => history' = history
    BY DEF Kyc!vars
  <2>8. history'.submitted = history.submitted => Counted'
    BY <2>1
  <2>. HIDE DEF Counted
  <2>. QED  BY <2>1, <2>3, <2>4, <2>5, <2>6, <2>7, <2>8 DEF Kyc!Next
<1>3. KycInv /\ Counted => Kyc!TypeOK
  BY DEF KycInv, Kyc!TypeOK, Kyc!KycTellsOneStory, Kyc!Told, Kyc!Status
<1> HIDE DEF Counted
<1>. QED  BY <1>1, <1>2, <1>3, KycAlways, PTL DEF Kyc!Spec

LEMMA AfterReply ==
  ASSUME NEW s \in Support!Status
  PROVE  Support!StatusAfterRequesterReply(s) \in Support!Status
         /\ Support!StatusAfterAgentReply(s) \in Support!Status
  BY DEF Support!StatusAfterRequesterReply, Support!StatusAfterAgentReply, Support!Status

\* A ticket is typed when its times are, and they are read or of the clock.
LEMMA TicketStep ==
  ASSUME MaxResolutions \in Nat, Support!TypeOK, DOMAIN reply = Requests,
         [Support!Next]_(Support!vars)
  PROVE  Support!TypeOK'
<1> USE DEF Support!Ticket, Support!Times
<1>1. Support!Idle.at = "idle" /\ Support!Idle.read \in Support!Ticket
      /\ Support!Idle.to \in Support!Status /\ Support!Idle.agent \in Agents \cup {NoAgent}
  BY DEF Support!Idle, Support!Opened, Support!Status
<1>2. ASSUME NEW r \in Requests, NEW at \in {"replyMine", "replyAdmin", "updateAdmin"},
             NEW to \in Support!Status, NEW agent \in Agents \cup {NoAgent},
             Support!Read(r, at, to, agent)
      PROVE  Support!TypeOK'
  BY <1>2 DEF Support!TypeOK, Support!Read
<1>3. ticket \in Support!Ticket /\ ticket.status \in Support!Status
      /\ ticket.assignedTo \in Agents \cup {NoAgent}
  BY DEF Support!TypeOK
<1>4. ASSUME NEW r \in Requests, Support!ReplyMineRead(r) PROVE Support!TypeOK'
  BY <1>2, <1>3, <1>4, AfterReply DEF Support!ReplyMineRead
<1>5. ASSUME NEW r \in Requests, NEW agent \in Agents, Support!ReplyAdminRead(r, agent)
      PROVE  Support!TypeOK'
  BY <1>2, <1>3, <1>5, AfterReply DEF Support!ReplyAdminRead
<1>6. ASSUME NEW r \in Requests, NEW to \in Support!Status, NEW agent \in Agents,
             NEW named \in BOOLEAN, Support!UpdateAdminRead(r, to, agent, named)
      PROVE  Support!TypeOK'
  BY <1>2, <1>3, <1>6 DEF Support!UpdateAdminRead
<1>7. ASSUME NEW r \in Requests, Support!Commit(r) PROVE Support!TypeOK'
  <2> DEFINE c == reply[r]
             now == IF c.at = "updateAdmin" /\ c.to \in {"RESOLVED", "CLOSED"} THEN clock + 1
                    ELSE clock
  <2>1. /\ clock' = now /\ now <= MaxResolutions /\ reply' = [reply EXCEPT ![r] = Support!Idle]
        /\ ticket' = [status |-> c.to, resolvedAt |-> Support!ResolvedAt(c, now),
                      closedAt |-> Support!ClosedAt(c, now),
                      assignedTo |-> IF c.agent = NoAgent THEN ticket.assignedTo ELSE c.agent]
    BY <1>7 DEF Support!Commit
  <2>2. clock \in Nat /\ c.to \in Support!Status /\ c.read \in Support!Ticket
        /\ c.agent \in Agents \cup {NoAgent}
    BY DEF Support!TypeOK
  <2>3. now \in 0 .. MaxResolutions
    BY <2>1, <2>2
  <2> HIDE DEF now
  <2>4. Support!ResolvedAt(c, now) \in 0 .. MaxResolutions
    BY <1>3, <2>2, <2>3 DEF Support!ResolvedAt
  <2>5. Support!ClosedAt(c, now) \in 0 .. MaxResolutions
    BY <1>3, <2>2, <2>3 DEF Support!ClosedAt
  <2>6. ticket' \in Support!Ticket
    BY <1>3, <2>1, <2>2, <2>4, <2>5
  <2>. QED  BY <1>1, <2>1, <2>3, <2>6 DEF Support!TypeOK
<1>8. ASSUME NEW r \in Requests, Support!Stale(r) PROVE Support!TypeOK'
  BY <1>1, <1>8 DEF Support!Stale, Support!TypeOK
<1>9. CASE UNCHANGED Support!vars
  BY <1>9 DEF Support!vars, Support!TypeOK
<1>. QED  BY <1>4, <1>5, <1>6, <1>7, <1>8, <1>9 DEF Support!Next

LEMMA TicketIsTyped ==
  ASSUME MaxResolutions \in Nat
  PROVE  Support!Spec => []Support!TypeOK
<1>1. Support!Init => Support!TypeOK
  BY DEF Support!Init, Support!TypeOK, Support!Ticket, Support!Times, Support!Idle,
         Support!Opened, Support!Status
<1>2. TicketInv => DOMAIN reply = Requests
  BY DEF TicketInv
<1>3. DOMAIN reply = Requests /\ Support!TypeOK /\ [Support!Next]_(Support!vars) => Support!TypeOK'
  BY TicketStep
<1>. QED  BY <1>1, <1>2, <1>3, TicketAlways, PTL DEF Support!Spec

\* No row is older than one that is taken for abandoned, and no request has a
\* row that is not there.
CheckBounded ==
  /\ DOMAIN rows \subseteq 1 .. MaxRows
  /\ \A i \in DOMAIN rows : rows[i].age <= Check!Abandoned
  /\ org \in Check!Ids
  /\ \A r \in Requests : verifier[r].row <= MaxRows

\* A row is added at the end of the table.
LEMMA OneMore ==
  ASSUME NEW e \in CheckRow, rows \in Seq(CheckRow), rows' = Append(rows, e)
  PROVE  /\ DOMAIN rows' = 1 .. Len(rows) + 1 /\ rows'[Len(rows) + 1] = e
         /\ \A i \in 1 .. Len(rows) : rows'[i] = rows[i]
<1>1. rows' \in Seq(CheckRow) /\ Len(rows') = Len(rows) + 1
  BY AppendProperties
<1>. QED  BY <1>1, AppendProperties, LenProperties

\* One row is replaced by one that is not too old.
LEMMA RowsBounded ==
  ASSUME CheckInv, CheckBounded, NEW i \in DOMAIN rows, NEW e, e.age <= Check!Abandoned,
         rows' = [rows EXCEPT ![i] = e]
  PROVE  /\ DOMAIN rows' \subseteq 1 .. MaxRows
         /\ \A j \in DOMAIN rows' : rows'[j].age <= Check!Abandoned
<1>1. rows \in Seq(CheckRow)
  BY DEF CheckInv
<1>2. DOMAIN rows' = DOMAIN rows /\ \A j \in DOMAIN rows : rows'[j] = IF j = i THEN e ELSE rows[j]
  BY <1>1
<1>. QED  BY <1>2 DEF CheckBounded

\* One request has no row any more, or still the one it had.
LEMMA RequestBounded ==
  ASSUME MaxRows \in Nat, CheckInv, CheckBounded, NEW r \in Requests, NEW c,
         Check!Set(r, c), c.row \in {0, verifier[r].row}
  PROVE  \A q \in Requests : verifier'[q].row <= MaxRows
  BY DEF CheckInv, CheckBounded, Check!Set

LEMMA CheckBoundStep ==
  ASSUME MaxRows \in Nat, CheckInv, CheckBounded, [Check!Next]_(Check!vars)
  PROVE  CheckBounded'
<1>1. /\ \A at, proc, id, n, posts, body, out :
           /\ Check!Request(at, proc, id, n, posts, body, out).row = n
           /\ Check!Request(at, proc, id, n, posts, body, out).id = id
      /\ \A at, proc, id : Check!Starting(at, proc, id).row = 0
      /\ Check!Idle.row = 0
  BY DEF Check!Request, Check!Starting, Check!Idle
<1>2. \A status, id, age, left : Check!Entry(status, id, age, left).age = age
  BY DEF Check!Entry
<1>3. ASSUME NEW r \in Requests, NEW c, Check!Set(r, c), c.row \in {0, verifier[r].row},
             rows' = rows, org' \in Check!Ids
      PROVE  CheckBounded'
  BY <1>3, RequestBounded DEF CheckBounded
<1>4. org \in Check!Ids /\ \A r \in Requests : verifier[r].id \in Check!Ids
  BY CheckCallTyped DEF CheckBounded
<1>5. ASSUME NEW r \in Requests, NEW p \in Processes, NEW id \in Identifiers,
             Check!Verify(r, p, id) \/ Check!Reuse(r, p, id)
      PROVE  CheckBounded'
  BY <1>1, <1>3, <1>4, <1>5 DEF Check!Verify, Check!Reuse
<1>6. ASSUME NEW r \in Requests,
             \/ Check!CreateFail(r) \/ Check!Retry(r) \/ Check!Headers(r) \/ Check!Apply(r)
             \/ \E status \in Check!Status \ {"VERIFYING"} : Check!Outcome(r, status)
      PROVE  CheckBounded'
  <2>1. rows' = rows /\ org' \in Check!Ids
    BY <1>4, <1>6 DEF Check!CreateFail, Check!Retry, Check!Headers, Check!Apply, Check!Outcome
  <2>2. \E c : Check!Set(r, c) /\ c.row \in {0, verifier[r].row}
    <3>1. CASE Check!CreateFail(r) \/ Check!Apply(r)
      BY <1>1, <3>1 DEF Check!CreateFail, Check!Apply
    <3>2. ASSUME NEW posts, NEW body, Check!Asking(r, posts, body)
          PROVE  \E c : Check!Set(r, c) /\ c.row \in {0, verifier[r].row}
      <4>1. PICK c : c = Check!Request("provider", verifier[r].proc, verifier[r].id, verifier[r].row,
                                       posts, body, "VERIFYING")
        OBVIOUS
      <4>2. Check!Set(r, c) /\ c.row = verifier[r].row
        BY <3>2, <4>1 DEF Check!Asking, Check!Request
      <4>. QED  BY <4>2
    <3>3. CASE Check!Retry(r) \/ Check!Headers(r)
      <4>1. Check!Asking(r, 2, FALSE) \/ Check!Asking(r, verifier[r].posts, TRUE)
        BY <3>3 DEF Check!Retry, Check!Headers
      <4>. QED  BY <3>2, <4>1
    <3>4. CASE \E status \in Check!Status \ {"VERIFYING"} : Check!Outcome(r, status)
      BY <1>1, <3>4 DEF Check!Outcome
    <3>. QED  BY <1>6, <3>1, <3>3, <3>4
  <2>. QED  BY <1>3, <2>1, <2>2
<1>13. ASSUME NEW r \in Requests, NEW p \in Processes, NEW id \in Identifiers, Check!FindStale(r, p, id)
       PROVE  CheckBounded'
  <2>1. PICK n \in Nat : n = Len(rows) /\ n <= MaxRows
    <3>1. rows \in Seq(CheckRow) /\ rows # <<>>
      BY <1>13 DEF CheckInv, Check!FindStale
    <3>2. Len(rows) \in DOMAIN rows
      BY <3>1, EmptySeq, LenProperties
    <3>. QED  BY <3>2 DEF CheckBounded
  <2>. PICK c : c = Check!Request("abandon", p, id, n, 0, FALSE, "VERIFYING")
    OBVIOUS
  <2>2. /\ verifier' = [verifier EXCEPT ![r] = c] /\ rows' = rows /\ org' = org
        /\ c.row = n
    BY <1>13, <2>1 DEF Check!FindStale, Check!Set, Check!Request
  <2>3. \A q \in Requests : verifier'[q].row = IF q = r THEN n ELSE verifier[q].row
    BY <2>2 DEF CheckInv
  <2>. QED  BY <2>1, <2>2, <2>3 DEF CheckBounded
<1>7. ASSUME NEW r \in Requests, Check!Abandon(r) PROVE CheckBounded'
  <2>1. verifier[r].row \in DOMAIN rows
    BY <1>7 DEF Check!Abandon, CheckInv, Knowing
  <2>2. PICK i \in DOMAIN rows : i = verifier[r].row
    BY <2>1
  <2>. PICK e : e = Check!Entry("FAILED", rows[i].id, rows[i].age, TRUE)
    OBVIOUS
  <2>. PICK c : c = Check!Starting("create", verifier[r].proc, verifier[r].id)
    OBVIOUS
  <2>3. rows' = [rows EXCEPT ![i] = e] /\ Check!Set(r, c) /\ org' = org
    BY <1>7, <2>2 DEF Check!Abandon
  <2>4. e.age <= Check!Abandoned /\ c.row \in {0, verifier[r].row}
    BY <1>1 DEF CheckBounded, Check!Entry
  <2>5. /\ DOMAIN rows' \subseteq 1 .. MaxRows
        /\ \A j \in DOMAIN rows' : rows'[j].age <= Check!Abandoned
    BY <2>3, <2>4, RowsBounded
  <2>6. \A q \in Requests : verifier'[q].row <= MaxRows
    BY <2>3, <2>4, RequestBounded
  <2>. QED  BY <1>4, <2>3, <2>5, <2>6 DEF CheckBounded
<1>8. ASSUME NEW r \in Requests, Check!Create(r) PROVE CheckBounded'
  <2>1. rows \in Seq(CheckRow) /\ Len(rows) \in Nat /\ DOMAIN rows = 1 .. Len(rows)
    BY LenProperties DEF CheckInv
  <2>2. PICK n \in Nat : n = Len(rows) + 1 /\ n <= MaxRows
    BY <1>8, <2>1 DEF Check!Create
  <2>3. /\ rows' = Append(rows, Check!Entry("VERIFYING", verifier[r].id, 0, FALSE))
        /\ verifier' = [verifier EXCEPT ![r] = Check!Request("provider", verifier[r].proc,
                                                  verifier[r].id, n, 1, FALSE, "VERIFYING")]
        /\ org' = org
    BY <1>8, <2>2 DEF Check!Create, Check!Set
  <2>. PICK e : e = Check!Entry("VERIFYING", verifier[r].id, 0, FALSE)
    OBVIOUS
  <2>4. DOMAIN rows' = 1 .. n /\ rows'[n].age = 0 /\ \A i \in DOMAIN rows : rows'[i] = rows[i]
    <3>1. rows' = Append(rows, e) /\ e.age = 0
      BY <2>3 DEF Check!Entry
    <3>2. e \in CheckRow
      BY <1>8 DEF CheckInv, Knowing, Check!Create, Check!Entry, Check!Status, CheckRow
    <3>3. /\ DOMAIN rows' = 1 .. Len(rows) + 1 /\ rows'[Len(rows) + 1] = e
          /\ \A i \in 1 .. Len(rows) : rows'[i] = rows[i]
      BY <2>1, <3>1, <3>2, OneMore, Zenon
    <3>. QED  BY <2>1, <2>2, <3>1, <3>3
  <2>5. \A i \in DOMAIN rows' : rows'[i].age <= Check!Abandoned
    BY <2>1, <2>2, <2>4 DEF CheckBounded, Check!Abandoned
  <2>. HIDE DEF CheckRow
  <2>6. \A q \in Requests : verifier'[q].row <= MaxRows
    <3>. PICK c : c = Check!Request("provider", verifier[r].proc, verifier[r].id, n, 1, FALSE,
                                       "VERIFYING")
      OBVIOUS
    <3>1. c.row = n /\ verifier' = [verifier EXCEPT ![r] = c]
      BY <2>3 DEF Check!Request
    <3>2. \A q \in Requests : verifier'[q].row = IF q = r THEN n ELSE verifier[q].row
      BY <3>1 DEF CheckInv
    <3>. QED  BY <2>2, <3>2 DEF CheckBounded
  <2>7. DOMAIN rows' \subseteq 1 .. MaxRows
    BY <2>2, <2>4
  <2>. QED  BY <1>4, <2>3, <2>5, <2>6, <2>7 DEF CheckBounded
<1>9. ASSUME NEW r \in Requests, Check!Update(r) PROVE CheckBounded'
  <2>1. verifier[r].row \in DOMAIN rows
    BY <1>9 DEF Check!Update, CheckInv, Knowing, Asked
  <2>2. PICK i \in DOMAIN rows : i = verifier[r].row
    BY <2>1
  <2>. PICK e : e = Check!Entry(verifier[r].outcome, rows[i].id, rows[i].age, rows[i].left)
    OBVIOUS
  <2>. PICK c : c = IF verifier[r].outcome = "FAILED" THEN Check!Idle
                    ELSE Check!Starting("apply", verifier[r].proc, verifier[r].id)
    OBVIOUS
  <2>3. rows' = [rows EXCEPT ![i] = e] /\ Check!Set(r, c) /\ org' = org
    BY <1>9, <2>2 DEF Check!Update
  <2>4. e.age <= Check!Abandoned /\ c.row \in {0, verifier[r].row}
    BY <1>1, <1>2 DEF CheckBounded
  <2>5. /\ DOMAIN rows' \subseteq 1 .. MaxRows
        /\ \A j \in DOMAIN rows' : rows'[j].age <= Check!Abandoned
    BY <2>3, <2>4, RowsBounded
  <2>6. \A q \in Requests : verifier'[q].row <= MaxRows
    BY <2>3, <2>4, RequestBounded
  <2>. QED  BY <1>4, <2>3, <2>5, <2>6 DEF CheckBounded
<1>10. ASSUME NEW p \in Processes, Check!Crash(p) PROVE CheckBounded'
  BY <1>1, <1>10 DEF Check!Crash, CheckBounded
<1>11. ASSUME NEW i \in DOMAIN rows, Check!Age(i) PROVE CheckBounded'
  <2>. PICK e : e = Check!Entry(rows[i].status, rows[i].id, rows[i].age + 1, rows[i].left)
    OBVIOUS
  <2>1. /\ rows' = [rows EXCEPT ![i] = e]
        /\ UNCHANGED <<org, verifier>> /\ rows[i].age < Check!Abandoned
    BY <1>11 DEF Check!Age
  <2>2. e.age <= Check!Abandoned
    <3>1. rows[i].age \in Nat /\ e.age = rows[i].age + 1
      BY <1>2, CheckRowTyped DEF CheckRow
    <3>. QED  BY <2>1, <3>1 DEF Check!Abandoned
  <2>3. /\ DOMAIN rows' \subseteq 1 .. MaxRows
        /\ \A j \in DOMAIN rows' : rows'[j].age <= Check!Abandoned
    BY <2>1, <2>2, RowsBounded
  <2>. QED  BY <1>4, <2>1, <2>3 DEF CheckBounded
<1>12. CASE UNCHANGED Check!vars
  BY <1>12 DEF Check!vars, CheckBounded
<1>. QED  BY <1>5, <1>6, <1>7, <1>8, <1>9, <1>10, <1>11, <1>12, <1>13 DEF Check!Next

LEMMA VerificationIsTyped ==
  ASSUME MaxRows \in Nat
  PROVE  Check!Spec => []Check!TypeOK
<1>1. Check!Init => CheckBounded
  BY DEF Check!Init, CheckBounded, Check!Ids, Check!Idle, Check!Starting, Check!Request
<1>2. CheckInv /\ CheckBounded /\ [Check!Next]_(Check!vars) => CheckBounded'
  BY CheckBoundStep
<1>3. CheckInv /\ CheckBounded => Check!TypeOK
  <2> SUFFICES ASSUME CheckInv, CheckBounded PROVE Check!TypeOK
    OBVIOUS
  <2>1. \A i \in DOMAIN rows : rows[i] \in Check!Row
    <3> SUFFICES ASSUME NEW i \in DOMAIN rows PROVE rows[i] \in Check!Row
      OBVIOUS
    <3>1. rows[i] \in CheckRow /\ rows[i].age <= 3
      BY CheckRowTyped DEF CheckBounded, Check!Abandoned
    <3>. QED  BY <3>1 DEF CheckRow, Check!Row, Check!Abandoned
  <2>2. Len(rows) <= MaxRows
    <3>1. Len(rows) \in Nat /\ DOMAIN rows = 1 .. Len(rows)
      BY LenProperties DEF CheckInv
    <3>2. Len(rows) = 0 \/ Len(rows) \in DOMAIN rows
      BY <3>1
    <3>. QED  BY <3>1, <3>2 DEF CheckBounded
  <2>3. \A r \in Requests : verifier[r] \in CheckCall /\ verifier[r].row \in 0 .. MaxRows
    <3> SUFFICES ASSUME NEW r \in Requests
                 PROVE  verifier[r] \in CheckCall /\ verifier[r].row \in 0 .. MaxRows
      OBVIOUS
    <3>1. verifier[r] \in CheckCall /\ verifier[r].row \in Nat
      BY CheckCallTyped
    <3>2. verifier[r].row <= MaxRows
      BY DEF CheckBounded
    <3>. QED  BY <3>1, <3>2
  <2>. QED  BY <2>1, <2>2, <2>3 DEF CheckInv, CheckCall, CheckBounded, Check!TypeOK
<1>. QED  BY <1>1, <1>2, <1>3, CheckAlways, PTL DEF Check!Spec

\* The bound of the stories, the number of documents and the grades made.
GradeBounded ==
  /\ \A g \in Rows : Len(story[g]) <= MaxEvents
  /\ docs \in [Rows -> Nat]
  /\ grades \subseteq NewGrades

\* An event is added to a story.
LEMMA Longer ==
  ASSUME NEW s \in Seq(Event), NEW e \in Event
  PROVE  Len(Append(s, e)) = Len(s) + 1
  BY AppendProperties

LEMMA GradeBoundStep ==
  ASSUME MaxEvents \in Nat \ {0}, GradeInv, GradeBounded, [Grade!Next]_(Grade!vars)
  PROVE  GradeBounded'
<1>1. CASE UNCHANGED <<story, docs, grades>>
  BY <1>1 DEF GradeBounded
<1>2. ASSUME NEW r \in Requests, Grade!CreateCommit(r) PROVE GradeBounded'
  <2> DEFINE e == [from |-> "NONE", to |-> "SUBMITTED"]
  <2>1. PICK g \in Rows : story' = [story EXCEPT ![g] = <<e>>] /\ UNCHANGED <<docs, grades>>
    BY <1>2 DEF Grade!CreateCommit
  <2>2. Len(<<e>>) <= MaxEvents
    OBVIOUS
  <2> HIDE DEF e
  <2>3. \A h \in Rows : Len(story'[h]) <= MaxEvents
    BY <2>1, <2>2 DEF GradeInv, GradeBounded
  <2>. QED  BY <2>1, <2>3 DEF GradeBounded
<1>3. ASSUME NEW r \in Requests, Grade!Commit(r) PROVE GradeBounded'
  <2>1. PICK g \in Rows, e \in Event : /\ Len(story[g]) < MaxEvents
                                       /\ story' = [story EXCEPT ![g] = Append(story[g], e)]
                                       /\ UNCHANGED <<docs, grades>>
    <3> DEFINE g == call[r].g
               e == [from |-> call[r].read.status, to |-> call[r].to]
    <3>1. /\ call[r].at \in {"moving", "resolving"} /\ Len(story[g]) < MaxEvents
          /\ story' = [story EXCEPT ![g] = Append(story[g], e)]
          /\ UNCHANGED <<docs, grades>>
      BY <1>3 DEF Grade!Commit
    <3>2. call[r] \in GradeCall /\ g \in Rows
      BY <3>1 DEF GradeInv, Knows
    <3>3. e \in Event
      BY <3>2 DEF GradeCall, Grade!GradeRow, Event
    <3>. QED  BY <3>1, <3>2, <3>3
  <2>2. story[g] \in Seq(Event) /\ Len(story[g]) \in Nat
    BY LenProperties DEF GradeInv
  <2>3. Len(Append(story[g], e)) <= MaxEvents
    BY <2>1, <2>2, Longer
  <2>4. \A h \in Rows : Len(story'[h]) <= MaxEvents
    BY <2>1, <2>3 DEF GradeInv, GradeBounded
  <2>. QED  BY <2>1, <2>4 DEF GradeBounded
<1>4. ASSUME NEW r \in Requests, Grade!MakeGrade(r) PROVE GradeBounded'
  BY <1>4 DEF Grade!MakeGrade, GradeBounded
<1>5. ASSUME NEW r \in Requests, Grade!AttachCommit(r) PROVE GradeBounded'
  <2>1. docs' \in [Rows -> Nat] /\ UNCHANGED <<story, grades>>
    <3>. PICK g : g = call[r].g
      OBVIOUS
    <3>1. docs' = [docs EXCEPT ![g] = docs[g] + 1] /\ UNCHANGED <<story, grades>>
      BY <1>5 DEF Grade!AttachCommit
    <3>2. docs \in [Rows -> Nat] /\ \A h \in Rows : docs[h] + 1 \in Nat
      BY DEF GradeBounded
    <3>3. DOMAIN docs' = Rows /\ \A h \in Rows : docs'[h] = IF h = g THEN docs[h] + 1 ELSE docs[h]
      BY <3>1, <3>2
    <3>. QED  BY <3>1, <3>2, <3>3
  <2>. QED  BY <2>1 DEF GradeBounded
<1>6. ASSUME NEW r \in Requests,
             \/ \E key \in Keys \cup {NoKey} : Grade!CustomerCreates(r, key) \/ Grade!SellerCreates(r, key)
             \/ Grade!CreateFail(r) \/ Grade!Conflict(r)
      PROVE  GradeBounded'
  BY <1>1, <1>6 DEF Grade!CustomerCreates, Grade!SellerCreates, Grade!CreateRead, Grade!CreateFail,
                    Grade!Conflict
<1>7. ASSUME NEW r \in Requests, NEW g \in Rows,
             \/ Grade!CustomerResponds(r, g) \/ Grade!SellerResponds(r, g)
             \/ Grade!CustomerCancels(r, g) \/ Grade!SellerCancels(r, g)
             \/ Grade!CustomerAttaches(r, g) \/ Grade!SellerAttaches(r, g)
      PROVE  GradeBounded'
  BY <1>1, <1>7 DEF Grade!CustomerResponds, Grade!SellerResponds, Grade!Respond, Grade!CustomerCancels,
                    Grade!SellerCancels, Grade!Cancel, Grade!CustomerAttaches, Grade!SellerAttaches,
                    Grade!AttachRead, Grade!Read
<1>8. ASSUME NEW r \in Requests, NEW g \in Rows, NEW admin \in Admins,
             \/ \E to \in Grade!Direct : Grade!ChangeStatus(r, g, to, admin)
             \/ Grade!RequestInfo(r, g, admin)
             \/ \E grade \in Catalogue : Grade!MapGrade(r, g, grade, admin)
             \/ Grade!CreateGrade(r, g, admin) \/ Grade!Assign(r, g, admin)
      PROVE  GradeBounded'
  BY <1>1, <1>8 DEF Grade!ChangeStatus, Grade!RequestInfo, Grade!MapGrade, Grade!CreateGrade,
                    Grade!Assign, Grade!Read
<1>9. CASE UNCHANGED Grade!vars
  BY <1>1, <1>9 DEF Grade!vars
<1>. QED  BY <1>2, <1>3, <1>4, <1>5, <1>6, <1>7, <1>8, <1>9 DEF Grade!Next

LEMMA GradeIsTyped ==
  ASSUME NoGrade \notin Catalogue \cup NewGrades, MaxEvents \in Nat \ {0}
  PROVE  Grade!Spec => []Grade!TypeOK
<1>1. Grade!Init => GradeBounded
  BY DEF Grade!Init, GradeBounded
<1>2. GradeInv /\ GradeBounded /\ [Grade!Next]_(Grade!vars) => GradeBounded'
  BY GradeBoundStep
<1>3. GradeInv /\ GradeBounded => Grade!TypeOK
  <2> SUFFICES ASSUME GradeInv, GradeBounded PROVE Grade!TypeOK
    OBVIOUS
  <2>1. ASSUME NEW g \in Rows
        PROVE  /\ DOMAIN story[g] \subseteq 1 .. MaxEvents
               /\ \A i \in DOMAIN story[g] : {story[g][i].from, story[g][i].to} \subseteq Grade!Status
    <3>1. /\ story[g] \in Seq(Event) /\ Len(story[g]) \in Nat /\ DOMAIN story[g] = 1 .. Len(story[g])
          /\ Len(story[g]) <= MaxEvents
      BY LenProperties DEF GradeInv, GradeBounded
    <3>2. \A i \in 1 .. Len(story[g]) : story[g][i] \in Event
      BY <3>1, ElementOfSeq
    <3>. QED  BY <3>1, <3>2 DEF Event
  <2>2. \A g \in Rows : row[g] \in Grade!GradeRow
    BY DEF GradeInv
  <2>3. \A r \in Requests : call[r] \in GradeCall
    BY DEF GradeInv
  <2>4. ASSUME NEW r \in Requests
        PROVE  /\ call[r].at \in {"idle", "creating", "moving", "attaching", "making", "resolving"}
               /\ call[r].g \in Rows \cup {NoRow} /\ call[r].read \in Grade!GradeRow
               /\ call[r].to \in Grade!Status /\ call[r].admin \in Admins \cup {NoAdmin}
               /\ call[r].grade \in Catalogue \cup NewGrades \cup {NoGrade}
    BY <2>3 DEF GradeCall
  <2>. QED  BY <2>1, <2>2, <2>4 DEF GradeBounded, Grade!TypeOK
<1>. QED  BY <1>1, <1>2, <1>3, GradeAlways, PTL DEF Grade!Spec

\* Applications and sellers are typed by what makes their stories inductive.
LEMMA ApplicationIsTyped == Spec => []TypeOK
<1>1. IInv => TypeOK
  BY DEF IInv
<1>. QED  BY <1>1, InvInit, InvStep, PTL DEF Spec

LEMMA SellerIsTyped == Seller!Spec => []Seller!TypeOK
<1>1. SellerInv => Seller!TypeOK
  BY DEF SellerInv
<1>. QED  BY <1>1, SellerAlways, PTL

\* Under review, everything stays what its columns can hold: the statuses of
\* applications, sellers, tickets, verifications and grade requests, the rows
\* that a handler in progress knows, and the counters of submissions, posts
\* and ages, for any number of requests, rows and administrators, and whatever
\* the bounds of the models are.
THEOREM ReviewsAreTyped ==
  ASSUME NoGrade \notin Catalogue \cup NewGrades,
         MaxSubmissions \in Nat, MaxResolutions \in Nat, MaxRows \in Nat, MaxEvents \in Nat \ {0}
  PROVE  /\ Spec => []TypeOK
         /\ Seller!Spec => []Seller!TypeOK
         /\ Kyc!Spec => []Kyc!TypeOK
         /\ Support!Spec => []Support!TypeOK
         /\ Check!Spec => []Check!TypeOK
         /\ Grade!Spec => []Grade!TypeOK
BY ApplicationIsTyped, SellerIsTyped, KycIsTyped, TicketIsTyped, VerificationIsTyped, GradeIsTyped
=============================================================================
