------------------------------ MODULE CustomerKyc ------------------------------
(***************************************************************************)
(* The review of one customer's KYC.  The customer submits it, reviewers   *)
(* approve it, reject it or send it back with a change request.  Every     *)
(* operation reads the status, works on documents and verifications, and   *)
(* then writes in a transaction that locks the profile's row and reads the *)
(* status again.  The status lives in the profile's metadata; the          *)
(* organization keeps a status of its own, which the marketplace reads.    *)
(*                                                                         *)
(* Whether the documents and the verifications are complete is left open:  *)
(* a submission or an approval that finds them incomplete changes nothing. *)
(***************************************************************************)
EXTENDS Integers

CONSTANTS
  Requests,         \* concurrently running requests
  MaxSubmissions    \* bound: submissions of the customer

VARIABLES
  kyc,        \* the KYC status of the profile
  change,     \* its change request
  org,        \* the organization's verificationStatus
  history,    \* how often the KYC was submitted and approved
  review      \* requests in progress

vars == <<kyc, change, org, history, review>>

Status == {"NOT_SUBMITTED", "SUBMITTED", "CHANGES_REQUESTED", "APPROVED", "REJECTED"}
Locked == {"SUBMITTED", "APPROVED"}
Ops == {"submit", "approve", "reject", "requestChanges"}

Init ==
  /\ kyc = "NOT_SUBMITTED"
  /\ change = "none"
  /\ org = "PENDING"
  /\ history = [submitted |-> 0, approved |-> 0]
  /\ review = [r \in Requests |-> "idle"]

TypeOK ==
  /\ kyc \in Status
  /\ change \in {"none", "open", "resolved"}
  /\ org \in {"PENDING", "UNDER_REVIEW", "APPROVED", "REJECTED"}
  /\ history \in [submitted : 0 .. MaxSubmissions, approved : Nat]
  /\ review \in [Requests -> Ops \cup {"idle"}]

\* The statuses an operation accepts when it starts.
Accepts(op) ==
  Status \ [submit |-> Locked, approve |-> Status \ {"SUBMITTED"},
            reject |-> {"REJECTED"}, requestChanges |-> {"APPROVED"}][op]

\* The read before the transaction.
Start(r, op) ==
  /\ review[r] = "idle"
  /\ kyc \in Accepts(op)
  /\ review' = [review EXCEPT ![r] = op]
  /\ UNCHANGED <<kyc, change, org, history>>

Done(r) == review' = [review EXCEPT ![r] = "idle"]

Resolved == IF change = "open" THEN "resolved" ELSE change

\* lockCustomerKyc, and the transaction's writes.
Submit(r) ==
  /\ review[r] = "submit"
  /\ kyc \notin Locked
  /\ history.submitted < MaxSubmissions
  /\ kyc' = "SUBMITTED"
  /\ change' = Resolved
  /\ org' = "UNDER_REVIEW"
  /\ history' = [history EXCEPT !.submitted = @ + 1]
  /\ Done(r)

\* Mutant: the decision rests on the status read before the transaction.
MayApprove_Unlocked == TRUE

\* assertCanApprove(locked.kyc.status, true).
MayApprove == kyc = "SUBMITTED"

Approve(r) ==
  /\ review[r] = "approve"
  /\ MayApprove
  /\ kyc' = "APPROVED"
  /\ change' = Resolved
  /\ org' = "APPROVED"
  /\ history' = [history EXCEPT !.approved = @ + 1]
  /\ Done(r)

Reject(r) ==
  /\ review[r] = "reject"
  /\ kyc # "REJECTED"
  /\ kyc' = "REJECTED"
  /\ change' = Resolved
  /\ org' = "REJECTED"
  /\ Done(r)
  /\ UNCHANGED history

RequestChanges(r) ==
  /\ review[r] = "requestChanges"
  /\ kyc # "APPROVED"
  /\ kyc' = "CHANGES_REQUESTED"
  /\ change' = "open"
  /\ org' = "PENDING"
  /\ Done(r)
  /\ UNCHANGED history

\* Another request was faster, or the documents were incomplete.
Refuse(r) ==
  /\ review[r] # "idle"
  /\ Done(r)
  /\ UNCHANGED <<kyc, change, org, history>>

Next ==
  \E r \in Requests :
    \/ \E op \in Ops : Start(r, op)
    \/ Submit(r) \/ Approve(r) \/ Reject(r) \/ RequestChanges(r) \/ Refuse(r)

Spec == Init /\ [][Next]_vars

-----------------------------------------------------------------------------
(* Properties *)

Told(s) ==
  [NOT_SUBMITTED |-> "PENDING", SUBMITTED |-> "UNDER_REVIEW", CHANGES_REQUESTED |-> "PENDING",
   APPROVED |-> "APPROVED", REJECTED |-> "REJECTED"][s]

\* However reviewers and the customer overlap, every approval answers a
\* submission of its own, the organization's status is the one of its KYC, and
\* a change request is open exactly while the customer has to act on it.
KycTellsOneStory ==
  /\ history.approved <= history.submitted
  /\ org = Told(kyc)
  /\ change = "open" <=> kyc = "CHANGES_REQUESTED"
=============================================================================
