----------------------------- MODULE SellerReview -----------------------------
(***************************************************************************)
(* The review of one seller.  The seller fills in the onboarding and       *)
(* submits it; administrators approve or reject the seller, ask for        *)
(* changes, or suspend the account.  Four rows tell how far it is: the     *)
(* profile, the onboarding, the organization, which the marketplace reads, *)
(* and the change request in the verification's metadata.                  *)
(*                                                                         *)
(* Unlike the review of a customer there is no lock and no second check:   *)
(* each operation decides on rows read before its transaction.  All        *)
(* transactions write the profile's row, or the onboarding's first and     *)
(* then the profile's, before they read or write the others, so they       *)
(* exclude each other and each is one step.                                *)
(*                                                                         *)
(* Whether files and identity checks are complete is left open: a request  *)
(* that finds them incomplete changes nothing (Refuse).                    *)
(***************************************************************************)

CONSTANT Requests    \* concurrently running requests

VARIABLES
  profile,   \* SellerProfile.status
  form,      \* SellerOnboarding.status
  org,       \* the organization's status and verificationStatus
  change,    \* the change request in SellerVerification.metadata
  review     \* requests in progress: the operation, the change request read

vars == <<profile, form, org, change, review>>

ProfileStatus == {"DRAFT", "PENDING_VERIFICATION", "UNDER_REVIEW", "APPROVED", "REJECTED",
                  "SUSPENDED"}
FormStatus == {"DRAFT", "IN_PROGRESS", "SUBMITTED", "APPROVED", "REJECTED"}
Ops == {"save", "submit", "approve", "reject", "requestChanges"}
Change == {"none", "open", "resolved"}
Idle == [op |-> "idle", change |-> "none"]

TypeOK ==
  /\ profile \in ProfileStatus
  /\ form \in FormStatus
  /\ org \in [status : {"DRAFT", "PENDING_VERIFICATION", "ACTIVE", "SUSPENDED", "REJECTED"},
              check : {"PENDING", "UNDER_REVIEW", "APPROVED", "REJECTED"}]
  /\ change \in Change
  /\ review \in [Requests -> [op : Ops \cup {"idle"}, change : Change]]

\* getOrCreateDraftSeller.
Init ==
  /\ profile = "DRAFT"
  /\ form = "DRAFT"
  /\ org = [status |-> "DRAFT", check |-> "PENDING"]
  /\ change = "none"
  /\ review = [r \in Requests |-> Idle]

\* The seller may edit the onboarding.
Editable == form \notin {"SUBMITTED", "APPROVED"}

\* What an operation demands of the rows it reads before it writes.  A request
\* for changes that resets the identity is taken from an approved seller too,
\* and submit does not look at the status at all.
Accepted(op) ==
  /\ op = "save" => Editable
  /\ op = "approve" => profile # "APPROVED"

Start(r, op) ==
  /\ review[r].op = "idle"
  /\ Accepted(op)
  /\ review' = [review EXCEPT ![r] = [op |-> op, change |-> change]]
  /\ UNCHANGED <<profile, form, org, change>>

Done(r) == review' = [review EXCEPT ![r] = Idle]

\* create and update of the onboarding.
Save(r) ==
  /\ review[r].op = "save"
  /\ form' = "IN_PROGRESS"
  /\ Done(r)
  /\ UNCHANGED <<profile, org, change>>

\* Mutant: submit resolves the change request it read before the transaction.
Submit_StaleRequest(r) ==
  /\ review[r].op = "submit"
  /\ form' = "SUBMITTED"
  /\ profile' = "UNDER_REVIEW"
  /\ org' = [status |-> "PENDING_VERIFICATION", check |-> "UNDER_REVIEW"]
  /\ change' = IF review[r].change = "open" THEN "resolved" ELSE change
  /\ Done(r)

\* submit reads the change request under the locks it holds by then.
Submit(r) ==
  /\ review[r].op = "submit"
  /\ form' = "SUBMITTED"
  /\ profile' = "UNDER_REVIEW"
  /\ org' = [status |-> "PENDING_VERIFICATION", check |-> "UNDER_REVIEW"]
  /\ change' = IF change = "open" THEN "resolved" ELSE change
  /\ Done(r)

\* closedChangeRequestMetadata: the whole metadata of the earlier read is
\* written back with its request resolved; without one nothing is written.
Closed(read) == IF read = "none" THEN change ELSE "resolved"

Approve(r) ==
  /\ review[r].op = "approve"
  /\ profile' = "APPROVED"
  /\ form' = "APPROVED"
  /\ org' = [status |-> "ACTIVE", check |-> "APPROVED"]
  /\ change' = Closed(review[r].change)
  /\ Done(r)

Reject(r) ==
  /\ review[r].op = "reject"
  /\ profile' = "REJECTED"
  /\ form' = "REJECTED"
  /\ org' = [status |-> "REJECTED", check |-> "REJECTED"]
  /\ change' = Closed(review[r].change)
  /\ Done(r)

\* The organization keeps its status; the account of a suspended seller stays
\* suspended.
RequestChanges(r) ==
  /\ review[r].op = "requestChanges"
  /\ form' = "IN_PROGRESS"
  /\ profile' = "PENDING_VERIFICATION"
  /\ change' = "open"
  /\ org' = [status |-> org.status, check |-> "PENDING"]
  /\ Done(r)

Suspend ==
  /\ profile' = "SUSPENDED"
  /\ org' = [status |-> "SUSPENDED", check |-> org.check]
  /\ UNCHANGED <<form, change, review>>

\* Something is missing, or the transaction rolls back: submit locks the
\* onboarding before the profile and approve the profile before the
\* onboarding, so PostgreSQL may have to end one of the two.
Refuse(r) ==
  /\ review[r].op # "idle"
  /\ Done(r)
  /\ UNCHANGED <<profile, form, org, change>>

Next ==
  \/ \E r \in Requests :
       \/ \E op \in Ops : Start(r, op)
       \/ Save(r) \/ Submit(r) \/ Approve(r) \/ Reject(r) \/ RequestChanges(r) \/ Refuse(r)
  \/ Suspend

Spec == Init /\ [][Next]_vars

-----------------------------------------------------------------------------
(* Properties *)

\* What the organization shows while the profile has a status.
Shown(s) ==
  [status : IF s = "APPROVED" THEN {"ACTIVE"}
            ELSE IF s = "UNDER_REVIEW" THEN {"PENDING_VERIFICATION"}
            ELSE IF s \in {"REJECTED", "SUSPENDED"} THEN {s}
            ELSE {"DRAFT", "PENDING_VERIFICATION", "ACTIVE", "SUSPENDED", "REJECTED"},
   check : IF s \in {"APPROVED", "UNDER_REVIEW", "REJECTED"} THEN {s}
           ELSE IF s = "SUSPENDED" THEN {"PENDING", "UNDER_REVIEW", "APPROVED", "REJECTED"}
           ELSE {"PENDING"}]

\* The profile that goes with an onboarding somebody submitted or decided.
Decided == [SUBMITTED |-> "UNDER_REVIEW", APPROVED |-> "APPROVED", REJECTED |-> "REJECTED"]

\* However the seller and administrators overlap: a seller under review is
\* never asked for changes at the same time, the marketplace sees the
\* profile's status in the organization, and an onboarding that was submitted
\* or decided belongs to a profile at the same point, unless it is suspended.
\* (The converse fails: a save that read the onboarding earlier writes
\* IN_PROGRESS over SUBMITTED and APPROVED.)
SellerTellsOneStory ==
  /\ profile = "UNDER_REVIEW" => change # "open"
  /\ org \in Shown(profile)
  /\ form \in DOMAIN Decided => profile \in {Decided[form], "SUSPENDED"}
=============================================================================
