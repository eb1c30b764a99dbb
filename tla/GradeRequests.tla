------------------------------ MODULE GradeRequests ------------------------------
(***************************************************************************)
(* Requests for a grade the catalogue does not have: a customer or a       *)
(* seller submits one, administrators review it, ask for information, link *)
(* a catalogue grade or create one, and convert, reject or close it.  The  *)
(* requests modelled name one grade and manufacturer, so the rule of one   *)
(* open request per requester is about all of them.                        *)
(*                                                                         *)
(* A handler reads the row; its transaction compares the status in the     *)
(* update and writes the row and one event of its timeline.  A status can  *)
(* come back between the two, and creating the grade is a transaction of   *)
(* its own before them.                                                    *)
(***************************************************************************)
EXTENDS Integers, Sequences, FiniteSets

CONSTANTS
  Rows,          \* ids of new_grade_requests rows
  Requests,      \* concurrently running requests
  Admins,        \* administrators
  Keys,          \* idempotency keys
  Catalogue,     \* grades of the catalogue
  NewGrades,     \* grades that can be created
  MaxDocuments,  \* MAX_GRADE_REQUEST_DOCUMENTS
  MaxEvents,     \* bound: status events of one request
  NoAdmin, NoKey, NoGrade, NoRow

VARIABLES
  row,      \* the rows
  story,    \* the status events of each row's timeline
  docs,     \* documents attached to each row
  grades,   \* grades created for requests
  call      \* requests in progress

vars == <<row, story, docs, grades, call>>

Sides == {"CUSTOMER", "SELLER"}
Open == {"SUBMITTED", "UNDER_REVIEW", "INFO_REQUIRED", "GRADE_IDENTIFIED", "QUOTATION_AVAILABLE"}
Status == Open \cup {"NONE", "CONVERTED_TO_PR", "REJECTED", "CLOSED"}

\* GRADE_REQUEST_TRANSITIONS.
Transitions == [s \in Status |->
  CASE s = "SUBMITTED" -> {"UNDER_REVIEW", "INFO_REQUIRED", "GRADE_IDENTIFIED", "REJECTED", "CLOSED"}
    [] s = "UNDER_REVIEW" -> {"INFO_REQUIRED", "GRADE_IDENTIFIED", "QUOTATION_AVAILABLE",
                              "REJECTED", "CLOSED"}
    [] s = "INFO_REQUIRED" -> {"UNDER_REVIEW", "REJECTED", "CLOSED"}
    [] s = "GRADE_IDENTIFIED" -> {"UNDER_REVIEW", "QUOTATION_AVAILABLE", "CONVERTED_TO_PR", "CLOSED"}
    [] s = "QUOTATION_AVAILABLE" -> {"UNDER_REVIEW", "CONVERTED_TO_PR", "CLOSED"}
    [] OTHER -> {}]
\* ADMIN_DIRECT_STATUSES.
Direct == {"UNDER_REVIEW", "QUOTATION_AVAILABLE", "CONVERTED_TO_PR", "REJECTED", "CLOSED"}
Resolvable == {"SUBMITTED", "UNDER_REVIEW", "GRADE_IDENTIFIED"}

Entry(status, side, key, grade, assigned) ==
  [status |-> status, side |-> side, key |-> key, grade |-> grade, assigned |-> assigned]
NoRequest == Entry("NONE", "CUSTOMER", NoKey, NoGrade, NoAdmin)

\* A request in progress: the row it is about, what it read of it, and what
\* it is going to write.
Call(at, g, read, to, grade, admin) ==
  [at |-> at, g |-> g, read |-> read, to |-> to, grade |-> grade, admin |-> admin]
Idle == Call("idle", NoRow, NoRequest, "NONE", NoGrade, NoAdmin)

Init ==
  /\ row = [g \in Rows |-> NoRequest]
  /\ story = [g \in Rows |-> <<>>]
  /\ docs = [g \in Rows |-> 0]
  /\ grades = {}
  /\ call = [r \in Requests |-> Idle]

GradeRow ==
  [status : Status, side : Sides, key : Keys \cup {NoKey}, assigned : Admins \cup {NoAdmin},
   grade : Catalogue \cup NewGrades \cup {NoGrade}]

TypeOK ==
  /\ \A g \in Rows : row[g] \in GradeRow
  /\ \A g \in Rows : /\ DOMAIN story[g] \subseteq 1 .. MaxEvents
                     /\ \A i \in DOMAIN story[g] : {story[g][i].from, story[g][i].to} \subseteq Status
  /\ docs \in [Rows -> Nat]
  /\ grades \subseteq NewGrades
  /\ \A r \in Requests :
       /\ call[r].at \in {"idle", "creating", "moving", "attaching", "making", "resolving"}
       /\ call[r].g \in Rows \cup {NoRow} /\ call[r].read \in GradeRow
       /\ call[r].to \in Status /\ call[r].admin \in Admins \cup {NoAdmin}
       /\ call[r].grade \in Catalogue \cup NewGrades \cup {NoGrade}

-----------------------------------------------------------------------------
(* Submitting *)

Existing == {g \in Rows : row[g].status # "NONE"}
KeyUsed(key) == key # NoKey /\ \E g \in Existing : row[g].key = key

\* create: the look-ups.  A used key returns the request made with it.
CreateRead(r, side, key) ==
  /\ call[r].at = "idle"
  /\ ~KeyUsed(key)
  /\ ~\E g \in Existing : row[g].side = side /\ row[g].status \in Open
  /\ call' = [call EXCEPT ![r] =
                Call("creating", NoRow, Entry("NONE", side, key, NoGrade, NoAdmin), "NONE",
                     NoGrade, NoAdmin)]
  /\ UNCHANGED <<row, story, docs, grades>>

CustomerCreates(r, key) == CreateRead(r, "CUSTOMER", key)
SellerCreates(r, key) == CreateRead(r, "SELLER", key)

Finish(r) == call' = [call EXCEPT ![r] = Idle]

\* ... and the insertion: the key is unique, the open request is not.
CreateCommit(r) ==
  /\ call[r].at = "creating"
  /\ ~KeyUsed(call[r].read.key)
  /\ \E g \in Rows \ Existing :
       /\ row' = [row EXCEPT ![g] = Entry("SUBMITTED", call[r].read.side, call[r].read.key,
                                           NoGrade, NoAdmin)]
       /\ story' = [story EXCEPT ![g] = <<[from |-> "NONE", to |-> "SUBMITTED"]>>]
  /\ Finish(r)
  /\ UNCHANGED <<docs, grades>>

CreateFail(r) ==
  /\ call[r].at = "creating"
  /\ KeyUsed(call[r].read.key)
  /\ Finish(r)
  /\ UNCHANGED <<row, story, docs, grades>>

-----------------------------------------------------------------------------
(* Moves of the status *)

\* Every handler below starts with the row it reads.
Read(r, at, g, to, grade, admin) ==
  /\ call[r].at = "idle"
  /\ Len(story[g]) < MaxEvents
  /\ call' = [call EXCEPT ![r] = Call(at, g, row[g], to, grade, admin)]
  /\ UNCHANGED <<row, story, docs, grades>>

\* respond: the answer to a request for information.
Respond(r, g, side) ==
  /\ row[g].side = side /\ row[g].status = "INFO_REQUIRED"
  /\ Read(r, "moving", g, "UNDER_REVIEW", NoGrade, NoAdmin)
CustomerResponds(r, g) == Respond(r, g, "CUSTOMER")
SellerResponds(r, g) == Respond(r, g, "SELLER")

\* cancel.
Cancel(r, g, side) ==
  /\ row[g].side = side /\ "CLOSED" \in Transitions[row[g].status]
  /\ Read(r, "moving", g, "CLOSED", NoGrade, NoAdmin)
CustomerCancels(r, g) == Cancel(r, g, "CUSTOMER")
SellerCancels(r, g) == Cancel(r, g, "SELLER")

\* changeStatus: a conversion needs the grade.
ChangeStatus(r, g, to, admin) ==
  /\ to \in Direct \cap Transitions[row[g].status]
  /\ to = "CONVERTED_TO_PR" => row[g].grade # NoGrade
  /\ Read(r, "moving", g, to, NoGrade, admin)

\* requestInfo.
RequestInfo(r, g, admin) ==
  /\ "INFO_REQUIRED" \in Transitions[row[g].status]
  /\ Read(r, "moving", g, "INFO_REQUIRED", NoGrade, admin)

\* mapGrade: an existing grade.
MapGrade(r, g, grade, admin) ==
  /\ row[g].status \in Resolvable
  /\ Read(r, "resolving", g, "GRADE_IDENTIFIED", grade, admin)

\* createGrade: the request must not have a grade yet ...
CreateGrade(r, g, admin) ==
  /\ row[g].status \in Resolvable
  /\ row[g].grade = NoGrade
  /\ Read(r, "making", g, "GRADE_IDENTIFIED", NoGrade, admin)

\* ... the new grade is committed on its own, and is linked after that.
MakeGrade(r) ==
  /\ call[r].at = "making"
  /\ \E n \in NewGrades \ grades :
       /\ grades' = grades \cup {n}
       /\ call' = [call EXCEPT ![r] = Call("resolving", @.g, @.read, @.to, n, @.admin)]
  /\ UNCHANGED <<row, story, docs>>

\* Mutant: the update does not compare the status.
Unmoved_Any(r) == TRUE

\* The update compares the status with the one that was read.
Unmoved(r) == row[call[r].g].status = call[r].read.status

\* The first administrator who works on a request is assigned to it.
Assignee(c) == IF c.read.assigned # NoAdmin THEN c.read.assigned ELSE c.admin

\* The transaction of respond, cancel, applyTransition and resolve.
Commit(r) ==
  LET c == call[r]
      g == c.g
  IN  /\ c.at \in {"moving", "resolving"}
      /\ Unmoved(r)
      /\ Len(story[g]) < MaxEvents
      /\ row' = [row EXCEPT ![g] =
                   Entry(c.to, @.side, @.key, IF c.at = "resolving" THEN c.grade ELSE @.grade,
                         IF c.admin # NoAdmin THEN Assignee(c) ELSE @.assigned)]
      /\ story' = [story EXCEPT ![g] = Append(@, [from |-> c.read.status, to |-> c.to])]
      /\ Finish(r)
      /\ UNCHANGED <<docs, grades>>

\* "Request was updated by someone else": a grade made for it stays.
Conflict(r) ==
  /\ call[r].at \in {"moving", "resolving"}
  /\ ~Unmoved(r)
  /\ Finish(r)
  /\ UNCHANGED <<row, story, docs, grades>>

\* assign: whoever the request was assigned to by then.
Assign(r, g, admin) ==
  /\ call[r].at = "idle"
  /\ row[g].status \in Open
  /\ row' = [row EXCEPT ![g] = Entry(@.status, @.side, @.key, @.grade, admin)]
  /\ UNCHANGED <<story, docs, grades, call>>

-----------------------------------------------------------------------------
(* Documents *)

\* createDocument: the status and the number of documents are looked up ...
AttachRead(r, g, side) ==
  /\ call[r].at = "idle"
  /\ row[g].side = side /\ row[g].status \in Open
  /\ docs[g] < MaxDocuments
  /\ call' = [call EXCEPT ![r] = Call("attaching", g, NoRequest, "NONE", NoGrade, NoAdmin)]
  /\ UNCHANGED <<row, story, docs, grades>>
CustomerAttaches(r, g) == AttachRead(r, g, "CUSTOMER")
SellerAttaches(r, g) == AttachRead(r, g, "SELLER")

\* ... and the document is inserted.
AttachCommit(r) ==
  /\ call[r].at = "attaching"
  /\ docs' = [docs EXCEPT ![call[r].g] = @ + 1]
  /\ Finish(r)
  /\ UNCHANGED <<row, story, grades>>

Next ==
  \E r \in Requests :
    \/ \E key \in Keys \cup {NoKey} : CustomerCreates(r, key) \/ SellerCreates(r, key)
    \/ CreateCommit(r) \/ CreateFail(r)
    \/ \E g \in Rows :
         \/ CustomerResponds(r, g) \/ SellerResponds(r, g)
         \/ CustomerCancels(r, g) \/ SellerCancels(r, g)
         \/ CustomerAttaches(r, g) \/ SellerAttaches(r, g)
         \/ \E admin \in Admins :
              \/ \E to \in Direct : ChangeStatus(r, g, to, admin)
              \/ RequestInfo(r, g, admin)
              \/ \E grade \in Catalogue : MapGrade(r, g, grade, admin)
              \/ CreateGrade(r, g, admin)
              \/ Assign(r, g, admin)
    \/ MakeGrade(r) \/ Commit(r) \/ Conflict(r) \/ AttachCommit(r)

Spec == Init /\ [][Next]_vars

-----------------------------------------------------------------------------
(* Properties *)

\* However administrators, customers and sellers race, a request's timeline
\* tells one story: each event starts where the one before ended, nothing
\* follows a rejection, a closing or a conversion, and the story ends in the
\* row's status.  A request that was identified or converted has its grade.
OneTimeline ==
  \A g \in Rows :
    LET told(i) == IF i = 0 THEN "NONE" ELSE story[g][i].to
    IN  /\ \A i \in DOMAIN story[g] :
             /\ story[g][i].from = told(i - 1)
             /\ i > 1 => story[g][i].to \in Transitions[told(i - 1)] \cup ({told(i - 1)} \cap Resolvable)
        /\ row[g].status = told(Len(story[g]))
        /\ row[g].status \in {"GRADE_IDENTIFIED", "CONVERTED_TO_PR"} => row[g].grade # NoGrade
=============================================================================
