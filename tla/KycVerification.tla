---------------------------- MODULE KycVerification ----------------------------
(***************************************************************************)
(* The verification of one identifier kind (PAN or GSTIN) of one customer  *)
(* or seller by an external provider.  A row is VERIFYING while the        *)
(* provider is asked; a partial unique index lets an owner have one such   *)
(* row.  A server process can end at any time and leave the row behind:    *)
(* an attempt that finds it three request timeouts old abandons it.        *)
(*                                                                         *)
(* A process asks through the adapter it is configured with.  Surepass's   *)
(* ends a post, the reading of its answer included, within one timeout,    *)
(* and repeats it at most once, after a failure that is not a timeout.     *)
(* The generic adapter posts once, and its timeout ends when the headers   *)
(* of the answer are there: the body is read without one.  A row's age is  *)
(* counted in timeouts; what the server does around the posts takes less   *)
(* than one in all.                                                        *)
(***************************************************************************)
EXTENDS Integers, Sequences

CONSTANTS
  Processes,     \* server processes
  Requests,      \* concurrently running requests
  Identifiers,   \* identifiers the owner enters
  Adapters,      \* adapters a process may be configured with: "surepass", "http"
  MaxRows,       \* bound: kyc_verifications rows of the owner
  NoIdentifier, NoProcess

VARIABLES
  rows,      \* kyc_verifications, in the order of their creation
  org,       \* the identifier on the organization's record
  verifier,  \* requests in progress
  adapter    \* the adapter of each process

vars == <<rows, org, verifier, adapter>>

Status == {"VERIFYING", "VERIFIED", "FAILED", "MANUAL_REVIEW"}
Abandoned == 3      \* timeouts after which a row is taken for a crashed request's
Ids == Identifiers \cup {NoIdentifier}

Row == [status : Status, id : Identifiers, age : 0 .. Abandoned, left : BOOLEAN]
Entry(status, id, age, left) == [status |-> status, id |-> id, age |-> age, left |-> left]

\* A request: its process, identifier, row (0: none yet; that of another
\* request while it abandons it), the posts it has sent, whether it came to read
\* an answer without a timeout, and the provider's outcome.
Request(at, proc, id, row, posts, body, outcome) ==
  [at |-> at, proc |-> proc, id |-> id, row |-> row, posts |-> posts, body |-> body,
   outcome |-> outcome]
Starting(at, proc, id) == Request(at, proc, id, 0, 0, FALSE, "VERIFYING")
Idle == Starting("idle", NoProcess, NoIdentifier)

Init ==
  /\ rows = <<>>
  /\ org = NoIdentifier
  /\ verifier = [r \in Requests |-> Idle]
  /\ adapter \in [Processes -> Adapters]

TypeOK ==
  /\ Len(rows) <= MaxRows /\ \A i \in DOMAIN rows : rows[i] \in Row
  /\ org \in Ids
  /\ \A r \in Requests :
       /\ verifier[r].at \in {"idle", "abandon", "create", "provider", "update", "apply"}
       /\ verifier[r].proc \in Processes \cup {NoProcess} /\ verifier[r].id \in Ids
       /\ verifier[r].row \in 0 .. MaxRows /\ verifier[r].posts \in 0 .. 2
       /\ verifier[r].body \in BOOLEAN /\ verifier[r].outcome \in Status
  /\ adapter \in [Processes -> Adapters]

Set(r, c) == verifier' = [verifier EXCEPT ![r] = c]
Verifying == {i \in DOMAIN rows : rows[i].status = "VERIFYING"}
Latest == rows[Len(rows)]
Asks(r) == verifier[r].at \in {"provider", "update"}

\* verify: a pending call of the process for the identifier is shared.
Inflight(p, id) ==
  \E r \in Requests : verifier[r].at \notin {"idle", "apply"} /\ verifier[r].proc = p /\ verifier[r].id = id

\* Mutant: the slack of a third timeout is not waited for.
Stale_TwoTimeouts(row) == row.status = "VERIFYING" /\ row.age >= 2

\* The row was left behind by a request that is no more.
Stale(row) == row.status = "VERIFYING" /\ row.age >= Abandoned

\* reusableResult finds nothing to wait for or to reuse.  How recent a
\* VERIFIED row has to be is left open.
MayCreate == IF rows = <<>> THEN TRUE ELSE Latest.status # "VERIFYING"

Verify(r, p, id) ==
  /\ verifier[r].at = "idle"
  /\ ~Inflight(p, id)
  /\ MayCreate
  /\ Set(r, Starting("create", p, id))
  /\ UNCHANGED <<rows, org, adapter>>

\* A recent VERIFIED row of the identifier is the answer.
Reuse(r, p, id) ==
  /\ verifier[r].at = "idle"
  /\ ~Inflight(p, id)
  /\ rows # <<>> /\ Latest.status = "VERIFIED" /\ Latest.id = id
  /\ Set(r, Starting("apply", p, id))
  /\ UNCHANGED <<rows, org, adapter>>

\* The latest row is read as one that was left behind.
FindStale(r, p, id) ==
  /\ verifier[r].at = "idle"
  /\ ~Inflight(p, id)
  /\ rows # <<>> /\ Stale(Latest)
  /\ Set(r, Request("abandon", p, id, Len(rows), 0, FALSE, "VERIFYING"))
  /\ UNCHANGED <<rows, org, adapter>>

\* It is FAILED, whatever it has become; `left' remembers that.
Abandon(r) ==
  LET c == verifier[r]
  IN  /\ c.at = "abandon"
      /\ rows' = [rows EXCEPT ![c.row] = Entry("FAILED", @.id, @.age, TRUE)]
      /\ Set(r, Starting("create", c.proc, c.id))
      /\ UNCHANGED <<org, adapter>>

\* The insertion, and the first post to the provider.
Create(r) ==
  /\ verifier[r].at = "create"
  /\ Verifying = {}
  /\ Len(rows) < MaxRows
  /\ rows' = Append(rows, Entry("VERIFYING", verifier[r].id, 0, FALSE))
  /\ Set(r, Request("provider", verifier[r].proc, verifier[r].id, Len(rows) + 1, 1, FALSE,
                    "VERIFYING"))
  /\ UNCHANGED <<org, adapter>>

\* The unique index: "verification is already in progress".
CreateFail(r) ==
  /\ verifier[r].at = "create"
  /\ Verifying # {}
  /\ Set(r, Idle)
  /\ UNCHANGED <<rows, org, adapter>>

Asking(r, posts, body) ==
  Set(r, Request("provider", verifier[r].proc, verifier[r].id, verifier[r].row, posts, body,
                 "VERIFYING"))

\* Mutant: every failure is followed by another post.
Retry_Always(r) ==
  /\ verifier[r].at = "provider" /\ adapter[verifier[r].proc] = "surepass"
  /\ Asking(r, verifier[r].posts + 1, FALSE)
  /\ UNCHANGED <<rows, org, adapter>>

\* Surepass: a network failure or a transient status, and the second post.
Retry(r) ==
  /\ verifier[r].at = "provider" /\ adapter[verifier[r].proc] = "surepass"
  /\ verifier[r].posts = 1
  /\ Asking(r, 2, FALSE)
  /\ UNCHANGED <<rows, org, adapter>>

\* The generic adapter: the headers are there, and the timer is cleared.
Headers(r) ==
  /\ verifier[r].at = "provider" /\ adapter[verifier[r].proc] = "http"
  /\ ~verifier[r].body
  /\ Asking(r, verifier[r].posts, TRUE)
  /\ UNCHANGED <<rows, org, adapter>>

\* The outcome: an answer, or MANUAL_REVIEW when there is none.  The generic
\* adapter takes no answer without reading it.
Outcome(r, status) ==
  LET c == verifier[r]
  IN  /\ c.at = "provider"
      /\ adapter[c.proc] = "http" => c.body \/ status = "MANUAL_REVIEW"
      /\ Set(r, Request("update", c.proc, c.id, c.row, c.posts, c.body, status))
      /\ UNCHANGED <<rows, org, adapter>>

\* The row takes the outcome, whatever it has become.
Update(r) ==
  LET c == verifier[r]
  IN  /\ c.at = "update"
      /\ rows' = [rows EXCEPT ![c.row] = Entry(c.outcome, @.id, @.age, @.left)]
      /\ Set(r, IF c.outcome = "FAILED" THEN Idle
                ELSE Starting("apply", c.proc, c.id))
      /\ UNCHANGED <<org, adapter>>

\* applyToOrganization: an accepted identifier goes on the record.
Apply(r) ==
  /\ verifier[r].at = "apply"
  /\ org' = verifier[r].id
  /\ Set(r, Idle)
  /\ UNCHANGED <<rows, adapter>>

\* A process ends; its requests and its pending calls are gone.  It may be
\* started again with the other adapter.
Crash(p) ==
  /\ \E r \in Requests : verifier[r].proc = p
  /\ verifier' = [r \in Requests |-> IF verifier[r].proc = p THEN Idle ELSE verifier[r]]
  /\ \E a \in Adapters : adapter' = [adapter EXCEPT ![p] = a]
  /\ UNCHANGED <<rows, org>>

\* Time passes for a row, as far as the timeouts of its request let it.
Age(i) ==
  /\ rows[i].status = "VERIFYING" /\ rows[i].age < Abandoned
  /\ \A r \in Requests :
       Asks(r) /\ verifier[r].row = i /\ ~verifier[r].body => rows[i].age < verifier[r].posts
  /\ rows' = [rows EXCEPT ![i] = Entry(@.status, @.id, @.age + 1, @.left)]
  /\ UNCHANGED <<org, verifier, adapter>>

Next ==
  \/ \E r \in Requests :
       \/ \E p \in Processes, id \in Identifiers : Verify(r, p, id) \/ Reuse(r, p, id) \/ FindStale(r, p, id)
       \/ Abandon(r) \/ Create(r) \/ CreateFail(r) \/ Retry(r) \/ Headers(r)
       \/ \E status \in Status \ {"VERIFYING"} : Outcome(r, status)
       \/ Update(r) \/ Apply(r)
  \/ \E p \in Processes : Crash(p)
  \/ \E i \in DOMAIN rows : Age(i)

Spec == Init /\ [][Next]_vars

-----------------------------------------------------------------------------
(* Properties *)

\* Through crashes, retries and slow providers, an owner has two provider calls
\* at a time only when the row of one of them was taken for abandoned, and a row
\* is taken for abandoned while its request is still there only when that
\* request reads an answer, or has read it, through the generic adapter: the
\* call that has no timeout left.
OneProviderCall ==
  /\ \A r, q \in Requests :
       Asks(r) /\ Asks(q) /\ r # q => rows[verifier[r].row].left \/ rows[verifier[q].row].left
  /\ \A r \in Requests :
       Asks(r) /\ rows[verifier[r].row].left
         => verifier[r].body /\ adapter[verifier[r].proc] = "http"

\* Where every process asks through Surepass, an owner never has two provider
\* calls at a time, and every row that is taken for abandoned is of a request
\* that is no more: the allowance of two timeouts and a slack of
\* reusableResult is enough for it.
SurepassAsksOnce ==
  \A r, q \in Requests :
    Asks(r) => ~rows[verifier[r].row].left /\ (Asks(q) => r = q)
=============================================================================
