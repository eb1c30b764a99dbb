----------------------------- MODULE SupportTickets -----------------------------
(***************************************************************************)
(* One support ticket: its requester and the agents reply to it, agents    *)
(* move it, and a reply or a move can open it again.  Every handler reads  *)
(* the ticket and then compares the status in the update, so a status that *)
(* came back meanwhile is taken for the one that was read, and what is     *)
(* written beside it may be old.                                           *)
(***************************************************************************)
EXTENDS Integers

CONSTANTS
  Requests,         \* concurrently running requests
  Agents,           \* support agents
  MaxResolutions,   \* bound: how often the ticket is resolved or closed
  NoAgent

VARIABLES
  ticket,   \* the support_tickets row
  clock,    \* resolutions and closings so far: the times that are written
  reply     \* requests in progress

vars == <<ticket, clock, reply>>

Status == {"OPEN", "IN_PROGRESS", "WAITING_CUSTOMER", "RESOLVED", "CLOSED"}

\* AGENT_TRANSITIONS.
Transitions == [s \in Status |->
  CASE s = "OPEN" -> {"IN_PROGRESS", "WAITING_CUSTOMER", "RESOLVED", "CLOSED"}
    [] s = "IN_PROGRESS" -> {"WAITING_CUSTOMER", "RESOLVED", "CLOSED"}
    [] s = "WAITING_CUSTOMER" -> {"IN_PROGRESS", "RESOLVED", "CLOSED"}
    [] s = "RESOLVED" -> {"IN_PROGRESS", "CLOSED"}
    [] s = "CLOSED" -> {"IN_PROGRESS"}]

\* The statuses after a reply; nobody replies to a closed ticket.
StatusAfterRequesterReply(s) ==
  IF s \in {"RESOLVED", "WAITING_CUSTOMER"} THEN "IN_PROGRESS" ELSE s
StatusAfterAgentReply(s) ==
  CASE s = "OPEN" -> "IN_PROGRESS" [] s = "RESOLVED" -> s [] OTHER -> "WAITING_CUSTOMER"

Times == 0 .. MaxResolutions    \* 0 is null
Ticket == [status : Status, resolvedAt : Times, closedAt : Times,
           assignedTo : Agents \cup {NoAgent}]
Opened == [status |-> "OPEN", resolvedAt |-> 0, closedAt |-> 0, assignedTo |-> NoAgent]

\* A request in progress: what it read, the status it writes, and the agent
\* it assigns the ticket to (NoAgent: it leaves the assignment alone).
Idle == [at |-> "idle", read |-> Opened, to |-> "OPEN", agent |-> NoAgent]

\* create.
Init ==
  /\ ticket = Opened
  /\ clock = 0
  /\ reply = [r \in Requests |-> Idle]

TypeOK ==
  /\ ticket \in Ticket /\ clock \in Times
  /\ \A r \in Requests :
       /\ reply[r].at \in {"idle", "replyMine", "replyAdmin", "updateAdmin"}
       /\ reply[r].read \in Ticket /\ reply[r].to \in Status
       /\ reply[r].agent \in Agents \cup {NoAgent}

Read(r, at, to, agent) ==
  /\ reply[r].at = "idle"
  /\ reply' = [reply EXCEPT ![r] = [at |-> at, read |-> ticket, to |-> to, agent |-> agent]]
  /\ UNCHANGED <<ticket, clock>>

\* replyMine, replyAdmin and updateAdmin: the reads.  An agent who replies
\* takes a ticket nobody has; one who moves it takes it or names another.
ReplyMineRead(r) ==
  /\ ticket.status # "CLOSED"
  /\ Read(r, "replyMine", StatusAfterRequesterReply(ticket.status), NoAgent)

ReplyAdminRead(r, agent) ==
  /\ ticket.status # "CLOSED"
  /\ Read(r, "replyAdmin", StatusAfterAgentReply(ticket.status),
          IF ticket.assignedTo = NoAgent THEN agent ELSE NoAgent)

UpdateAdminRead(r, to, agent, named) ==
  /\ to \in Transitions[ticket.status] \cup {ticket.status}
  /\ Read(r, "updateAdmin", to,
          IF named \/ ticket.assignedTo = NoAgent THEN agent ELSE ticket.assignedTo)

\* Mutant: the update does not compare the status.
Unmoved_Any(r) == TRUE

\* The update compares the status with the one that was read.
Unmoved(r) == ticket.status = reply[r].read.status

\* What the update writes beside the status.  A ticket that leaves RESOLVED or
\* CLOSED loses its times, also one that goes from RESOLVED to CLOSED: the
\* fields of a closing are written first, and then those of a reopening.
Reopens(c) == c.to # c.read.status /\ c.read.status \in {"RESOLVED", "CLOSED"}

ResolvedAt(c, now) ==
  IF c.at = "replyAdmin" THEN ticket.resolvedAt
  ELSE IF Reopens(c) THEN 0
  ELSE IF c.at = "updateAdmin" /\ c.to = "RESOLVED" THEN now
  ELSE IF c.at = "updateAdmin" /\ c.to = "CLOSED"
       THEN IF c.read.resolvedAt = 0 THEN now ELSE c.read.resolvedAt
  ELSE ticket.resolvedAt

ClosedAt(c, now) ==
  IF c.at # "updateAdmin" THEN ticket.closedAt
  ELSE IF Reopens(c) THEN 0
  ELSE IF c.to = "CLOSED" THEN now ELSE ticket.closedAt

Commit(r) ==
  LET c == reply[r]
      ends == c.at = "updateAdmin" /\ c.to \in {"RESOLVED", "CLOSED"}
      now == IF ends THEN clock + 1 ELSE clock
  IN  /\ c.at # "idle"
      /\ Unmoved(r)
      /\ now <= MaxResolutions
      /\ clock' = now
      /\ ticket' = [status |-> c.to, resolvedAt |-> ResolvedAt(c, now), closedAt |-> ClosedAt(c, now),
                    assignedTo |-> IF c.agent = NoAgent THEN ticket.assignedTo ELSE c.agent]
      /\ reply' = [reply EXCEPT ![r] = Idle]

\* STALE_TICKET_MESSAGE.
Stale(r) ==
  /\ reply[r].at # "idle" /\ ~Unmoved(r)
  /\ reply' = [reply EXCEPT ![r] = Idle]
  /\ UNCHANGED <<ticket, clock>>

Next ==
  \E r \in Requests :
    \/ ReplyMineRead(r)
    \/ \E agent \in Agents : ReplyAdminRead(r, agent)
    \/ \E to \in Status, agent \in Agents, named \in BOOLEAN : UpdateAdminRead(r, to, agent, named)
    \/ Commit(r) \/ Stale(r)

Spec == Init /\ [][Next]_vars

-----------------------------------------------------------------------------
(* Properties *)

\* However replies and moves race, the times of the ticket belong to its
\* status: a ticket that was opened again shows no time of a resolution it has
\* no more, a resolved one shows its own, and a closed one shows both in their
\* order, or none when it was resolved before it was closed.
TimesAgree ==
  /\ ticket.resolvedAt # 0 => ticket.status \in {"RESOLVED", "CLOSED"}
  /\ ticket.status = "RESOLVED" => ticket.resolvedAt # 0
  /\ ticket.closedAt # 0 => ticket.status = "CLOSED" /\ ticket.resolvedAt # 0
  /\ ticket.closedAt # 0 => ticket.resolvedAt <= ticket.closedAt
=============================================================================
