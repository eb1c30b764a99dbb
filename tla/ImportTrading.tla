----------------------------- MODULE ImportTrading -----------------------------
(***************************************************************************)
(* The listings of import trade, the negotiations opened on them and the   *)
(* deals they end in.                                                      *)
(*                                                                         *)
(* A handler checks what it read before its transaction; the transaction   *)
(* locks the negotiation, the listing it was opened on or the deal with    *)
(* SELECT ... FOR UPDATE and checks again.  The status of a listing is     *)
(* moved along by reading it without a lock and writing it by id: a step   *)
(* for the read and one for the write, which waits for the row.  A         *)
(* transaction's writes show when it commits.  Every lock is kept to its   *)
(* end, and the database ends one of two transactions that wait for each   *)
(* other.                                                                  *)
(***************************************************************************)
EXTENDS Integers, Sequences, FiniteSets, SequencesExt

CONSTANTS
  Sells, Buys,    \* listings of the two sides
  Negotiations,
  Primary,        \* per negotiation: the listing it is opened on
  Counterpart,    \* per negotiation: the opener's own listing linked to it, or NoListing
  Opener,         \* per negotiation: the organisation that opens it
  Requests,       \* concurrently running requests
  MaxRounds,      \* MAX_ROUNDS: offers after which none is accepted (30 in the code)
  Kinds,          \* bound: the handlers an instance runs
  NoListing, NoNegotiation

Listings == Sells \cup Buys

TradeConstants ==
  /\ Primary \in [Negotiations -> Listings]
  /\ Counterpart \in [Negotiations -> Listings \cup {NoListing}]
  /\ NoListing \notin Listings

VARIABLES
  listing,   \* import_listings.status
  gone,      \* listings with deletedAt
  neg,       \* import_negotiations: status, last_actor_party, round_count, overdue
  deal,      \* the deal of each negotiation: status, confirmations, agreed offer
  req        \* requests in progress

vars == <<listing, gone, neg, deal, req>>

tradeVars == <<listing, gone, neg, deal>>

Open == {"PUBLISHED", "MATCHING", "OFFER_RECEIVED", "NEGOTIATION"}
ListingStatus == Open \cup {"DRAFT", "MATCHED", "DEAL_CONFIRMED", "PAUSED", "EXPIRED", "CANCELLED"}
NegotiationStatus == {"NONE", "OPEN", "AGREED", "REJECTED", "WITHDRAWN", "EXPIRED", "CANCELLED"}
DealStatus == {"NONE", "PENDING_CONFIRMATION", "CONFIRMED", "CANCELLED"}
Parties == {"OPENER", "OWNER"}
Other(party) == IF party = "OPENER" THEN "OWNER" ELSE "OPENER"

AllKinds == {"OPEN", "COUNTER", "ACCEPT", "REJECT", "WITHDRAW", "LAPSE", "CONFIRM",
             "CANCEL_DEAL", "CANCELLED", "EXPIRED", "SWEEP", "PAUSE", "MATCH", "PUBLISH", "REMOVE"}

Negotiation(status, last, round, overdue) ==
  [status |-> status, last |-> last, round |-> round, overdue |-> overdue]
NotOpened == Negotiation("NONE", "OPENER", 0, FALSE)

Deal(status, confirmed, round, by) ==
  [status |-> status, confirmed |-> confirmed, round |-> round, by |-> by]
NoDeal == Deal("NONE", {}, 0, "OPENER")

\* A request: the rows it has locked, the listings it still moves along, the
\* status it read of the first, those it moved, and negotiations to be closed.
Request(at, kind, n, l, party, rows, todo, seen, wrote, closing) ==
  [at |-> at, kind |-> kind, n |-> n, l |-> l, party |-> party, rows |-> rows,
   todo |-> todo, seen |-> seen, wrote |-> wrote, closing |-> closing]
Idle == Request("idle", "OPEN", NoNegotiation, NoListing, "OPENER", {}, <<>>, "PUBLISHED", {}, {})

\* The request c holds rows: it may close negotiations, or moves listings along.
Locked(c, at, rows, closing) ==
  Request(at, c.kind, c.n, c.l, c.party, rows, <<>>, "PUBLISHED", {}, closing)
Moving(c, rows, todo, seen, wrote) ==
  Request("moving", c.kind, c.n, c.l, c.party, rows, todo, seen, wrote, {})

Init ==
  /\ listing = [l \in Listings |-> IF "PUBLISH" \in Kinds THEN "DRAFT" ELSE "PUBLISHED"]
  /\ gone = {}
  /\ neg = [n \in Negotiations |-> NotOpened]
  /\ deal = [n \in Negotiations |-> NoDeal]
  /\ req = [r \in Requests |-> Idle]

TypeOK ==
  /\ listing \in [Listings -> ListingStatus] /\ gone \subseteq Listings
  /\ \A n \in Negotiations :
       /\ neg[n].status \in NegotiationStatus /\ neg[n].last \in Parties
       /\ neg[n].round \in Nat /\ neg[n].overdue \in BOOLEAN
       /\ deal[n].status \in DealStatus /\ deal[n].confirmed \subseteq Parties
  /\ \A r \in Requests :
       /\ req[r].at \in {"idle", "held", "inside", "moving", "ending"}
       /\ req[r].kind \in AllKinds

-----------------------------------------------------------------------------
(* Rows, locks, requests *)

L(l) == <<"listing", l>>
N(n) == <<"negotiation", n>>
D(n) == <<"deal", n>>
Free(r, row) == \A q \in Requests \ {r} : row \notin req[q].rows

\* The listings of a negotiation, the buy listing first.
ListingsOf(n) ==
  IF Counterpart[n] = NoListing THEN <<Primary[n]>>
  ELSE IF Primary[n] \in Buys THEN <<Primary[n], Counterpart[n]>>
  ELSE <<Counterpart[n], Primary[n]>>

Hold(r, kind, n, l, party) ==
  /\ kind \in Kinds
  /\ req[r].at = "idle"
  /\ req' = [req EXCEPT ![r] =
                Request("held", kind, n, l, party, {}, <<>>, "PUBLISHED", {}, {})]
  /\ UNCHANGED tradeVars

Held(r, kind) == req[r].at = "held" /\ req[r].kind = kind
Done(r) == req' = [req EXCEPT ![r] = Idle]

\* The transaction finds what it refuses.
Refuse(r) == Done(r) /\ UNCHANGED tradeVars

\* Where advanceStatus and canTransition move a listing to.
Target(kind) == CASE kind = "COUNTER" -> "NEGOTIATION"
                  [] kind = "ACCEPT" -> "MATCHED"
                  [] kind = "CONFIRM" -> "DEAL_CONFIRMED"
                  [] kind = "CANCEL_DEAL" -> "NEGOTIATION"
Moves(kind, seen) == CASE kind = "COUNTER" -> seen \in Open \ {"NEGOTIATION"}
                       [] kind = "ACCEPT" -> seen \in Open
                       [] kind = "CONFIRM" -> seen = "MATCHED"
                       [] kind = "CANCEL_DEAL" -> seen = "MATCHED"

\* The transaction has locked rows, and reads the first listing it moves.
StartMoving(r, rows) ==
  LET todo == ListingsOf(req[r].n)
  IN  req' = [req EXCEPT ![r] = Moving(@, @.rows \cup rows, todo, listing[todo[1]], {})]

\* bumpListing writes by id, so it waits for the row; then the next is read.
Move(r) ==
  LET l == req[r].todo[1]
      rest == Tail(req[r].todo)
      moves == Moves(req[r].kind, req[r].seen)
  IN  /\ req[r].at = "moving" /\ req[r].todo # <<>>
      /\ moves => Free(r, L(l))
      /\ req' = [req EXCEPT ![r] =
                    Moving(@, @.rows \cup IF moves THEN {L(l)} ELSE {}, rest,
                           IF rest = <<>> THEN @.seen ELSE listing[rest[1]],
                           @.wrote \cup IF moves THEN {l} ELSE {})]
      /\ UNCHANGED tradeVars

\* All listings are moved: the transaction commits.
Commits(r, kind) ==
  /\ req[r].at = "moving" /\ req[r].kind = kind /\ req[r].todo = <<>>
  /\ listing' = [l \in Listings |-> IF l \in req[r].wrote THEN Target(kind) ELSE listing[l]]
  /\ Done(r)
  /\ UNCHANGED gone

-----------------------------------------------------------------------------
(* Negotiations *)

\* The unique indexes: one open negotiation for a listing and an organisation
\* of the other side.
Clash(n, m) ==
  /\ neg[m].status = "OPEN"
  /\ \/ Primary[m] = Primary[n] /\ Opener[m] = Opener[n]
     \/ Counterpart[n] # NoListing /\ Counterpart[m] = Counterpart[n]

\* open: both listings are live ...
OpenRead(r, n) ==
  /\ neg[n].status = "NONE"
  /\ \A i \in DOMAIN ListingsOf(n) : listing[ListingsOf(n)[i]] \in Open
  /\ gone \cap Range(ListingsOf(n)) = {}
  /\ Hold(r, "OPEN", n, Primary[n], "OPENER")

\* ... and its transaction locks the primary one.
OpenCommit(r) ==
  LET n == req[r].n
      l == Primary[n]
  IN  /\ Held(r, "OPEN")
      /\ Free(r, L(l))
      /\ neg[n].status = "NONE"
      /\ \A m \in Negotiations : ~Clash(n, m)
      /\ neg' = [neg EXCEPT ![n] = Negotiation("OPEN", "OPENER", 1, FALSE)]
      /\ listing' = IF listing[l] \in {"PUBLISHED", "MATCHING"}
                    THEN [listing EXCEPT ![l] = "OFFER_RECEIVED"] ELSE listing
      /\ Done(r)
      /\ UNCHANGED <<gone, deal>>

OpenRefused(r) ==
  /\ Held(r, "OPEN")
  /\ neg[req[r].n].status # "NONE" \/ \E m \in Negotiations : Clash(req[r].n, m)
  /\ Refuse(r)

MyTurn(n, party) == neg[n].status = "OPEN" /\ neg[n].last # party

\* counter and accept: the checks before the transaction, which close an
\* overdue negotiation instead.
CounterRead(r, n, party) ==
  /\ MyTurn(n, party) /\ ~neg[n].overdue
  /\ neg[n].round < MaxRounds
  /\ Hold(r, "COUNTER", n, Primary[n], party)

\* Mutant: the lock is taken, but nothing is checked again.
CounterBegin_Unchecked(r) ==
  /\ Held(r, "COUNTER")
  /\ Free(r, N(req[r].n))
  /\ StartMoving(r, {N(req[r].n)})
  /\ UNCHANGED tradeVars

CounterBegin(r) ==
  /\ Held(r, "COUNTER")
  /\ Free(r, N(req[r].n))
  /\ MyTurn(req[r].n, req[r].party)
  /\ StartMoving(r, {N(req[r].n)})
  /\ UNCHANGED tradeVars

CounterCommit(r) ==
  /\ Commits(r, "COUNTER")
  /\ neg' = [neg EXCEPT ![req[r].n] = Negotiation(@.status, req[r].party, @.round + 1, FALSE)]
  /\ UNCHANGED deal

AcceptRead(r, n, party) ==
  /\ MyTurn(n, party) /\ ~neg[n].overdue
  /\ listing[Primary[n]] \in Open
  /\ Hold(r, "ACCEPT", n, Primary[n], party)

\* The transaction of accept locks the primary listing ...
AcceptLock(r) ==
  /\ Held(r, "ACCEPT")
  /\ Free(r, L(req[r].l))
  /\ req' = [req EXCEPT ![r] = Locked(@, "inside", {L(@.l)}, {})]
  /\ UNCHANGED tradeVars

\* ... and the negotiation, and checks both.
AcceptBegin(r) ==
  /\ req[r].at = "inside" /\ req[r].kind = "ACCEPT"
  /\ Free(r, N(req[r].n))
  /\ MyTurn(req[r].n, req[r].party)
  /\ listing[req[r].l] \in Open
  /\ StartMoving(r, {N(req[r].n)})
  /\ UNCHANGED tradeVars

\* The deal takes the terms of the last offer, and the accepting party's
\* confirmation.
AcceptCommit(r) ==
  LET n == req[r].n
  IN  /\ Commits(r, "ACCEPT")
      /\ deal' = [deal EXCEPT ![n] =
           Deal("PENDING_CONFIRMATION", {req[r].party}, neg[n].round, neg[n].last)]
      /\ neg' = [neg EXCEPT ![n] = Negotiation("AGREED", req[r].party, @.round, @.overdue)]

TurnRefused(r) ==
  /\ \/ Held(r, "COUNTER")
     \/ req[r].at = "inside" /\ req[r].kind = "ACCEPT"
  /\ Free(r, N(req[r].n))
  /\ \/ ~MyTurn(req[r].n, req[r].party)
     \/ req[r].kind = "ACCEPT" /\ listing[req[r].l] \notin Open
  /\ Refuse(r)

\* reject and withdraw: whose turn it is, is not checked again.
CloseRead(r, n, kind, party) ==
  /\ kind \in {"REJECT", "WITHDRAW"}
  /\ neg[n].status = "OPEN" /\ ~neg[n].overdue
  /\ kind = "REJECT" => neg[n].last # party
  /\ Hold(r, kind, n, Primary[n], party)
Reject(r, n, party) == CloseRead(r, n, "REJECT", party)
Withdraw(r, n, party) == CloseRead(r, n, "WITHDRAW", party)

CloseCommit(r) ==
  LET n == req[r].n
  IN  /\ Held(r, "REJECT") \/ Held(r, "WITHDRAW")
      /\ Free(r, N(n))
      /\ neg[n].status = "OPEN"
      /\ neg' = [neg EXCEPT ![n] =
           Negotiation(IF req[r].kind = "REJECT" THEN "REJECTED" ELSE "WITHDRAWN",
                       req[r].party, @.round, @.overdue)]
      /\ Done(r)
      /\ UNCHANGED <<listing, gone, deal>>

CloseRefused(r) ==
  /\ Held(r, "REJECT") \/ Held(r, "WITHDRAW")
  /\ Free(r, N(req[r].n))
  /\ neg[req[r].n].status # "OPEN"
  /\ Refuse(r)

\* expireNegotiation, of the sweep and of every page that reads the
\* negotiation, checks all with the lock.
ExpireNegotiation(n) ==
  /\ \A r \in Requests : N(n) \notin req[r].rows
  /\ neg[n].status = "OPEN" /\ neg[n].overdue
  /\ neg' = [neg EXCEPT ![n] = Negotiation("EXPIRED", @.last, @.round, @.overdue)]
  /\ UNCHANGED <<listing, gone, deal, req>>

\* expiresAt passes.
Lapse(n) ==
  /\ "LAPSE" \in Kinds
  /\ neg[n].status = "OPEN" /\ ~neg[n].overdue
  /\ neg' = [neg EXCEPT ![n] = Negotiation(@.status, @.last, @.round, TRUE)]
  /\ UNCHANGED <<listing, gone, deal, req>>

-----------------------------------------------------------------------------
(* Deals *)

ConfirmRead(r, n, party) ==
  /\ deal[n].status = "PENDING_CONFIRMATION"
  /\ party \notin deal[n].confirmed
  /\ Hold(r, "CONFIRM", n, Primary[n], party)

\* confirm locks the deal; the second confirmation moves the listings.
ConfirmBegin(r) ==
  LET n == req[r].n
  IN  /\ Held(r, "CONFIRM")
      /\ Free(r, D(n))
      /\ deal[n].status = "PENDING_CONFIRMATION"
      /\ StartMoving(r, {D(n)})
      /\ UNCHANGED tradeVars

ConfirmCommit(r) ==
  /\ Commits(r, "CONFIRM")
  /\ deal' = [deal EXCEPT ![req[r].n] = Deal("CONFIRMED", Parties, @.round, @.by)]
  /\ UNCHANGED neg

\* setDealStatus of the administrator reads the deal and cancels it by id.
CancelDealRead(r, n) ==
  /\ deal[n].status \in {"PENDING_CONFIRMATION", "CONFIRMED"}
  /\ Hold(r, "CANCEL_DEAL", n, Primary[n], "OWNER")

CancelDealBegin(r) ==
  /\ Held(r, "CANCEL_DEAL")
  /\ Free(r, D(req[r].n))
  /\ StartMoving(r, {D(req[r].n)})
  /\ UNCHANGED tradeVars

CancelDealCommit(r) ==
  /\ Commits(r, "CANCEL_DEAL")
  /\ deal' = [deal EXCEPT ![req[r].n] = Deal("CANCELLED", @.confirmed, @.round, @.by)]
  /\ UNCHANGED neg

ConfirmRefused(r) ==
  /\ Held(r, "CONFIRM")
  /\ Free(r, D(req[r].n))
  /\ deal[req[r].n].status # "PENDING_CONFIRMATION"
  /\ Refuse(r)

-----------------------------------------------------------------------------
(* The end of a listing *)

\* The sweep, and the owner's page, find an overdue listing.
SweepRead(r, l) ==
  /\ listing[l] \in Open \cup {"PAUSED"} /\ l \notin gone
  /\ Hold(r, "SWEEP", NoNegotiation, l, "OWNER")

\* cancel and expire of the owner and the administrator start at once: what
\* they check before is checked again.
EndRead(r, l, kind) ==
  /\ l \notin gone
  /\ Hold(r, kind, NoNegotiation, l, "OWNER")
CancelListing(r, l) == EndRead(r, l, "CANCELLED")
ExpireListing(r, l) == EndRead(r, l, "EXPIRED")

MayEnd(kind, status) ==
  CASE kind = "CANCELLED" -> status \notin {"EXPIRED", "CANCELLED"}
    [] kind = "EXPIRED" -> status \in Open \cup {"PAUSED"}
    [] kind = "SWEEP" -> status \in Open \cup {"DRAFT", "PAUSED", "MATCHED"}

\* The open negotiations of a listing.
OpenOf(l) == {n \in Negotiations : neg[n].status = "OPEN" /\ l \in {Primary[n], Counterpart[n]}}

\* Mutant: the listing is not locked.
EndBegin_Unlocked(r) ==
  /\ req[r].at = "held" /\ req[r].kind \in {"CANCELLED", "EXPIRED", "SWEEP"}
  /\ MayEnd(req[r].kind, listing[req[r].l]) /\ req[r].l \notin gone
  /\ req' = [req EXCEPT ![r] = Locked(@, "ending", {}, OpenOf(@.l))]
  /\ UNCHANGED tradeVars

\* endListing locks the listing and looks for its open negotiations ...
EndBegin(r) ==
  LET l == req[r].l
  IN  /\ req[r].at = "held" /\ req[r].kind \in {"CANCELLED", "EXPIRED", "SWEEP"}
      /\ Free(r, L(l))
      /\ MayEnd(req[r].kind, listing[l]) /\ l \notin gone
      /\ req' = [req EXCEPT ![r] = Locked(@, "ending", {L(l)}, OpenOf(l))]
      /\ UNCHANGED tradeVars

EndRefused(r) ==
  /\ req[r].at = "held" /\ req[r].kind \in {"CANCELLED", "EXPIRED", "SWEEP"}
  /\ Free(r, L(req[r].l))
  /\ ~MayEnd(req[r].kind, listing[req[r].l]) \/ req[r].l \in gone
  /\ Refuse(r)

\* ... locks one after the other ...
EndLock(r, n) ==
  /\ req[r].at = "ending"
  /\ n \in req[r].closing /\ N(n) \notin req[r].rows
  /\ Free(r, N(n))
  /\ req' = [req EXCEPT ![r] = Locked(@, "ending", @.rows \cup {N(n)}, @.closing)]
  /\ UNCHANGED tradeVars

\* ... and closes them, whatever they are by then.
EndCommit(r) ==
  LET target == IF req[r].kind = "CANCELLED" THEN "CANCELLED" ELSE "EXPIRED"
  IN  /\ req[r].at = "ending"
      /\ \A n \in req[r].closing : N(n) \in req[r].rows
      /\ listing' = [listing EXCEPT ![req[r].l] = target]
      /\ neg' = [n \in Negotiations |-> IF n \in req[r].closing
                   THEN Negotiation(target, neg[n].last, neg[n].round, neg[n].overdue)
                   ELSE neg[n]]
      /\ Done(r)
      /\ UNCHANGED <<gone, deal>>

\* Moves that compare the status they read in the update: the owner's ...
Switch(kind, l, from, to) ==
  /\ kind \in Kinds
  /\ listing[l] \in from
  /\ \A r \in Requests : L(l) \notin req[r].rows
  /\ listing' = [listing EXCEPT ![l] = to]
  /\ UNCHANGED <<gone, neg, deal, req>>

Pause(l) == l \notin gone /\ Switch("PAUSE", l, Open, "PAUSED")
Resume(l) == l \notin gone /\ Switch("PAUSE", l, {"PAUSED"}, "PUBLISHED")
Publish(l) == l \notin gone /\ Switch("PUBLISH", l, {"DRAFT"}, "PUBLISHED")

\* ... and that of recomputeForListing, which found matches.
Matched(l) == Switch("MATCH", l, {"PUBLISHED"}, "MATCHING")

\* remove reads a draft and deletes the row by id.
RemoveRead(r, l) ==
  /\ listing[l] = "DRAFT" /\ l \notin gone
  /\ Hold(r, "REMOVE", NoNegotiation, l, "OWNER")

RemoveCommit(r) ==
  /\ Held(r, "REMOVE")
  /\ Free(r, L(req[r].l))
  /\ gone' = gone \cup {req[r].l}
  /\ Done(r)
  /\ UNCHANGED <<listing, neg, deal>>

-----------------------------------------------------------------------------
\* The row a transaction waits for.
Wants(r) ==
  CASE req[r].at = "moving" -> IF req[r].todo # <<>> /\ Moves(req[r].kind, req[r].seen)
                               THEN {L(req[r].todo[1])} ELSE {}
    [] req[r].at = "inside" -> {N(req[r].n)}
    [] req[r].at = "ending" -> {N(n) : n \in req[r].closing} \ req[r].rows
    [] OTHER -> {}

\* PostgreSQL ends one of two transactions that wait for each other.
DeadlockEnds(r) ==
  /\ \E q \in Requests \ {r} : /\ Wants(r) \cap req[q].rows # {}
                               /\ Wants(q) \cap req[r].rows # {}
  /\ Refuse(r)

Next ==
  \/ \E r \in Requests :
       \/ \E n \in Negotiations :
            \/ OpenRead(r, n) \/ CancelDealRead(r, n) \/ EndLock(r, n)
            \/ \E party \in Parties :
                 \/ CounterRead(r, n, party) \/ AcceptRead(r, n, party)
                 \/ ConfirmRead(r, n, party)
                 \/ Reject(r, n, party) \/ Withdraw(r, n, party)
       \/ \E l \in Listings :
            \/ SweepRead(r, l) \/ RemoveRead(r, l)
            \/ CancelListing(r, l) \/ ExpireListing(r, l)
       \/ OpenCommit(r) \/ OpenRefused(r)
       \/ CounterBegin(r) \/ CounterCommit(r)
       \/ AcceptLock(r) \/ AcceptBegin(r) \/ AcceptCommit(r) \/ TurnRefused(r)
       \/ CloseCommit(r) \/ CloseRefused(r)
       \/ ConfirmBegin(r) \/ ConfirmCommit(r) \/ ConfirmRefused(r)
       \/ CancelDealBegin(r) \/ CancelDealCommit(r)
       \/ EndBegin(r) \/ EndRefused(r) \/ EndCommit(r)
       \/ RemoveCommit(r)
       \/ Move(r)
       \/ DeadlockEnds(r)
  \/ \E n \in Negotiations : Lapse(n) \/ ExpireNegotiation(n)
  \/ \E l \in Listings : Publish(l) \/ Pause(l) \/ Resume(l) \/ Matched(l)

Spec == Init /\ [][Next]_vars

-----------------------------------------------------------------------------
(* Properties *)

\* The deal of a negotiation has the terms of its last offer, and one party
\* made that offer and the other accepted it: no counter offer slips in
\* between an acceptance and its deal, or comes after it.
DealIsTheLastOffer ==
  \A n \in Negotiations : deal[n].status # "NONE" =>
    /\ deal[n].round = neg[n].round
    /\ deal[n].confirmed # {deal[n].by}

AgreedStep ==
  \A n \in Negotiations :
    (neg[n].status = "AGREED" /\ Counterpart[n] = NoListing) => neg'[n].status = "AGREED"

\* A negotiation without a linked listing that ended in a deal stays agreed,
\* although the end of its listing closes negotiations without checking them:
\* endListing locks the listing before it looks for them, and accept moves the
\* same listing.
AgreedStaysAgreed == [][AgreedStep]_vars

\* A negotiation as a bargain of its two parties: closed in whatever way it is
\* ended, and nobody has to answer any more.
Stage(n) == CASE neg[n].status \in {"NONE", "OPEN", "AGREED"} -> neg[n].status
              [] OTHER -> "ENDED"
Turn(n) == IF neg[n].status = "OPEN" THEN Other(neg[n].last) ELSE "NOBODY"
Bargains ==
  [n \in Negotiations |->
     [stage |-> Stage(n), offers |-> neg[n].round, turn |-> Turn(n), deal |-> deal[n]]]

Bargained == INSTANCE Bargain WITH
  Severable <- {n \in Negotiations : Counterpart[n] # NoListing}, bargain <- Bargains

\* The negotiations keep what Bargain promises: agreed once, by the party whose
\* turn it was, on terms that never change; not taken back unless a listing is
\* linked; and a cancelled deal is never confirmed, although the administrator
\* cancels it by id (setDealStatus).
BargainsKept == Bargained!Spec

\* A listing has one deal at a time: "This listing already has an agreed
\* deal." (accept).
OneDealAListing ==
  \A n, m \in Negotiations :
    (n # m /\ Primary[n] = Primary[m] /\ deal[n].status \in {"PENDING_CONFIRMATION", "CONFIRMED"})
      => deal[m].status \in {"NONE", "CANCELLED"}
=============================================================================
