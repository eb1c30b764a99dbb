------------------------------ MODULE Procurement ------------------------------
(***************************************************************************)
(* One purchase request from its creation to its purchase order: its row,  *)
(* the match rows that put it into sellers' inboxes, the counter offers of *)
(* the negotiation, and the order that an acceptance creates.              *)
(*                                                                         *)
(* Handlers read the request, often outside their transaction, and decide  *)
(* on what they read; every transaction that writes updates the request's  *)
(* row and so holds its lock to the commit.  A handler is therefore one    *)
(* step for each read and one for its writes with the commit.  Nothing is  *)
(* shared between two purchase requests.                                   *)
(***************************************************************************)
EXTENDS Integers, Sequences, FiniteSets

CONSTANTS
  Sellers,      \* organisations that can sell what is requested
  Customer,     \* the side of the customer, administrators included
  Requests,     \* concurrently running requests
  MaxCounters   \* bound: counter offers of the negotiation

ASSUME CustomerAssumption == Customer \notin Sellers /\ Sellers # {}
ASSUME CountersAssumption == MaxCounters \in Nat

VARIABLES
  status,    \* purchase_requests.status
  seller,    \* purchase_requests.seller_org_id, set at creation
  terms,     \* purchase_requests.commercial_snapshot
  match,     \* per seller: status of its match row
  counters,  \* the counter offers, in the order they were inserted
  orders,    \* the purchase orders of the request
  late,      \* the response deadline has passed
  worker,    \* where PrSourcingWorker is
  req        \* requests in progress

vars == <<status, seller, terms, match, counters, orders, late, worker, req>>

\* SUBMITTED, UNDER_REVIEW, APPROVED and WITHDRAWN are never written.
Pending == {"SOURCING", "OFFER_RECEIVED", "NEGOTIATION"}
Terminal == {"REJECTED", "EXPIRED", "CANCELLED", "CONVERTED_TO_ORDER"}

\* "NONE": the seller has no row.  "MATCHED" stands for VIEWED too.
Open == {"MATCHED", "COUNTER_OFFERED"}
Closed == {"ACCEPTED", "REJECTED", "REMOVED", "EXPIRED"}

\* The terms of an order are those of a counter offer, or of the request (0).
Actor == Sellers \cup {Customer}
Terms == 0 .. MaxCounters
Counter == [by : Actor, round : Nat,
            status : {"PENDING", "ACCEPTED", "REJECTED", "SUPERSEDED", "EXPIRED"}]
PurchaseOrder == [seller : Sellers, terms : Terms]
Kind == {"ACCEPT", "REJECT", "COUNTER", "RESPOND", "CANCEL", "EXPIRE"}
Request == [at : {"idle", "locked", "propose", "commit"},
            kind : Kind, by : Actor, seller : Actor, status : Pending,
            latest : Terms, round : Nat]

Idle == [at |-> "idle", kind |-> "CANCEL", by |-> Customer,
         seller |-> Customer, status |-> "SOURCING",
         latest |-> 0, round |-> 0]

\* Created from a quote or a cart, and matched to no, one or many sellers.
Init ==
  /\ status = "SOURCING"
  /\ seller \in Sellers
  /\ terms = 0
  /\ match \in [Sellers -> {"NONE", "MATCHED"}]
  /\ counters = <<>>
  /\ orders = <<>>
  /\ late = FALSE
  /\ worker = "idle"
  /\ req = [r \in Requests |-> Idle]

-----------------------------------------------------------------------------
(* Reads *)

\* ALLOWED in PrStateService, for the statuses that are written.
MayBecome(from, to) ==
  from \in Pending /\ (to = "OFFER_RECEIVED" => from # "NEGOTIATION")

\* The pending counter offer with the highest round; the order of two in the
\* same round is that of their transactions' start times, hence open.  0: none.
PendingCounters == {c \in DOMAIN counters : counters[c].status = "PENDING"}
Latest ==
  IF PendingCounters = {} THEN {0}
  ELSE {c \in PendingCounters :
          \A d \in PendingCounters : counters[d].round <= counters[c].round}

\* The highest round so far, as a set of one.
HighestRound ==
  {n \in {0} \cup {counters[c].round : c \in DOMAIN counters} :
     \A c \in DOMAIN counters : counters[c].round <= n}

\* The blind inbox: a match row that was not removed, or no row at all for
\* anyone and the request assigned to this seller.
Visible(s) ==
  \/ match[s] \notin {"NONE", "REMOVED"}
  \/ seller = s /\ \A t \in Sellers : match[t] = "NONE"

Done(r) == req' = [req EXCEPT ![r] = Idle]

\* A request that keeps nothing of the row it read, and one that does.
Start(r, at, kind, by) ==
  req' = [req EXCEPT ![r] =
            [at |-> at, kind |-> kind, by |-> by, seller |-> Idle.seller,
             status |-> Idle.status, latest |-> 0, round |-> 0]]
Hold(r, at, kind, by, latest) ==
  req' = [req EXCEPT ![r] =
            [at |-> at, kind |-> kind, by |-> by, seller |-> seller,
             status |-> status, latest |-> latest, round |-> 0]]

\* loadOwned and the checks of respond before its transaction.
RespondOpen(r, s, kind) ==
  /\ req[r].at = "idle"
  /\ Visible(s)
  /\ status \in Pending
  /\ ~late
  /\ Start(r, "locked", kind, s)
  /\ UNCHANGED <<status, seller, terms, match, counters, orders, late, worker>>

\* The checks of each answer, on the row read in the transaction.
MayAnswer(kind, latest) ==
  \/ kind = "ACCEPT" /\ status # "NEGOTIATION"
  \/ kind = "ACCEPT" /\ latest # 0 /\ counters[latest].by = Customer
  \/ kind = "REJECT" /\ MayBecome(status, "REJECTED")
  \/ kind = "COUNTER" /\ MayBecome(status, "NEGOTIATION")
  \/ kind = "RESPOND" /\ MayBecome(status, "OFFER_RECEIVED")

\* The read of `locked` in respond's transaction.
RespondRead(r) ==
  /\ req[r].at = "locked"
  /\ status \in Pending
  /\ ~late
  /\ \E latest \in Latest :
       /\ MayAnswer(req[r].kind, latest)
       /\ Hold(r, IF req[r].kind = "COUNTER" THEN "propose" ELSE "commit",
               req[r].kind, req[r].by, latest)
  /\ UNCHANGED <<status, seller, terms, match, counters, orders, late, worker>>

\* acceptCounter, rejectCounter and counter of the customer: the request is
\* read before the transaction.  Reading one that is due expires it (Expire).
CustomerRead(r, kind) ==
  /\ req[r].at = "idle"
  /\ ~late
  /\ \/ /\ kind \in {"ACCEPT", "REJECT"}
        /\ status = "NEGOTIATION"
        /\ \E latest \in Latest \ {0} :
             /\ counters[latest].by # Customer
             /\ Hold(r, "commit", kind, Customer, latest)
     \/ /\ kind = "COUNTER"
        /\ status \in Pending
        /\ Start(r, "propose", kind, Customer)
  /\ UNCHANGED <<status, seller, terms, match, counters, orders, late, worker>>

\* createCounter looks for the offer to supersede and the next round.
ProposeRead(r) ==
  /\ req[r].at = "propose"
  /\ Len(counters) < MaxCounters
  /\ \E latest \in Latest, top \in HighestRound :
       req' = [req EXCEPT ![r] =
                 [at |-> "commit", kind |-> req[r].kind, by |-> req[r].by,
                  seller |-> req[r].seller, status |-> req[r].status,
                  latest |-> latest, round |-> top + 1]]
  /\ UNCHANGED <<status, seller, terms, match, counters, orders, late, worker>>

\* Mutant: a converted request can be cancelled.
CancelRead_Converted(r) ==
  /\ req[r].at = "idle"
  /\ status \in Pending \cup {"CONVERTED_TO_ORDER"}
  /\ Start(r, "commit", "CANCEL", Customer)
  /\ UNCHANGED <<status, seller, terms, match, counters, orders, late, worker>>

\* cancel of the customer, who cannot read a due request as pending, or of an
\* administrator, who can.
CancelRead(r) ==
  /\ req[r].at = "idle"
  /\ status \in Pending
  /\ Start(r, "commit", "CANCEL", Customer)
  /\ UNCHANGED <<status, seller, terms, match, counters, orders, late, worker>>

\* The read before assertNotExpired and before the expire endpoint's update.
ExpireRead(r) ==
  /\ req[r].at = "idle"
  /\ status \in Pending
  /\ Start(r, "commit", "EXPIRE", Customer)
  /\ UNCHANGED <<status, seller, terms, match, counters, orders, late, worker>>

-----------------------------------------------------------------------------
(* Writes *)

WithStatus(c, st) ==
  [counters EXCEPT ![c] =
     [by |-> counters[c].by, round |-> counters[c].round, status |-> st]]
Answered(c, st) == IF c = 0 THEN counters ELSE WithStatus(c, st)

\* Mutants: the competing rows stay open; rows in any status are marked.
MarkedAccepted_OwnRow(s) ==
  [t \in Sellers |-> IF t = s /\ match[t] \in Open THEN "ACCEPTED" ELSE match[t]]

MarkedAccepted_AnyStatus(s) ==
  [t \in Sellers |-> IF match[t] = "NONE" THEN "NONE"
                     ELSE IF t = s THEN "ACCEPTED" ELSE "REMOVED"]

\* markSellerAccepted, markSellerRejected, markSellerCountered
MarkedAccepted(s) ==
  [t \in Sellers |-> IF match[t] \notin Open THEN match[t]
                     ELSE IF t = s THEN "ACCEPTED" ELSE "REMOVED"]
Marked(s, st) ==
  IF match[s] \in Open THEN [match EXCEPT ![s] = st] ELSE match

\* Mutant: an acceptance does not look for the order of an earlier one.
HasOrder_Never == FALSE

\* createFromAcceptedPr
HasOrder == Len(orders) > 0
OrderFor(s, c) ==
  orders' = IF HasOrder THEN orders
            ELSE Append(orders, [seller |-> s, terms |-> c])

\* acceptCommercially, deciding on a status read earlier or under the lock.
AcceptCommercially(decidedOn, s, c) ==
  \/ /\ decidedOn = "CONVERTED_TO_ORDER" /\ orders # <<>>
     /\ UNCHANGED <<status, terms, orders>>
  \/ /\ MayBecome(decidedOn, "CONVERTED_TO_ORDER")
     /\ status' = "CONVERTED_TO_ORDER"
     /\ terms' = c
     /\ OrderFor(s, c)

Committing(r, kind) == req[r].at = "commit" /\ req[r].kind = kind

\* Mutant: acceptCommercially decides on the row read before the lock.
SellerAccept_RowRead(r) ==
  LET s == req[r].by
      c == IF req[r].status = "NEGOTIATION" THEN req[r].latest ELSE 0 IN
  /\ Committing(r, "ACCEPT") /\ s # Customer
  /\ seller' = s
  /\ match' = MarkedAccepted(s)
  /\ counters' = Answered(c, "ACCEPTED")
  /\ AcceptCommercially(req[r].status, s, c)
  /\ Done(r)
  /\ UNCHANGED <<late, worker>>

\* respond ACCEPT.  The update that assigns the seller returns the row as it
\* is under the lock, and acceptCommercially decides on that row: a converted
\* request keeps its order, any other closed one rolls everything back.
SellerAccept(r) ==
  LET s == req[r].by
      c == IF req[r].status = "NEGOTIATION" THEN req[r].latest ELSE 0 IN
  /\ Committing(r, "ACCEPT") /\ s # Customer
  /\ seller' = s
  /\ match' = MarkedAccepted(s)
  /\ counters' = Answered(c, "ACCEPTED")
  /\ AcceptCommercially(status, s, c)
  /\ Done(r)
  /\ UNCHANGED <<late, worker>>

\* Mutants: the order is left to a later job; it goes to the seller of the
\* offer while the request keeps its own.
CustomerAccept_NoOrder(r) ==
  LET c == req[r].latest IN
  /\ Committing(r, "ACCEPT") /\ req[r].by = Customer
  /\ status' = "CONVERTED_TO_ORDER"
  /\ terms' = c
  /\ counters' = Answered(c, "ACCEPTED")
  /\ Done(r)
  /\ UNCHANGED <<seller, match, orders, late, worker>>

CustomerAccept_OrderOnly(r) ==
  LET c == req[r].latest IN
  /\ Committing(r, "ACCEPT") /\ req[r].by = Customer
  /\ AcceptCommercially(req[r].status, counters[c].by, c)
  /\ counters' = Answered(c, "ACCEPTED")
  /\ Done(r)
  /\ UNCHANGED <<seller, match, late, worker>>

\* acceptCounter: acceptCommercially decides on the row read before.
CustomerAccept(r) ==
  LET c == req[r].latest IN
  /\ Committing(r, "ACCEPT") /\ req[r].by = Customer
  /\ AcceptCommercially(req[r].status, seller, c)
  /\ counters' = Answered(c, "ACCEPTED")
  /\ Done(r)
  /\ UNCHANGED <<seller, match, late, worker>>

\* respond REJECT, which also writes back the seller it read.
SellerReject(r) ==
  /\ Committing(r, "REJECT") /\ req[r].by # Customer
  /\ status' = "REJECTED"
  /\ seller' = req[r].seller
  /\ match' = Marked(req[r].by, "REJECTED")
  /\ counters' = Answered(req[r].latest, "REJECTED")
  /\ Done(r)
  /\ UNCHANGED <<terms, orders, late, worker>>

\* rejectCounter
CustomerReject(r) ==
  /\ Committing(r, "REJECT") /\ req[r].by = Customer
  /\ status' = "REJECTED"
  /\ counters' = Answered(req[r].latest, "REJECTED")
  /\ Done(r)
  /\ UNCHANGED <<seller, terms, match, orders, late, worker>>

\* Mutant: the offer before stays pending.
CounterOffer_KeepsPrevious(r) ==
  /\ Committing(r, "COUNTER")
  /\ Len(counters) < MaxCounters
  /\ status' = "NEGOTIATION"
  /\ counters' = Append(counters, [by |-> req[r].by, round |-> req[r].round,
                                   status |-> "PENDING"])
  /\ UNCHANGED <<seller, match>>
  /\ Done(r)
  /\ UNCHANGED <<terms, orders, late, worker>>

\* respond COUNTER_OFFER and the customer's counter
CounterOffer(r) ==
  LET s == req[r].by IN
  /\ Committing(r, "COUNTER")
  /\ Len(counters) < MaxCounters
  /\ status' = "NEGOTIATION"
  /\ counters' = Append(Answered(req[r].latest, "SUPERSEDED"),
                        [by |-> s, round |-> req[r].round, status |-> "PENDING"])
  /\ IF s = Customer
     THEN UNCHANGED <<seller, match>>
     ELSE seller' = req[r].seller /\ match' = Marked(s, "COUNTER_OFFERED")
  /\ Done(r)
  /\ UNCHANGED <<terms, orders, late, worker>>

\* respond RESPOND
SoftResponse(r) ==
  /\ Committing(r, "RESPOND")
  /\ status' = "OFFER_RECEIVED"
  /\ seller' = req[r].seller
  /\ Done(r)
  /\ UNCHANGED <<terms, match, counters, orders, late, worker>>

\* cancel, on both sides
Cancel(r) ==
  /\ Committing(r, "CANCEL")
  /\ status' = "CANCELLED"
  /\ Done(r)
  /\ UNCHANGED <<seller, terms, match, counters, orders, late, worker>>

\* assertNotExpired and the expire endpoint
ExpireRequest(r) ==
  /\ Committing(r, "EXPIRE")
  /\ late
  /\ status' = "EXPIRED"
  /\ Done(r)
  /\ UNCHANGED <<seller, terms, match, counters, orders, late, worker>>

\* Any request may be refused, fail or roll back before it commits.
Abort(r) ==
  /\ req[r].at # "idle"
  /\ Done(r)
  /\ UNCHANGED <<status, seller, terms, match, counters, orders, late, worker>>

-----------------------------------------------------------------------------
(* Time, reads that expire, and PrSourcingWorker *)

Lapse ==
  /\ ~late
  /\ late' = TRUE
  /\ UNCHANGED <<status, seller, terms, match, counters, orders, worker, req>>

\* markExpiredIfNeeded, on every read of the customer
ExpireOnRead ==
  /\ late /\ status \in Pending
  /\ status' = "EXPIRED"
  /\ UNCHANGED <<seller, terms, match, counters, orders, late, worker, req>>

\* Mutant: the sweep takes only requests no seller has answered.
Due_NotNegotiated == late /\ status = "SOURCING"

Due == late /\ status \in Pending

\* expireDuePurchaseRequests: the request, then its matches.
SweepRequest ==
  /\ worker = "idle"
  /\ Due
  /\ status' = "EXPIRED"
  /\ worker' = "sweeping"
  /\ UNCHANGED <<seller, terms, match, counters, orders, late, req>>

SweepMatches ==
  /\ worker = "sweeping"
  /\ match' = [s \in Sellers |->
                 IF match[s] \in Open THEN "EXPIRED" ELSE match[s]]
  /\ worker' = "idle"
  /\ UNCHANGED <<status, seller, terms, counters, orders, late, req>>

\* expireDueCounterOffers, for an offer that has a validity
SweepCounter(c) ==
  /\ counters[c].status = "PENDING"
  /\ counters' = WithStatus(c, "EXPIRED")
  /\ UNCHANGED <<status, seller, terms, match, orders, late, worker, req>>

\* assignUnmatchedPurchaseRequests: the read of the candidates, then
\* createSellerMatches for the offer of the request.
AssignRead ==
  /\ worker = "idle"
  /\ status = "SOURCING" /\ ~late
  /\ \A s \in Sellers : match[s] = "NONE"
  /\ worker' = "assigning"
  /\ UNCHANGED <<status, seller, terms, match, counters, orders, late, req>>

AssignWrite ==
  /\ worker = "assigning"
  /\ match' = [match EXCEPT ![seller] = IF @ = "NONE" THEN "MATCHED" ELSE @]
  /\ worker' = "idle"
  /\ UNCHANGED <<status, seller, terms, counters, orders, late, req>>

\* The process ends and starts again in the middle of a tick.
WorkerRestart ==
  /\ worker # "idle"
  /\ worker' = "idle"
  /\ UNCHANGED <<status, seller, terms, match, counters, orders, late, req>>

-----------------------------------------------------------------------------
SellerKinds == {"ACCEPT", "REJECT", "COUNTER", "RESPOND"}
CustomerKinds == {"ACCEPT", "REJECT", "COUNTER"}

RequestStep(r) ==
  \/ \E s \in Sellers, kind \in SellerKinds : RespondOpen(r, s, kind)
  \/ RespondRead(r)
  \/ \E kind \in CustomerKinds : CustomerRead(r, kind)
  \/ ProposeRead(r)
  \/ CancelRead(r)
  \/ ExpireRead(r)
  \/ SellerAccept(r)
  \/ CustomerAccept(r)
  \/ SellerReject(r)
  \/ CustomerReject(r)
  \/ CounterOffer(r)
  \/ SoftResponse(r)
  \/ Cancel(r)
  \/ ExpireRequest(r)
  \/ Abort(r)

Next ==
  \/ \E r \in Requests : RequestStep(r)
  \/ Lapse
  \/ ExpireOnRead
  \/ SweepRequest
  \/ SweepMatches
  \/ \E c \in DOMAIN counters : SweepCounter(c)
  \/ AssignRead
  \/ AssignWrite
  \/ WorkerRestart

Spec == Init /\ [][Next]_vars

\* The worker's timer: a tick finishes, and a due request is among those of
\* some tick.  No request is ever bound to finish.
FairSpec ==
  /\ Spec
  /\ WF_vars(SweepRequest)
  /\ WF_vars(SweepMatches)
  /\ WF_vars(AssignWrite)

-----------------------------------------------------------------------------
(* Properties *)

\* Every column, counter offer, order and request in progress has its type.
TypeOK ==
  /\ status \in Pending \cup Terminal
  /\ seller \in Sellers
  /\ terms \in Terms
  /\ match \in [Sellers -> {"NONE"} \cup Open \cup Closed]
  /\ counters \in Seq(Counter) /\ Len(counters) <= MaxCounters
  /\ orders \in Seq(PurchaseOrder)
  /\ late \in BOOLEAN
  /\ worker \in {"idle", "sweeping", "assigning"}
  /\ req \in [Requests -> Request]

\* A purchase request yields one order at most, whichever sellers and the
\* customer accept at the same time (createFromAcceptedPr).
OneOrder == Len(orders) <= 1

\* A converted request has its order: acceptCommercially's "already converted
\* but PO missing" cannot happen.
ConvertedHasOrder == status = "CONVERTED_TO_ORDER" => orders # <<>>

\* "Do not resurrect terminal rows": a seller's match that was accepted,
\* rejected, removed or expired keeps that status (createSellerMatches).
ClosedMatchesKept ==
  \A s \in Sellers : match[s] \in Closed => match'[s] = match[s]
MatchesStayClosed == [][ClosedMatchesKept]_vars

\* Two sellers are never both told that they won (markSellerAccepted).
OneWinner ==
  \A s, t \in Sellers : match[s] = "ACCEPTED" /\ match[t] = "ACCEPTED" => s = t

\* A seller's acceptance, of the request as it is or of an offer of the
\* customer, never makes an order of a request that is closed by then
\* (acceptCommercially on the row returned under the lock).
SellersSellOpenRequests ==
  [][\A n \in DOMAIN orders' \ DOMAIN orders :
       orders'[n].terms = 0 \/ counters[orders'[n].terms].by = Customer =>
         status \in Pending]_vars

\* A due request ends closed for good, although requests that read it before
\* the deadline may open it again (expireDuePurchaseRequests).
DueRequestsClose == <>[](late => status \in Terminal)

\* A rejected, cancelled or converted request stays as it is (TERMINAL_STATUSES).
ClosedIsFinal ==
  [][(status \in Terminal \ {"EXPIRED"}) => status' = status]_vars

\* The same for converted requests alone: "Cancel if not terminal".
ConvertedIsFinal ==
  [][(status = "CONVERTED_TO_ORDER") => status' = status]_vars

\* The request names the seller and the terms of its order: "Winning seller
\* becomes the commercial counterparty" (respond, acceptCommercially).
RequestNamesItsOrder ==
  orders # <<>> => seller = orders[1].seller /\ terms = orders[1].terms

\* One offer of the negotiation is pending at a time (createCounter).
OnePendingCounter == Cardinality(PendingCounters) <= 1

\* A seller's offer that the customer accepts becomes an order with that
\* seller (acceptCounter, "Accept pending seller counter").
OffererGetsTheOrder ==
  \A n \in DOMAIN orders :
    LET c == orders[n].terms IN
    c # 0 /\ counters[c].by # Customer => orders[n].seller = counters[c].by

\* Where a seller stands with the request, by the status of its match row.
Standing(row) ==
  CASE row = "NONE" -> "out"
    [] row \in Open -> "invited"
    [] row = "ACCEPTED" -> "won"
    [] row \in Closed \ {"ACCEPTED"} -> "lost"
Places == [s \in Sellers |-> Standing(match[s])]

\* The request is sold once and its order never rewritten, and of the sellers
\* invited one wins at most, never before there is an order, for good: Sale,
\* whichever acceptances, sweeps and refusals run at once (createFromAcceptedPr,
\* markSellerAccepted, createSellerMatches).
Sold == INSTANCE Sale WITH sold <- orders, standing <- Places
SoldOnce == Sold!Spec

\* A seller's request remembers the seller it read; only sellers respond.
SellerKept ==
  \A r \in Requests :
    /\ req[r].kind = "RESPOND" => req[r].by # Customer
    /\ req[r].at = "locked" => req[r].by # Customer
    /\ req[r].by # Customer /\ req[r].at \in {"propose", "commit"} =>
         req[r].seller \in Sellers

\* The inductive invariant behind OneOrder and ConvertedHasOrder.
IInv ==
  /\ TypeOK
  /\ SellerKept
  /\ OneOrder
  /\ ConvertedHasOrder
=============================================================================
