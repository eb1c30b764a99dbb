--------------------------- MODULE Procurement_proofs ---------------------------
(* Proofs about Procurement, for any number of sellers, concurrent requests *)
(* and counter offers.                                                      *)
EXTENDS Procurement, FiniteSetTheorems, TLAPS

Matches == [Sellers -> {"NONE"} \cup Open \cup Closed]

\* A request that ends or moves on keeps requests typed and remembers.
LEMMA IdleFacts ==
  /\ Idle \in Request /\ Idle.at = "idle" /\ Idle.kind = "CANCEL"
  /\ Idle.by = Customer /\ Idle.seller \in Actor /\ Idle.status \in Pending
BY CountersAssumption DEF Idle, Request, Actor, Kind, Pending, Terms

LEMMA MoveFacts ==
  ASSUME req \in [Requests -> Request], SellerKept, NEW r \in Requests,
         NEW row \in Request, req' = [req EXCEPT ![r] = row],
         row.kind = "RESPOND" => row.by # Customer,
         row.at = "locked" => row.by # Customer,
         row.by # Customer /\ row.at \in {"propose", "commit"} =>
           row.seller \in Sellers
  PROVE  req' \in [Requests -> Request] /\ SellerKept'
<1>1. req'[r] = row /\ \A q \in Requests \ {r} : req'[q] = req[q]
  OBVIOUS
<1>2. req' \in [Requests -> Request]
  OBVIOUS
<1> QED BY <1>1, <1>2 DEF SellerKept

LEMMA DoneFacts ==
  ASSUME req \in [Requests -> Request], SellerKept, NEW r \in Requests, Done(r)
  PROVE  req' \in [Requests -> Request] /\ SellerKept'
<1> HIDE DEF Request, Idle
<1> QED BY IdleFacts, MoveFacts DEF Done

-----------------------------------------------------------------------------
(* What the operators that write do *)

\* Marking rows keeps them rows, and no closed row changes.
LEMMA MarkedFacts ==
  ASSUME match \in Matches, NEW s \in Sellers
  PROVE  /\ MarkedAccepted(s) \in Matches
         /\ \A t \in Sellers : match[t] \in Closed => MarkedAccepted(s)[t] = match[t]
         /\ \A st \in Open \cup Closed :
              /\ Marked(s, st) \in Matches
              /\ \A t \in Sellers : match[t] \in Closed => Marked(s, st)[t] = match[t]
<1>1. Open \cap Closed = {}
  BY DEF Open, Closed
<1>2. MarkedAccepted(s) \in Matches
  BY DEF MarkedAccepted, Matches, Open, Closed
<1>3. \A t \in Sellers : match[t] \in Closed => MarkedAccepted(s)[t] = match[t]
  BY <1>1 DEF MarkedAccepted
<1>4. ASSUME NEW st \in Open \cup Closed
      PROVE  /\ Marked(s, st) \in Matches
             /\ \A t \in Sellers : match[t] \in Closed => Marked(s, st)[t] = match[t]
  BY <1>1 DEF Marked, Matches
<1> QED BY <1>2, <1>3, <1>4

\* acceptCommercially leaves one order behind a converted request.
LEMMA AcceptFacts ==
  ASSUME IInv, NEW decidedOn, NEW s \in Sellers, NEW c \in Terms,
         AcceptCommercially(decidedOn, s, c)
  PROVE  /\ orders' \in Seq(PurchaseOrder) /\ Len(orders') <= 1
         /\ status' = "CONVERTED_TO_ORDER" => orders' # <<>>
<1>1. orders \in Seq(PurchaseOrder) /\ Len(orders) <= 1
  BY DEF IInv, TypeOK, OneOrder
<1>2. CASE UNCHANGED <<status, terms, orders>>
  BY <1>1, <1>2 DEF IInv, ConvertedHasOrder
<1>3. CASE OrderFor(s, c)
  <2>1. [seller |-> s, terms |-> c] \in PurchaseOrder
    BY DEF PurchaseOrder
  <2>2. CASE Len(orders) > 0
    <3>1. orders' = orders
      BY <1>3, <2>2 DEF OrderFor, HasOrder
    <3> QED BY <1>1, <2>2, <3>1
  <2>3. CASE ~(Len(orders) > 0)
    <3>1. orders' = Append(orders, [seller |-> s, terms |-> c]) /\ Len(orders) = 0
      BY <1>1, <1>3, <2>3 DEF OrderFor, HasOrder
    <3>2. orders' \in Seq(PurchaseOrder) /\ Len(orders') = 1
      BY <1>1, <2>1, <3>1
    <3>3. orders' # <<>>
      BY <3>1
    <3> QED BY <3>2, <3>3
  <2> QED BY <2>2, <2>3
<1> QED BY <1>2, <1>3 DEF AcceptCommercially

\* Answering a counter offer keeps the sequence of counter offers one.
LEMMA AnsweredFacts ==
  ASSUME counters \in Seq(Counter), NEW c \in Nat,
         NEW st \in {"PENDING", "ACCEPTED", "REJECTED", "SUPERSEDED", "EXPIRED"}
  PROVE  /\ Answered(c, st) \in Seq(Counter)
         /\ Len(Answered(c, st)) = Len(counters)
         /\ WithStatus(c, st) \in Seq(Counter)
         /\ Len(WithStatus(c, st)) = Len(counters)
<1>1. DOMAIN counters = 1 .. Len(counters) /\ Len(counters) \in Nat
      /\ counters \in [1 .. Len(counters) -> Counter]
  OBVIOUS
<1>2. WithStatus(c, st) \in [1 .. Len(counters) -> Counter]
  <2>1. CASE c \in 1 .. Len(counters)
    <3>1. [by |-> counters[c].by, round |-> counters[c].round, status |-> st]
            \in Counter
      BY <1>1, <2>1 DEF Counter
    <3> QED BY <1>1, <3>1 DEF WithStatus
  <2>2. CASE c \notin 1 .. Len(counters)
    BY <1>1, <2>2 DEF WithStatus
  <2> QED BY <2>1, <2>2
<1>3. WithStatus(c, st) \in Seq(Counter) /\ Len(WithStatus(c, st)) = Len(counters)
  <2> HIDE DEF WithStatus
  <2> QED BY <1>1, <1>2
<1> QED BY <1>3 DEF Answered

-----------------------------------------------------------------------------
(* One lemma per step.  Most steps leave the orders alone. *)

\* A step with unchanged orders that does not convert the request keeps the
\* invariant when it keeps the types.
LEMMA QuietFacts ==
  ASSUME IInv, TypeOK', SellerKept', orders' = orders,
         status' = status \/ status' # "CONVERTED_TO_ORDER"
  PROVE  IInv'
BY DEF IInv, OneOrder, ConvertedHasOrder

\* A request is created within the invariant.
LEMMA InitFacts == Init => IInv
<1> SUFFICES ASSUME Init PROVE IInv
  OBVIOUS
<1>1. TypeOK
  <2>1. req \in [Requests -> Request]
    <3> HIDE DEF Request, Idle
    <3> QED BY IdleFacts DEF Init
  <2>2. terms \in Terms /\ Len(counters) <= MaxCounters
    BY CountersAssumption DEF Init, Terms
  <2>3. match \in [Sellers -> {"NONE"} \cup Open \cup Closed]
    BY DEF Init, Open
  <2>4. counters \in Seq(Counter) /\ orders \in Seq(PurchaseOrder)
    BY DEF Init
  <2>5. status \in Pending \cup Terminal /\ seller \in Sellers
          /\ late \in BOOLEAN /\ worker \in {"idle", "sweeping", "assigning"}
    BY DEF Init, Pending
  <2> QED BY <2>1, <2>2, <2>3, <2>4, <2>5 DEF TypeOK
<1>2. SellerKept
  BY IdleFacts DEF Init, SellerKept
<1> QED BY <1>1, <1>2 DEF Init, IInv, OneOrder, ConvertedHasOrder

\* A read changes nothing but its request.
LEMMA ReadFacts ==
  ASSUME IInv, NEW r \in Requests, NEW row \in Request,
         req' = [req EXCEPT ![r] = row],
         UNCHANGED <<status, seller, terms, match, counters, orders, late, worker>>,
         row.kind = "RESPOND" => row.by # Customer,
         row.at = "locked" => row.by # Customer,
         row.by # Customer /\ row.at \in {"propose", "commit"} =>
           row.seller \in Sellers
  PROVE  IInv'
<1>1. req' \in [Requests -> Request] /\ SellerKept'
  <2> HIDE DEF Request
  <2> QED BY MoveFacts DEF IInv, TypeOK
<1>2. TypeOK'
  BY <1>1 DEF IInv, TypeOK
<1> QED BY <1>1, <1>2, QuietFacts

\* The rows that are found latest and highest.
LEMMA LatestFacts ==
  ASSUME TypeOK
  PROVE  Latest \subseteq Terms /\ HighestRound \subseteq Nat
<1>1. DOMAIN counters = 1 .. Len(counters) /\ Len(counters) \in 0 .. MaxCounters
  BY CountersAssumption DEF TypeOK
<1>2. \A c \in DOMAIN counters : counters[c].round \in Nat
  <2>1. \A c \in DOMAIN counters : counters[c] \in Counter
    <3> HIDE DEF Counter
    <3> QED BY <1>1 DEF TypeOK
  <2> QED BY <2>1 DEF Counter
<1>3. Latest \subseteq Terms
  <2>1. PendingCounters \subseteq 1 .. MaxCounters
    BY <1>1, CountersAssumption DEF PendingCounters
  <2>2. 0 \in Terms /\ 1 .. MaxCounters \subseteq Terms
    BY CountersAssumption DEF Terms
  <2>3. Latest \subseteq {0} \cup PendingCounters
    BY Zenon DEF Latest
  <2> QED BY <2>1, <2>2, <2>3
<1> QED BY <1>2, <1>3 DEF HighestRound

\* The rows that reads remember have their type.
LEMMA StartRow ==
  ASSUME NEW at \in {"locked", "propose", "commit"}, NEW kind \in Kind,
         NEW by \in Actor
  PROVE  [at |-> at, kind |-> kind, by |-> by, seller |-> Idle.seller,
          status |-> Idle.status, latest |-> 0, round |-> 0] \in Request
BY IdleFacts, CountersAssumption DEF Request, Terms

LEMMA HoldRow ==
  ASSUME TypeOK, status \in Pending, NEW at \in {"propose", "commit"},
         NEW kind \in Kind, NEW by \in Actor, NEW latest \in Terms
  PROVE  [at |-> at, kind |-> kind, by |-> by, seller |-> seller,
          status |-> status, latest |-> latest, round |-> 0] \in Request
BY DEF TypeOK, Request, Actor

\* The reads.
LEMMA RespondOpenStep ==
  ASSUME IInv, NEW r \in Requests, NEW s \in Sellers, NEW kind \in SellerKinds,
         RespondOpen(r, s, kind)
  PROVE  IInv'
<1> DEFINE row == [at |-> "locked", kind |-> kind, by |-> s,
                   seller |-> Idle.seller, status |-> Idle.status,
                   latest |-> 0, round |-> 0]
<1>1. row \in Request
  <2>1. kind \in Kind /\ s \in Actor
    BY DEF SellerKinds, Kind, Actor
  <2> QED BY <2>1, StartRow
<1>2. row.by # Customer /\ row.at = "locked"
  BY CustomerAssumption
<1>3. req' = [req EXCEPT ![r] = row]
  BY DEF RespondOpen, Start
<1> HIDE DEF row
<1> QED BY <1>1, <1>2, <1>3, ReadFacts DEF RespondOpen

LEMMA RespondReadStep ==
  ASSUME IInv, NEW r \in Requests, RespondRead(r)
  PROVE  IInv'
<1>1. PICK latest \in Latest :
        Hold(r, IF req[r].kind = "COUNTER" THEN "propose" ELSE "commit",
             req[r].kind, req[r].by, latest)
  BY DEF RespondRead
<1> DEFINE at == IF req[r].kind = "COUNTER" THEN "propose" ELSE "commit"
           row == [at |-> at, kind |-> req[r].kind, by |-> req[r].by,
                   seller |-> seller, status |-> status,
                   latest |-> latest, round |-> 0]
<1>2. req[r].kind \in Kind /\ req[r].by \in Actor /\ req[r].by # Customer
  BY DEF IInv, TypeOK, Request, SellerKept, RespondRead
<1>3. row \in Request
  <2>1. latest \in Terms
    BY LatestFacts DEF IInv
  <2> QED BY <1>2, <2>1, HoldRow DEF IInv, RespondRead
<1>4. row.by # Customer /\ row.at # "locked" /\ row.seller \in Sellers
  BY <1>2 DEF IInv, TypeOK
<1>5. req' = [req EXCEPT ![r] = row]
  BY <1>1 DEF Hold
<1> HIDE DEF row
<1> QED BY <1>3, <1>4, <1>5, ReadFacts DEF RespondRead

LEMMA CustomerReadStep ==
  ASSUME IInv, NEW r \in Requests, NEW kind \in CustomerKinds, CustomerRead(r, kind)
  PROVE  IInv'
<1>1. kind \in Kind /\ kind # "RESPOND" /\ Customer \in Actor
  BY DEF CustomerKinds, Kind, Actor
<1>2. ASSUME status = "NEGOTIATION", NEW latest \in Latest \ {0},
             Hold(r, "commit", kind, Customer, latest)
      PROVE  IInv'
  <2> DEFINE row == [at |-> "commit", kind |-> kind, by |-> Customer,
                     seller |-> seller, status |-> status,
                     latest |-> latest, round |-> 0]
  <2>1. row \in Request
    BY <1>1, <1>2, HoldRow, LatestFacts DEF IInv, Pending
  <2>2. row.by = Customer /\ row.at = "commit" /\ row.kind # "RESPOND"
    BY <1>1
  <2>3. req' = [req EXCEPT ![r] = row]
    BY <1>2 DEF Hold
  <2> HIDE DEF row
  <2> QED BY <2>1, <2>2, <2>3, ReadFacts DEF CustomerRead
<1>3. ASSUME Start(r, "propose", kind, Customer)
      PROVE  IInv'
  <2> DEFINE row == [at |-> "propose", kind |-> kind, by |-> Customer,
                     seller |-> Idle.seller, status |-> Idle.status,
                     latest |-> 0, round |-> 0]
  <2>1. row \in Request
    BY <1>1, StartRow
  <2>2. row.by = Customer /\ row.at = "propose" /\ row.kind # "RESPOND"
    BY <1>1
  <2>3. req' = [req EXCEPT ![r] = row]
    BY <1>3 DEF Start
  <2> HIDE DEF row
  <2> QED BY <2>1, <2>2, <2>3, ReadFacts DEF CustomerRead
<1> QED BY <1>2, <1>3 DEF CustomerRead

LEMMA ProposeReadStep ==
  ASSUME IInv, NEW r \in Requests, ProposeRead(r)
  PROVE  IInv'
<1>1. PICK latest \in Latest, top \in HighestRound :
        req' = [req EXCEPT ![r] =
                  [at |-> "commit", kind |-> req[r].kind, by |-> req[r].by,
                   seller |-> req[r].seller, status |-> req[r].status,
                   latest |-> latest, round |-> top + 1]]
  BY DEF ProposeRead
<1> DEFINE row == [at |-> "commit", kind |-> req[r].kind, by |-> req[r].by,
                   seller |-> req[r].seller, status |-> req[r].status,
                   latest |-> latest, round |-> top + 1]
<1>2. latest \in Terms /\ top + 1 \in Nat
  <2>1. Latest \subseteq Terms /\ HighestRound \subseteq Nat
    BY LatestFacts DEF IInv
  <2>2. top \in Nat
    BY <2>1
  <2> QED BY <2>1, <2>2
<1>3. row \in Request
  BY <1>2 DEF IInv, TypeOK, Request
<1>4. /\ row.kind = "RESPOND" => row.by # Customer
      /\ row.at = "commit"
      /\ row.by # Customer => row.seller \in Sellers
  BY DEF IInv, SellerKept, ProposeRead
<1>5. req' = [req EXCEPT ![r] = row]
  BY <1>1
<1> HIDE DEF row
<1> QED BY <1>3, <1>4, <1>5, ReadFacts DEF ProposeRead

LEMMA PlainReadStep ==
  ASSUME IInv, NEW r \in Requests, CancelRead(r) \/ ExpireRead(r) \/ Abort(r)
  PROVE  IInv'
<1>1. ASSUME NEW kind \in {"CANCEL", "EXPIRE"}, Start(r, "commit", kind, Customer),
             UNCHANGED <<status, seller, terms, match, counters, orders, late, worker>>
      PROVE  IInv'
  <2> DEFINE row == [at |-> "commit", kind |-> kind, by |-> Customer,
                     seller |-> Idle.seller, status |-> Idle.status,
                     latest |-> 0, round |-> 0]
  <2>1. row \in Request
    BY StartRow DEF Kind, Actor
  <2>2. row.by = Customer /\ row.at = "commit" /\ row.kind # "RESPOND"
    OBVIOUS
  <2>3. req' = [req EXCEPT ![r] = row]
    BY <1>1 DEF Start
  <2> HIDE DEF row
  <2> QED BY <1>1, <2>1, <2>2, <2>3, ReadFacts
<1>2. CASE Abort(r)
  <2>1. Idle \in Request /\ Idle.by = Customer /\ Idle.at = "idle"
          /\ Idle.kind = "CANCEL"
    BY IdleFacts
  <2> HIDE DEF Idle
  <2> QED BY <1>2, <2>1, ReadFacts DEF Abort, Done
<1> QED BY <1>1, <1>2 DEF CancelRead, ExpireRead

-----------------------------------------------------------------------------
\* A commit that leaves the orders alone keeps the invariant when it writes
\* columns and counter offers of their types and does not convert.
LEMMA CommitFacts ==
  ASSUME IInv, NEW r \in Requests, Done(r),
         status' \in Pending \cup Terminal, seller' \in Sellers,
         match' \in Matches,
         counters' \in Seq(Counter), Len(counters') <= MaxCounters,
         UNCHANGED <<terms, orders, late, worker>>,
         status' = status \/ status' # "CONVERTED_TO_ORDER"
  PROVE  IInv'
<1>1. req' \in [Requests -> Request] /\ SellerKept'
  BY DoneFacts DEF IInv, TypeOK
<1>2. TypeOK'
  BY <1>1 DEF IInv, TypeOK, Matches
<1> QED BY <1>1, <1>2, QuietFacts

\* What the invariant says of the counter offers that answering one keeps.
LEMMA CountersKept ==
  ASSUME TypeOK, NEW c \in Terms,
         NEW st \in {"PENDING", "ACCEPTED", "REJECTED", "SUPERSEDED", "EXPIRED"}
  PROVE  /\ Answered(c, st) \in Seq(Counter)
         /\ Len(Answered(c, st)) = Len(counters)
         /\ Len(counters) <= MaxCounters
<1>1. c \in Nat
  BY CountersAssumption DEF Terms
<1> QED BY <1>1, AnsweredFacts DEF TypeOK

\* The part of the invariant that an acceptance depends on.
LEMMA AcceptedFacts ==
  ASSUME IInv, NEW r \in Requests, Done(r), NEW decidedOn, NEW s \in Sellers,
         NEW c \in Terms, AcceptCommercially(decidedOn, s, c),
         seller' \in Sellers, match' \in Matches,
         counters' = Answered(c, "ACCEPTED"),
         UNCHANGED <<late, worker>>
  PROVE  IInv'
<1>1. /\ orders' \in Seq(PurchaseOrder) /\ Len(orders') <= 1
      /\ status' = "CONVERTED_TO_ORDER" => orders' # <<>>
  BY AcceptFacts
<1>2. req' \in [Requests -> Request] /\ SellerKept'
  BY DoneFacts DEF IInv, TypeOK
<1>3. counters' \in Seq(Counter) /\ Len(counters') <= MaxCounters
  BY CountersKept DEF IInv
<1>4. status' \in Pending \cup Terminal /\ terms' \in Terms
  BY DEF IInv, TypeOK, AcceptCommercially, Terminal
<1>5. TypeOK'
  BY <1>1, <1>2, <1>3, <1>4 DEF IInv, TypeOK, Matches
<1> QED BY <1>1, <1>2, <1>5 DEF IInv, OneOrder, ConvertedHasOrder

\* The terms an acceptance takes, and who accepts.
LEMMA RequestFacts ==
  ASSUME IInv, NEW r \in Requests
  PROVE  /\ req[r].latest \in Terms /\ 0 \in Terms
         /\ req[r].by # Customer => req[r].by \in Sellers
         /\ req[r].by \in Actor /\ req[r].round \in Nat
         /\ req[r].by # Customer /\ req[r].at = "commit" =>
              req[r].seller \in Sellers
BY CountersAssumption DEF IInv, TypeOK, Request, Actor, Terms, SellerKept

\* The commits.
LEMMA SellerAcceptStep ==
  ASSUME IInv, NEW r \in Requests, SellerAccept(r)
  PROVE  IInv'
<1> DEFINE s == req[r].by
           c == IF req[r].status = "NEGOTIATION" THEN req[r].latest ELSE 0
<1>1. s \in Sellers /\ c \in Terms
  BY RequestFacts DEF SellerAccept
<1>2. MarkedAccepted(s) \in Matches
  BY <1>1, MarkedFacts DEF IInv, TypeOK, Matches
<1>3. /\ Done(r) /\ AcceptCommercially(status, s, c)
      /\ seller' = s /\ match' = MarkedAccepted(s)
      /\ counters' = Answered(c, "ACCEPTED") /\ UNCHANGED <<late, worker>>
  BY DEF SellerAccept
<1> HIDE DEF s, c
<1> QED BY <1>1, <1>2, <1>3, AcceptedFacts

LEMMA CustomerAcceptStep ==
  ASSUME IInv, NEW r \in Requests, CustomerAccept(r)
  PROVE  IInv'
<1>1. req[r].latest \in Terms /\ seller \in Sellers /\ match \in Matches
  BY RequestFacts DEF IInv, TypeOK, Matches
<1>2. /\ Done(r) /\ AcceptCommercially(req[r].status, seller, req[r].latest)
      /\ counters' = Answered(req[r].latest, "ACCEPTED")
      /\ UNCHANGED <<seller, match, late, worker>>
  BY DEF CustomerAccept
<1> QED BY <1>1, <1>2, AcceptedFacts

LEMMA RejectStep ==
  ASSUME IInv, NEW r \in Requests, SellerReject(r) \/ CustomerReject(r)
  PROVE  IInv'
<1>1. /\ Done(r) /\ status' = "REJECTED" /\ UNCHANGED <<terms, orders, late, worker>>
      /\ counters' = Answered(req[r].latest, "REJECTED")
  BY DEF SellerReject, CustomerReject
<1>2. counters' \in Seq(Counter) /\ Len(counters') <= MaxCounters
  BY <1>1, CountersKept, RequestFacts DEF IInv
<1>3. seller' \in Sellers /\ match' \in Matches
  <2>1. CASE SellerReject(r)
    <3>1. req[r].by \in Sellers /\ req[r].seller \in Sellers
      BY <2>1, RequestFacts DEF SellerReject, Committing
    <3>2. Marked(req[r].by, "REJECTED") \in Matches
      BY <3>1, MarkedFacts DEF IInv, TypeOK, Matches, Closed
    <3> QED BY <2>1, <3>1, <3>2 DEF SellerReject
  <2>2. CASE CustomerReject(r)
    BY <2>2 DEF CustomerReject, IInv, TypeOK, Matches
  <2> QED BY <2>1, <2>2
<1>4. status' \in Terminal
  BY <1>1 DEF Terminal
<1> QED BY <1>1, <1>2, <1>3, <1>4, CommitFacts

LEMMA CounterOfferStep ==
  ASSUME IInv, NEW r \in Requests, CounterOffer(r)
  PROVE  IInv'
<1> DEFINE before == Answered(req[r].latest, "SUPERSEDED")
           offer == [by |-> req[r].by, round |-> req[r].round, status |-> "PENDING"]
<1>1. /\ Done(r) /\ status' = "NEGOTIATION" /\ UNCHANGED <<terms, orders, late, worker>>
      /\ counters' = Append(before, offer) /\ Len(counters) < MaxCounters
  BY DEF CounterOffer
<1>2. before \in Seq(Counter) /\ Len(before) = Len(counters)
  BY CountersKept, RequestFacts DEF IInv
<1>3. offer \in Counter
  BY RequestFacts DEF Counter
<1>4. counters' \in Seq(Counter) /\ Len(counters') <= MaxCounters
  <2>1. Len(counters) \in Nat
    BY DEF IInv, TypeOK
  <2> HIDE DEF before, offer
  <2> QED BY <1>1, <1>2, <1>3, <2>1, CountersAssumption
<1>5. seller' \in Sellers /\ match' \in Matches
  <2>1. CASE req[r].by = Customer
    BY <2>1 DEF CounterOffer, IInv, TypeOK, Matches
  <2>2. CASE req[r].by # Customer
    <3>1. req[r].by \in Sellers /\ req[r].seller \in Sellers
      BY <2>2, RequestFacts DEF CounterOffer, Committing
    <3>2. Marked(req[r].by, "COUNTER_OFFERED") \in Matches
      BY <3>1, MarkedFacts DEF IInv, TypeOK, Matches, Open
    <3> QED BY <2>2, <3>1, <3>2 DEF CounterOffer
  <2> QED BY <2>1, <2>2
<1>6. status' \in Pending
  BY <1>1 DEF Pending
<1> HIDE DEF before, offer
<1> QED BY <1>1, <1>4, <1>5, <1>6, CommitFacts

LEMMA PlainCommitStep ==
  ASSUME IInv, NEW r \in Requests,
         SoftResponse(r) \/ Cancel(r) \/ ExpireRequest(r)
  PROVE  IInv'
<1>1. match \in Matches /\ counters \in Seq(Counter) /\ Len(counters) <= MaxCounters
        /\ seller \in Sellers
  BY DEF IInv, TypeOK, Matches
<1>2. CASE SoftResponse(r)
  <2>1. req[r].seller \in Sellers
    BY <1>2 DEF SoftResponse, Committing, IInv, SellerKept
  <2>2. status' \in Pending /\ status' # "CONVERTED_TO_ORDER"
    BY <1>2 DEF SoftResponse, Pending
  <2> QED BY <1>1, <1>2, <2>1, <2>2, CommitFacts DEF SoftResponse
<1>3. CASE Cancel(r) \/ ExpireRequest(r)
  <2>1. status' \in Terminal /\ status' # "CONVERTED_TO_ORDER"
    BY <1>3 DEF Cancel, ExpireRequest, Terminal
  <2> QED BY <1>1, <1>3, <2>1, CommitFacts DEF Cancel, ExpireRequest
<1> QED BY <1>2, <1>3

\* Time and the worker: no request in progress moves.
LEMMA WorkerStep ==
  ASSUME IInv,
         \/ Lapse \/ ExpireOnRead \/ SweepRequest \/ SweepMatches
         \/ \E c \in DOMAIN counters : SweepCounter(c)
         \/ AssignRead \/ AssignWrite \/ WorkerRestart
  PROVE  IInv'
<1>1. orders' = orders /\ req' = req /\ terms' = terms /\ seller' = seller
  BY DEF Lapse, ExpireOnRead, SweepRequest, SweepMatches, SweepCounter,
         AssignRead, AssignWrite, WorkerRestart
<1>2. /\ status' = status \/ status' = "EXPIRED"
      /\ late' \in BOOLEAN
      /\ worker' \in {"idle", "sweeping", "assigning"}
  BY DEF Lapse, ExpireOnRead, SweepRequest, SweepMatches, SweepCounter,
         AssignRead, AssignWrite, WorkerRestart, IInv, TypeOK
<1>3. match' \in Matches
  <2>1. match \in Matches
    BY DEF IInv, TypeOK, Matches
  <2>2. CASE SweepMatches
    BY <2>1, <2>2 DEF SweepMatches, Matches, Closed
  <2>3. CASE AssignWrite
    BY <2>1, <2>3 DEF AssignWrite, Matches, Open
  <2> QED BY <2>1, <2>2, <2>3 DEF Lapse, ExpireOnRead, SweepRequest,
         SweepCounter, AssignRead, WorkerRestart
<1>4. counters' \in Seq(Counter) /\ Len(counters') <= MaxCounters
  <2>1. counters \in Seq(Counter) /\ Len(counters) <= MaxCounters
    BY DEF IInv, TypeOK
  <2>2. ASSUME NEW c \in DOMAIN counters, SweepCounter(c)
        PROVE  counters' \in Seq(Counter) /\ Len(counters') = Len(counters)
    <3>1. c \in Nat
      BY <2>1
    <3> QED BY <2>1, <2>2, <3>1, AnsweredFacts DEF SweepCounter
  <2> QED BY <2>1, <2>2 DEF Lapse, ExpireOnRead, SweepRequest, SweepMatches,
         AssignRead, AssignWrite, WorkerRestart
<1>5. SellerKept'
  BY <1>1 DEF IInv, SellerKept
<1>6. TypeOK'
  BY <1>1, <1>2, <1>3, <1>4 DEF IInv, TypeOK, Matches, Terminal
<1> QED BY <1>1, <1>2, <1>5, <1>6, QuietFacts

-----------------------------------------------------------------------------
\* Every step keeps the inductive invariant.
LEMMA NextStep == IInv /\ [Next]_vars => IInv'
<1> SUFFICES ASSUME IInv, [Next]_vars PROVE IInv'
  OBVIOUS
<1>1. ASSUME NEW r \in Requests, RequestStep(r)
      PROVE  IInv'
  BY <1>1, RespondOpenStep, RespondReadStep, CustomerReadStep, ProposeReadStep,
     PlainReadStep, SellerAcceptStep, CustomerAcceptStep, RejectStep,
     CounterOfferStep, PlainCommitStep DEF RequestStep
<1>2. CASE UNCHANGED vars
  BY <1>2 DEF vars, IInv, TypeOK, SellerKept, OneOrder, ConvertedHasOrder
<1> QED BY <1>1, <1>2, WorkerStep DEF Next

\* Whatever sellers, the customer, administrators and the worker do at the same
\* time, every row keeps its type and requests remember what they read: the
\* invariant the next two theorems rest on.
THEOREM Inductive == Spec => []IInv
<1> QED BY InitFacts, NextStep, PTL DEF Spec

\* A purchase request never yields two purchase orders, although acceptances
\* decide on rows read before they hold its lock (createFromAcceptedPr).
THEOREM OrdersAreUnique == Spec => []OneOrder
<1>1. IInv => OneOrder
  BY DEF IInv
<1> QED BY <1>1, Inductive, PTL

\* A converted request always has its order: acceptCommercially never meets a
\* converted request without one.
THEOREM ConvertedHaveOrders == Spec => []ConvertedHasOrder
<1>1. IInv => ConvertedHasOrder
  BY DEF IInv
<1> QED BY <1>1, Inductive, PTL

\* No step opens or rewrites a match row that was closed, for all sellers at
\* once (markSellerAccepted, expireDuePurchaseRequests, createSellerMatches).
LEMMA MatchesStep ==
  ASSUME IInv, [Next]_vars
  PROVE  ClosedMatchesKept
<1> SUFFICES \A s \in Sellers : match[s] \in Closed => match'[s] = match[s]
  BY DEF ClosedMatchesKept
<1>1. match \in Matches /\ Open \cap Closed = {} /\ "NONE" \notin Closed
  BY DEF IInv, TypeOK, Matches, Open, Closed
<1>2. ASSUME NEW r \in Requests, SellerAccept(r)
      PROVE  \A s \in Sellers : match[s] \in Closed => match'[s] = match[s]
  BY <1>1, <1>2, RequestFacts, MarkedFacts DEF SellerAccept
<1>3. ASSUME NEW r \in Requests, SellerReject(r)
      PROVE  \A s \in Sellers : match[s] \in Closed => match'[s] = match[s]
  <2>1. req[r].by \in Sellers /\ "REJECTED" \in Open \cup Closed
    BY <1>3, RequestFacts DEF SellerReject, Closed
  <2> QED BY <1>1, <1>3, <2>1, MarkedFacts DEF SellerReject
<1>4. ASSUME NEW r \in Requests, CounterOffer(r)
      PROVE  \A s \in Sellers : match[s] \in Closed => match'[s] = match[s]
  <2>1. CASE req[r].by = Customer
    BY <1>4, <2>1 DEF CounterOffer
  <2>2. CASE req[r].by # Customer
    <3>1. req[r].by \in Sellers /\ "COUNTER_OFFERED" \in Open \cup Closed
      BY <2>2, RequestFacts DEF Open
    <3>2. match' = Marked(req[r].by, "COUNTER_OFFERED")
      BY <1>4, <2>2 DEF CounterOffer
    <3> QED BY <1>1, <3>1, <3>2, MarkedFacts
  <2> QED BY <2>1, <2>2
<1>5. CASE SweepMatches
  BY <1>1, <1>5 DEF SweepMatches
<1>6. CASE AssignWrite
  BY <1>1, <1>6 DEF AssignWrite, Matches
<1>7. ASSUME NEW r \in Requests, RequestStep(r)
      PROVE  \A s \in Sellers : match[s] \in Closed => match'[s] = match[s]
  BY <1>2, <1>3, <1>4, <1>7 DEF RequestStep, RespondOpen, RespondRead, CustomerRead,
     ProposeRead, CancelRead, ExpireRead, CustomerAccept, CustomerReject,
     SoftResponse, Cancel, ExpireRequest, Abort
<1> QED BY <1>5, <1>6, <1>7 DEF Next, vars, Lapse, ExpireOnRead, SweepRequest,
     SweepCounter, AssignRead, WorkerRestart

\* A closed match row is never resurrected, whatever runs concurrently.
THEOREM MatchesAreNotResurrected == Spec => MatchesStayClosed
<1>1. IInv /\ [Next]_vars => [ClosedMatchesKept]_vars
  BY MatchesStep
<1> QED BY <1>1, Inductive, PTL DEF Spec, MatchesStayClosed

-----------------------------------------------------------------------------
(* Who wins, and what a seller's acceptance may sell *)

\* Rows are created only while there are none, and whoever accepts closes all
\* that are open.
Winner ==
  /\ worker = "assigning" => \A s \in Sellers : match[s] = "NONE"
  /\ \A s \in Sellers : match[s] = "ACCEPTED" =>
       \A t \in Sellers : match[t] \notin Open
  /\ OneWinner

\* Marking the rows of an answer keeps that.
LEMMA WinnerMarked ==
  ASSUME match \in Matches, Winner, NEW s \in Sellers, worker' = worker,
         \/ match' = MarkedAccepted(s)
         \/ match' = Marked(s, "REJECTED")
         \/ match' = Marked(s, "COUNTER_OFFERED")
  PROVE  Winner'
<1>1. "NONE" \notin Open /\ "ACCEPTED" \notin Open /\ "REJECTED" \notin Open
        /\ "REMOVED" \notin Open
  BY DEF Open
<1>2. CASE match' = MarkedAccepted(s)
  <2>1. \A t \in Sellers :
          match'[t] = IF match[t] \notin Open THEN match[t]
                      ELSE IF t = s THEN "ACCEPTED" ELSE "REMOVED"
    BY <1>2 DEF MarkedAccepted
  <2> QED BY <1>1, <2>1 DEF Winner, OneWinner
<1>3. ASSUME NEW st \in {"REJECTED", "COUNTER_OFFERED"}, match' = Marked(s, st)
      PROVE  Winner'
  <2>1. \A t \in Sellers :
          match'[t] = IF t = s /\ match[s] \in Open THEN st ELSE match[t]
    BY <1>3 DEF Marked, Matches
  <2>2. match[s] \in Open => \A t \in Sellers : match[t] # "ACCEPTED"
    BY DEF Winner
  <2> QED BY <1>1, <2>1, <2>2 DEF Winner, OneWinner
<1> QED BY <1>2, <1>3

LEMMA WinnerNext ==
  ASSUME IInv, Winner, [Next]_vars
  PROVE  Winner'
<1>1. match \in Matches
  BY DEF IInv, TypeOK, Matches
<1>2. CASE UNCHANGED <<match, worker>>
  BY <1>2 DEF Winner, OneWinner
<1>3. ASSUME NEW r \in Requests, SellerAccept(r)
      PROVE  Winner'
  BY <1>1, <1>3, WinnerMarked, RequestFacts DEF SellerAccept
<1>4. ASSUME NEW r \in Requests, SellerReject(r)
      PROVE  Winner'
  BY <1>1, <1>4, WinnerMarked, RequestFacts DEF SellerReject
<1>5. ASSUME NEW r \in Requests, CounterOffer(r)
      PROVE  Winner'
  BY <1>1, <1>2, <1>5, WinnerMarked, RequestFacts DEF CounterOffer
<1>6. CASE SweepMatches
  BY <1>6 DEF SweepMatches, Winner, OneWinner, Open
<1>7. CASE AssignWrite
  <2>1. \A t \in Sellers : match'[t] \in {"NONE", "MATCHED"}
    BY <1>1, <1>7 DEF AssignWrite, Winner, Matches
  <2> QED BY <1>7, <2>1 DEF AssignWrite, Winner, OneWinner
<1>8. CASE \/ SweepRequest \/ AssignRead \/ WorkerRestart
  BY <1>8 DEF SweepRequest, AssignRead, WorkerRestart, Winner, OneWinner
<1>9. ASSUME NEW r \in Requests, RequestStep(r)
      PROVE  \/ UNCHANGED <<match, worker>>
             \/ SellerAccept(r) \/ SellerReject(r) \/ CounterOffer(r)
  BY <1>9 DEF RequestStep, RespondOpen, RespondRead, CustomerRead, ProposeRead,
     CancelRead, ExpireRead, CustomerAccept, CustomerReject, SoftResponse,
     Cancel, ExpireRequest, Abort
<1>10. CASE \/ Lapse \/ ExpireOnRead \/ UNCHANGED vars
            \/ \E c \in DOMAIN counters : SweepCounter(c)
  BY <1>2, <1>10 DEF Lapse, ExpireOnRead, SweepCounter, vars
<1> QED BY <1>2, <1>3, <1>4, <1>5, <1>6, <1>7, <1>8, <1>9, <1>10 DEF Next

\* Two sellers are never both told that they won, for any number of sellers.
THEOREM WinnersAreUnique == Spec => []OneWinner
<1>1. Init => Winner
  BY DEF Init, Winner, OneWinner, Open
<1>2. Winner => OneWinner
  BY DEF Winner
<1> QED BY <1>1, <1>2, WinnerNext, Inductive, PTL DEF Spec

\* An acceptance of the customer names an offer of a seller, and only counter
\* offers are proposed.
OfferKept ==
  \A r \in Requests :
    /\ req[r].at = "propose" => req[r].kind = "COUNTER"
    /\ req[r].at = "commit" /\ req[r].kind = "ACCEPT" /\ req[r].by = Customer =>
         /\ req[r].latest \in DOMAIN counters
         /\ counters[req[r].latest].by # Customer

\* Counter offers are neither removed nor given another author.
AuthorsKept ==
  \A c \in DOMAIN counters :
    c \in DOMAIN counters' /\ counters'[c].by = counters[c].by

LEMMA AnsweredAuthors ==
  ASSUME counters \in Seq(Counter), NEW c \in Nat, NEW st
  PROVE  /\ DOMAIN Answered(c, st) = DOMAIN counters
         /\ DOMAIN WithStatus(c, st) = DOMAIN counters
         /\ \A d \in DOMAIN counters :
              /\ Answered(c, st)[d].by = counters[d].by
              /\ WithStatus(c, st)[d].by = counters[d].by
<1>1. /\ DOMAIN WithStatus(c, st) = DOMAIN counters
      /\ \A d \in DOMAIN counters : WithStatus(c, st)[d].by = counters[d].by
  BY DEF WithStatus
<1> QED BY <1>1 DEF Answered

LEMMA AuthorsStep ==
  ASSUME IInv, [Next]_vars
  PROVE  AuthorsKept
<1>1. counters \in Seq(Counter) /\ \A r \in Requests : req[r].latest \in Nat
  BY CountersAssumption, RequestFacts DEF IInv, TypeOK, Terms
<1>2. CASE UNCHANGED counters
  BY <1>2 DEF AuthorsKept
<1>3. ASSUME NEW c \in Nat, NEW st,
             counters' = Answered(c, st) \/ counters' = WithStatus(c, st)
      PROVE  AuthorsKept
  BY <1>1, <1>3, AnsweredAuthors DEF AuthorsKept
<1>4. ASSUME NEW r \in Requests, CounterOffer(r)
      PROVE  AuthorsKept
  <2> DEFINE before == Answered(req[r].latest, "SUPERSEDED")
             offer == [by |-> req[r].by, round |-> req[r].round, status |-> "PENDING"]
  <2>1. /\ before \in Seq(Counter) /\ DOMAIN before = DOMAIN counters
        /\ \A d \in DOMAIN counters : before[d].by = counters[d].by
    BY <1>1, AnsweredFacts, AnsweredAuthors
  <2>2. counters' = Append(before, offer)
    BY <1>4 DEF CounterOffer
  <2> HIDE DEF before, offer
  <2>3. \A d \in DOMAIN before : d \in DOMAIN counters' /\ counters'[d] = before[d]
    BY <2>1, <2>2
  <2> QED BY <2>1, <2>3 DEF AuthorsKept
<1>5. ASSUME NEW r \in Requests,
             SellerAccept(r) \/ CustomerAccept(r) \/ SellerReject(r) \/ CustomerReject(r)
      PROVE  AuthorsKept
  <2>1. 0 \in Nat /\ req[r].latest \in Nat
    BY <1>1
  <2>2. \E c \in Nat : \E st \in {"ACCEPTED", "REJECTED"} : counters' = Answered(c, st)
    BY <1>5, <2>1 DEF SellerAccept, CustomerAccept, SellerReject, CustomerReject
  <2> QED BY <1>3, <2>2
<1>6. ASSUME NEW c \in DOMAIN counters, SweepCounter(c)
      PROVE  AuthorsKept
  <2>1. c \in Nat
    BY <1>1
  <2> QED BY <1>3, <1>6, <2>1 DEF SweepCounter
<1>7. ASSUME NEW r \in Requests, RequestStep(r)
      PROVE  AuthorsKept
  BY <1>2, <1>4, <1>5, <1>7 DEF RequestStep, RespondOpen, RespondRead, CustomerRead,
     ProposeRead, CancelRead, ExpireRead, SoftResponse, Cancel, ExpireRequest, Abort
<1> QED BY <1>2, <1>6, <1>7 DEF Next, vars, Lapse, ExpireOnRead, SweepRequest,
     SweepMatches, AssignRead, AssignWrite, WorkerRestart

\* A request that reads or ends becomes one that the invariant allows.
LEMMA OfferMoves ==
  ASSUME IInv, OfferKept, AuthorsKept, NEW r \in Requests, NEW row,
         req' = [req EXCEPT ![r] = row],
         row.at = "propose" => row.kind = "COUNTER",
         row.at = "commit" /\ row.kind = "ACCEPT" /\ row.by = Customer =>
           row.latest \in DOMAIN counters /\ counters[row.latest].by # Customer
  PROVE  OfferKept'
<1>1. req'[r] = row /\ \A q \in Requests \ {r} : req'[q] = req[q]
  BY DEF IInv, TypeOK
<1> QED BY <1>1 DEF OfferKept, AuthorsKept

LEMMA OfferNext ==
  ASSUME IInv, OfferKept, [Next]_vars
  PROVE  OfferKept'
<1>1. AuthorsKept
  BY AuthorsStep
<1>2. CASE UNCHANGED req
  BY <1>1, <1>2 DEF OfferKept, AuthorsKept
<1>3. ASSUME NEW r \in Requests, Done(r)
      PROVE  OfferKept'
  <2>1. Idle.at = "idle"
    BY IdleFacts
  <2> HIDE DEF Idle
  <2> QED BY <1>1, <1>3, <2>1, OfferMoves DEF Done
<1>4. ASSUME NEW r \in Requests, NEW at, NEW kind, NEW by, Start(r, at, kind, by),
             at = "propose" => kind = "COUNTER",
             at = "commit" => kind # "ACCEPT"
      PROVE  OfferKept'
  <2> DEFINE row == [at |-> at, kind |-> kind, by |-> by, seller |-> Idle.seller,
                     status |-> Idle.status, latest |-> 0, round |-> 0]
  <2>1. req' = [req EXCEPT ![r] = row] /\ row.at = at /\ row.kind = kind
    BY <1>4 DEF Start
  <2> HIDE DEF row
  <2> QED BY <1>1, <1>4, <2>1, OfferMoves
<1>5. ASSUME NEW r \in Requests, RespondRead(r)
      PROVE  OfferKept'
  <2>1. PICK latest \in Latest :
          Hold(r, IF req[r].kind = "COUNTER" THEN "propose" ELSE "commit",
               req[r].kind, req[r].by, latest)
    BY <1>5 DEF RespondRead
  <2> DEFINE row == [at |-> IF req[r].kind = "COUNTER" THEN "propose" ELSE "commit",
                     kind |-> req[r].kind, by |-> req[r].by, seller |-> seller,
                     status |-> status, latest |-> latest, round |-> 0]
  <2>2. req' = [req EXCEPT ![r] = row] /\ row.kind = req[r].kind /\ row.by = req[r].by
          /\ (row.at = "propose" => req[r].kind = "COUNTER")
    BY <2>1 DEF Hold
  <2>3. req[r].by # Customer
    BY <1>5 DEF RespondRead, IInv, SellerKept
  <2> HIDE DEF row
  <2> QED BY <1>1, <2>2, <2>3, OfferMoves
<1>6. ASSUME NEW r \in Requests, NEW kind \in CustomerKinds, NEW latest \in Latest \ {0},
             counters[latest].by # Customer, Hold(r, "commit", kind, Customer, latest)
      PROVE  OfferKept'
  <2> DEFINE row == [at |-> "commit", kind |-> kind, by |-> Customer, seller |-> seller,
                     status |-> status, latest |-> latest, round |-> 0]
  <2>1. req' = [req EXCEPT ![r] = row] /\ row.at = "commit" /\ row.latest = latest
    BY <1>6 DEF Hold
  <2>2. latest \in DOMAIN counters
    BY <1>6 DEF Latest, PendingCounters
  <2> HIDE DEF row
  <2> QED BY <1>1, <1>6, <2>1, <2>2, OfferMoves
<1>7. ASSUME NEW r \in Requests, NEW kind \in CustomerKinds, CustomerRead(r, kind)
      PROVE  OfferKept'
  BY <1>4, <1>6, <1>7 DEF CustomerRead
<1>8. ASSUME NEW r \in Requests, ProposeRead(r)
      PROVE  OfferKept'
  <2>1. PICK latest \in Latest, top \in HighestRound :
          req' = [req EXCEPT ![r] =
                    [at |-> "commit", kind |-> req[r].kind, by |-> req[r].by,
                     seller |-> req[r].seller, status |-> req[r].status,
                     latest |-> latest, round |-> top + 1]]
    BY <1>8 DEF ProposeRead
  <2>2. req[r].kind = "COUNTER"
    BY <1>8 DEF ProposeRead, OfferKept
  <2> QED BY <1>1, <2>1, <2>2, OfferMoves
<1>9. ASSUME NEW r \in Requests, RequestStep(r)
      PROVE  OfferKept'
  BY <1>3, <1>4, <1>5, <1>7, <1>8, <1>9 DEF RequestStep, RespondOpen, CancelRead,
     ExpireRead, SellerAccept, CustomerAccept, SellerReject, CustomerReject,
     CounterOffer, SoftResponse, Cancel, ExpireRequest, Abort
<1> QED BY <1>2, <1>9 DEF Next, vars, Lapse, ExpireOnRead, SweepRequest,
     SweepMatches, SweepCounter, AssignRead, AssignWrite, WorkerRestart

\* The step behind the theorem: only acceptances make orders; the customer's
\* names an offer of a seller, and a seller's decides under the lock.
LEMMA OpenSale ==
  ASSUME IInv, OfferKept, [Next]_vars, NEW n \in DOMAIN orders' \ DOMAIN orders,
         orders'[n].terms = 0 \/ counters[orders'[n].terms].by = Customer
  PROVE  status \in Pending
<1>1. /\ orders \in Seq(PurchaseOrder) /\ Len(orders) <= 1
      /\ counters \in Seq(Counter)
  BY DEF IInv, TypeOK, OneOrder
<1>2. ASSUME NEW decidedOn, NEW s, NEW c, AcceptCommercially(decidedOn, s, c)
      PROVE  /\ MayBecome(decidedOn, "CONVERTED_TO_ORDER")
             /\ orders'[n].terms = c
  <2>1. /\ MayBecome(decidedOn, "CONVERTED_TO_ORDER")
        /\ orders' = Append(orders, [seller |-> s, terms |-> c]) /\ ~HasOrder
    BY <1>2 DEF AcceptCommercially, OrderFor
  <2>2. Len(orders) = 0
    BY <1>1, <2>1 DEF HasOrder
  <2>3. n = 1
    BY <1>1, <2>1, <2>2
  <2> QED BY <1>1, <2>1, <2>2, <2>3
<1>3. ASSUME NEW r \in Requests, SellerAccept(r)
      PROVE  status \in Pending
  <2>1. \E s, c : AcceptCommercially(status, s, c)
    BY <1>3 DEF SellerAccept
  <2> QED BY <1>2, <2>1 DEF MayBecome
<1>4. ASSUME NEW r \in Requests, CustomerAccept(r)
      PROVE  FALSE
  <2>1. orders'[n].terms = req[r].latest
    BY <1>2, <1>4 DEF CustomerAccept
  <2>2. req[r].latest \in DOMAIN counters /\ counters[req[r].latest].by # Customer
    BY <1>4 DEF CustomerAccept, Committing, OfferKept
  <2>3. 0 \notin DOMAIN counters
    BY <1>1
  <2> QED BY <2>1, <2>2, <2>3
<1>5. orders' # orders
  OBVIOUS
<1>6. ASSUME NEW r \in Requests, RequestStep(r)
      PROVE  SellerAccept(r) \/ CustomerAccept(r)
  BY <1>5, <1>6 DEF RequestStep, RespondOpen, RespondRead, CustomerRead, ProposeRead,
     CancelRead, ExpireRead, SellerReject, CustomerReject, CounterOffer,
     SoftResponse, Cancel, ExpireRequest, Abort
<1> QED BY <1>3, <1>4, <1>5, <1>6 DEF Next, vars, Lapse, ExpireOnRead, SweepRequest,
     SweepMatches, SweepCounter, AssignRead, AssignWrite, WorkerRestart

\* A seller's acceptance never makes an order of a closed request, whatever runs
\* between its reads and its transaction.
THEOREM SellersSellWhatIsOpen == Spec => SellersSellOpenRequests
<1>1. Init => OfferKept
  BY IdleFacts DEF Init, OfferKept
<1>2. IInv /\ OfferKept /\ [Next]_vars =>
        [\A n \in DOMAIN orders' \ DOMAIN orders :
           orders'[n].terms = 0 \/ counters[orders'[n].terms].by = Customer =>
             status \in Pending]_vars
  BY OpenSale
<1> QED BY <1>1, <1>2, OfferNext, Inductive, PTL DEF Spec, SellersSellOpenRequests

-----------------------------------------------------------------------------
(* Refinement: the request is sold as Sale promises. *)

\* The standing of a seller by its row.
LEMMA StandingFacts ==
  /\ Standing("NONE") = "out" /\ Standing("ACCEPTED") = "won"
  /\ \A row \in Open : Standing(row) = "invited"
  /\ \A row \in {"REJECTED", "REMOVED", "EXPIRED"} : Standing(row) = "lost"
  /\ \A row \in {"NONE"} \cup Open \cup Closed :
       /\ Standing(row) = "invited" => row \in Open
       /\ Standing(row) = "out" => row = "NONE"
BY DEF Standing, Open, Closed

\* The seller who answers first is settled with, and so are all others.
LEMMA MarkedSettles ==
  ASSUME match \in Matches, NEW s \in Sellers, match' = MarkedAccepted(s)
  PROVE  Places' = Sold!Settled(s)
<1> SUFFICES ASSUME NEW t \in Sellers PROVE Places'[t] = Sold!Settled(s)[t]
  BY DEF Places, Sold!Settled
<1>1. match'[t] = IF match[t] \notin Open THEN match[t]
                  ELSE IF t = s THEN "ACCEPTED" ELSE "REMOVED"
  BY DEF MarkedAccepted
<1>2. Places'[t] = Standing(match'[t]) /\ Places[t] = Standing(match[t])
  BY DEF Places
<1>3. Places[t] = "invited" <=> match[t] \in Open
  BY <1>2, StandingFacts DEF Matches
<1> QED BY <1>1, <1>2, <1>3, StandingFacts DEF Sold!Settled

\* A step that only moves open rows to rejected or expired drops sellers.
LEMMA ClosingDrops ==
  ASSUME match \in Matches, NEW S \in SUBSET Sellers, NEW st \in {"REJECTED", "EXPIRED"},
         match' = [t \in Sellers |-> IF t \in S /\ match[t] \in Open THEN st ELSE match[t]],
         UNCHANGED orders
  PROVE  Sold!Drop(S)
<1>1. \A t \in Sellers : Places[t] = Standing(match[t]) /\ Places'[t] = Standing(match'[t])
  BY DEF Places
<1>2. \A t \in Sellers : Places[t] = "invited" <=> match[t] \in Open
  BY <1>1, StandingFacts DEF Matches
<1>3. \A t \in Sellers :
        Places'[t] = IF t \in S /\ Places[t] = "invited" THEN "lost" ELSE Places[t]
  BY <1>1, <1>2, StandingFacts
<1>4. Places' = [t \in Sellers |-> Places'[t]]
  BY DEF Places
<1> QED BY <1>3, <1>4 DEF Sold!Drop

\* An acceptance sells the request, or finds it sold.
LEMMA AcceptSells ==
  ASSUME IInv, NEW decidedOn, NEW s \in Sellers, NEW c \in Terms,
         AcceptCommercially(decidedOn, s, c)
  PROVE  \/ orders # <<>> /\ UNCHANGED orders
         \/ orders = <<>> /\ orders' = <<[seller |-> s, terms |-> c]>>
<1>1. orders \in Seq(PurchaseOrder) /\ (Len(orders) > 0 <=> orders # <<>>)
  BY DEF IInv, TypeOK
<1>2. CASE orders # <<>>
  BY <1>1, <1>2 DEF AcceptCommercially, OrderFor, HasOrder
<1>3. CASE orders = <<>>
  <2>1. orders' = Append(<<>>, [seller |-> s, terms |-> c])
    BY <1>1, <1>3 DEF AcceptCommercially, OrderFor, HasOrder
  <2> QED BY <1>3, <2>1
<1> QED BY <1>2, <1>3

\* Every step of the procurement sells, invites, drops, or does none of it.
LEMMA SaleStep ==
  ASSUME IInv, Winner, [Next]_vars
  PROVE  [Sold!Next]_<<orders, Places>>
<1>1. match \in Matches
  BY DEF IInv, TypeOK, Matches
<1>2. CASE UNCHANGED <<orders, match>>
  BY <1>2 DEF Places
<1>3. ASSUME NEW r \in Requests, SellerAccept(r)
      PROVE  Sold!Next
  <2> DEFINE s == req[r].by
             c == IF req[r].status = "NEGOTIATION" THEN req[r].latest ELSE 0
  <2>1. s \in Sellers /\ c \in Terms
    BY <1>3, RequestFacts DEF SellerAccept
  <2>2. match' = MarkedAccepted(s) /\ AcceptCommercially(status, s, c)
    BY <1>3 DEF SellerAccept
  <2>3. Places' = Sold!Settled(s)
    BY <1>1, <2>1, <2>2, MarkedSettles
  <2>4. Sold!AcceptAgain(s) \/ Sold!Sell(s, c)
    BY <2>1, <2>2, <2>3, AcceptSells DEF Sold!AcceptAgain, Sold!Sell
  <2> QED BY <2>1, <2>4 DEF Sold!Next
<1>4. ASSUME NEW r \in Requests, CustomerAccept(r)
      PROVE  [Sold!Next]_<<orders, Places>>
  <2>1. seller \in Sellers /\ req[r].latest \in Terms
    BY RequestFacts DEF IInv, TypeOK
  <2>2. AcceptCommercially(req[r].status, seller, req[r].latest) /\ Places' = Places
    BY <1>4 DEF CustomerAccept, Places
  <2>3. UNCHANGED <<orders, Places>> \/ Sold!Sell(seller, req[r].latest)
    BY <2>1, <2>2, AcceptSells DEF Sold!Sell
  <2> QED BY <2>1, <2>3 DEF Sold!Next
<1>5. ASSUME NEW r \in Requests, SellerReject(r)
      PROVE  Sold!Next
  <2>1. req[r].by \in Sellers /\ UNCHANGED orders /\ match' = Marked(req[r].by, "REJECTED")
    BY <1>5, RequestFacts DEF SellerReject
  <2>2. match' = [t \in Sellers |-> IF t \in {req[r].by} /\ match[t] \in Open THEN "REJECTED"
                                    ELSE match[t]]
    BY <1>1, <2>1 DEF Marked, Matches
  <2>3. Sold!Drop({req[r].by})
    BY <1>1, <2>1, <2>2, ClosingDrops
  <2> QED BY <2>1, <2>3 DEF Sold!Next
<1>6. ASSUME NEW r \in Requests, CounterOffer(r)
      PROVE  UNCHANGED <<orders, Places>>
  <2>1. CASE req[r].by = Customer
    BY <1>6, <2>1 DEF CounterOffer, Places
  <2>2. CASE req[r].by # Customer
    <3>1. UNCHANGED orders /\ match' = Marked(req[r].by, "COUNTER_OFFERED")
      BY <1>6, <2>2 DEF CounterOffer
    <3>2. \A t \in Sellers :
            match'[t] # match[t] => match[t] \in Open /\ match'[t] = "COUNTER_OFFERED"
      BY <1>1, <3>1 DEF Marked, Matches
    <3>3. \A t \in Sellers : Standing(match'[t]) = Standing(match[t])
      BY <3>2, StandingFacts DEF Open
    <3> QED BY <3>1, <3>3 DEF Places
  <2> QED BY <2>1, <2>2
<1>7. CASE SweepMatches
  <2>1. match' = [t \in Sellers |-> IF t \in Sellers /\ match[t] \in Open THEN "EXPIRED"
                                    ELSE match[t]] /\ UNCHANGED orders
    BY <1>7 DEF SweepMatches
  <2>2. Sold!Drop(Sellers)
    BY <1>1, <2>1, ClosingDrops
  <2> QED BY <2>2 DEF Sold!Next
<1>8. CASE AssignWrite
  <2>1. seller \in Sellers /\ \A t \in Sellers : match[t] = "NONE"
    BY <1>8 DEF AssignWrite, Winner, IInv, TypeOK
  <2>2. \A t \in Sellers : /\ Places[t] = "out"
                           /\ Places'[t] = IF t = seller THEN "invited" ELSE Places[t]
    BY <1>1, <1>8, <2>1, StandingFacts DEF AssignWrite, Places, Matches, Open
  <2>3. Places' = [Places EXCEPT ![seller] = "invited"]
    BY <2>2 DEF Places
  <2>4. Sold!Invite(seller)
    BY <1>8, <2>2, <2>3 DEF AssignWrite, Sold!Invite
  <2> QED BY <2>1, <2>4 DEF Sold!Next
<1>9. ASSUME NEW r \in Requests, RequestStep(r)
      PROVE  [Sold!Next]_<<orders, Places>>
  <2>1. \/ UNCHANGED <<orders, match>> \/ SellerAccept(r) \/ CustomerAccept(r)
        \/ SellerReject(r) \/ CounterOffer(r)
    BY <1>9 DEF RequestStep, RespondOpen, RespondRead, CustomerRead, ProposeRead,
       CancelRead, ExpireRead, CustomerReject, SoftResponse, Cancel,
       ExpireRequest, Abort
  <2> QED BY <2>1, <1>2, <1>3, <1>4, <1>5, <1>6
<1>10. CASE \/ Lapse \/ ExpireOnRead \/ SweepRequest \/ AssignRead \/ WorkerRestart
            \/ UNCHANGED vars \/ \E c \in DOMAIN counters : SweepCounter(c)
  BY <1>2, <1>10 DEF Lapse, ExpireOnRead, SweepRequest, AssignRead, WorkerRestart,
     SweepCounter, vars
<1> QED BY <1>7, <1>8, <1>9, <1>10 DEF Next, Sold!Next

\* For any number of sellers, offers and concurrent answers, the procurement
\* implements Sale: the request is sold once, its order is never rewritten, and
\* of the sellers invited one wins at most, for good and not before there is an
\* order (respond, acceptCounter, acceptCommercially, the worker's sweeps).
THEOREM ProcurementImplementsSale == Spec => SoldOnce
<1>1. Init => Winner /\ Sold!Init
  <2> SUFFICES ASSUME Init PROVE Winner /\ Sold!Init
    OBVIOUS
  <2>1. \A s \in Sellers : match[s] \in {"NONE", "MATCHED"}
    BY DEF Init
  <2>2. Places \in [Sellers -> {"out", "invited"}]
    BY <2>1, StandingFacts DEF Places, Open
  <2> QED BY <2>1, <2>2 DEF Init, Sold!Init, Winner, OneWinner, Open
<1>2. IInv /\ Winner /\ [Next]_vars => Winner' /\ [Sold!Next]_<<orders, Places>>
  BY WinnerNext, SaleStep
<1> QED BY <1>1, <1>2, Inductive, PTL DEF Spec, SoldOnce, Sold!Spec

-----------------------------------------------------------------------------
(* One request at a time: no row read is ever out of date at its commit but *)
(* for what the worker, the deadline and the reads of the customer do.      *)
OneAtATime == \A q, r \in Requests : q = r

ClosedForGood == Terminal \ {"EXPIRED"}

\* Nothing is in progress on a request that is closed for good, and one with an
\* order is converted and names it.
AtRest ==
  /\ status \in ClosedForGood => \A r \in Requests : req[r].at = "idle"
  /\ orders # <<>> => status = "CONVERTED_TO_ORDER"
  /\ RequestNamesItsOrder

\* What is in progress is in progress on a request that is not closed for good.
LEMMA BusyFacts ==
  ASSUME AtRest, NEW r \in Requests, req[r].at # "idle"
  PROVE  status \notin ClosedForGood /\ orders = <<>>
BY DEF AtRest, ClosedForGood, Terminal

\* After a commit nothing is in progress.
LEMMA DoneIdle ==
  ASSUME IInv, OneAtATime, NEW r \in Requests, Done(r)
  PROVE  \A q \in Requests : req'[q].at = "idle"
<1>1. Idle.at = "idle"
  BY IdleFacts
<1> HIDE DEF Idle
<1> QED BY <1>1 DEF IInv, TypeOK, Done, OneAtATime

\* The order of the first acceptance is the request's.
LEMMA FirstAcceptance ==
  ASSUME orders = <<>>, NEW decidedOn, NEW s, NEW c, AcceptCommercially(decidedOn, s, c)
  PROVE  /\ status' = "CONVERTED_TO_ORDER" /\ terms' = c
         /\ orders'[1].seller = s /\ orders'[1].terms = c
<1>1. /\ status' = "CONVERTED_TO_ORDER" /\ terms' = c
      /\ orders' = Append(orders, [seller |-> s, terms |-> c])
  BY DEF AcceptCommercially, OrderFor, HasOrder
<1>2. orders' = <<[seller |-> s, terms |-> c]>>
  BY <1>1
<1> QED BY <1>1, <1>2

\* A read, and the end of a request that wrote nothing.
LEMMA ReadRests ==
  ASSUME AtRest, UNCHANGED <<status, seller, terms, orders>>, status \notin ClosedForGood
  PROVE  AtRest'
BY DEF AtRest, RequestNamesItsOrder

LEMMA ReadIsOpen ==
  ASSUME AtRest, NEW r \in Requests,
         \/ \E s \in Sellers, kind \in SellerKinds : RespondOpen(r, s, kind)
         \/ RespondRead(r)
         \/ \E kind \in CustomerKinds : CustomerRead(r, kind)
         \/ ProposeRead(r) \/ CancelRead(r) \/ ExpireRead(r) \/ Abort(r)
  PROVE  /\ status \notin ClosedForGood
         /\ UNCHANGED <<status, seller, terms, match, counters, orders, late, worker>>
<1>1. Pending \cap ClosedForGood = {} /\ "NEGOTIATION" \in Pending
  BY DEF Pending, ClosedForGood, Terminal
<1>2. ASSUME NEW s \in Sellers, NEW kind \in SellerKinds, RespondOpen(r, s, kind)
      PROVE  status \in Pending
  BY <1>2 DEF RespondOpen
<1>3. ASSUME NEW kind \in CustomerKinds, CustomerRead(r, kind)
      PROVE  status \in Pending
  BY <1>1, <1>3 DEF CustomerRead
<1>4. CASE CancelRead(r) \/ ExpireRead(r) \/ RespondRead(r)
  BY <1>1, <1>4 DEF CancelRead, ExpireRead, RespondRead
<1>5. CASE ProposeRead(r) \/ Abort(r)
  <2>1. req[r].at # "idle" /\ UNCHANGED <<status, seller, terms, match, counters, orders, late, worker>>
    BY <1>5 DEF ProposeRead, Abort
  <2> QED BY <2>1, BusyFacts
<1>6. ASSUME NEW s \in Sellers, NEW kind \in SellerKinds, RespondOpen(r, s, kind)
      PROVE  UNCHANGED <<status, seller, terms, match, counters, orders, late, worker>>
  BY <1>6 DEF RespondOpen
<1>7. ASSUME NEW kind \in CustomerKinds, CustomerRead(r, kind)
      PROVE  UNCHANGED <<status, seller, terms, match, counters, orders, late, worker>>
  BY <1>7 DEF CustomerRead
<1> QED BY <1>1, <1>2, <1>3, <1>4, <1>5, <1>6, <1>7

\* A commit that makes no order.
LEMMA CommitRests ==
  ASSUME IInv, AtRest, OneAtATime, NEW r \in Requests,
         SellerReject(r) \/ CustomerReject(r) \/ CounterOffer(r) \/ SoftResponse(r)
           \/ Cancel(r) \/ ExpireRequest(r)
  PROVE  AtRest' /\ status \notin ClosedForGood
<1>1. Done(r) /\ orders' = orders /\ req[r].at = "commit"
  BY DEF SellerReject, CustomerReject, CounterOffer, SoftResponse, Cancel, ExpireRequest,
         Committing
<1>2. status \notin ClosedForGood /\ orders = <<>>
  BY <1>1, BusyFacts
<1>3. \A q \in Requests : req'[q].at = "idle"
  BY <1>1, DoneIdle
<1> QED BY <1>1, <1>2, <1>3 DEF AtRest, RequestNamesItsOrder

\* A commit that makes one.
LEMMA AcceptRests ==
  ASSUME IInv, AtRest, OneAtATime, NEW r \in Requests,
         SellerAccept(r) \/ CustomerAccept(r)
  PROVE  AtRest' /\ status \notin ClosedForGood
<1>1. Done(r) /\ req[r].at = "commit"
  BY DEF SellerAccept, CustomerAccept, Committing
<1>2. status \notin ClosedForGood /\ orders = <<>>
  BY <1>1, BusyFacts
<1>3. \A q \in Requests : req'[q].at = "idle"
  BY <1>1, DoneIdle
<1>4. /\ status' = "CONVERTED_TO_ORDER"
      /\ seller' = orders'[1].seller /\ terms' = orders'[1].terms
  <2>1. CASE SellerAccept(r)
    <3>1. PICK c : AcceptCommercially(status, req[r].by, c)
      BY <2>1 DEF SellerAccept
    <3> QED BY <2>1, <3>1, <1>2, FirstAcceptance DEF SellerAccept
  <2>2. CASE CustomerAccept(r)
    <3>1. PICK c : AcceptCommercially(req[r].status, seller, c)
      BY <2>2 DEF CustomerAccept
    <3> QED BY <2>2, <3>1, <1>2, FirstAcceptance DEF CustomerAccept
  <2> QED BY <2>1, <2>2
<1> QED BY <1>2, <1>3, <1>4 DEF AtRest, RequestNamesItsOrder

\* What closes a request for good leaves nothing in progress that could write.
ClosedStays == status \in ClosedForGood => status' = status

LEMMA RestNext ==
  ASSUME IInv, AtRest, OneAtATime, [Next]_vars
  PROVE  AtRest' /\ ClosedStays
<1>1. ASSUME NEW r \in Requests, RequestStep(r) PROVE AtRest' /\ ClosedStays
  BY <1>1, ReadIsOpen, ReadRests, CommitRests, AcceptRests DEF RequestStep, ClosedStays
<1>2. CASE UNCHANGED <<status, seller, terms, orders, req>>
  BY <1>2 DEF AtRest, RequestNamesItsOrder, ClosedStays
<1>3. CASE ExpireOnRead \/ SweepRequest
  <2>1. /\ status \in Pending /\ status' = "EXPIRED"
        /\ UNCHANGED <<seller, terms, orders, req>>
    BY <1>3 DEF ExpireOnRead, SweepRequest, Due
  <2>2. orders = <<>>
    BY <2>1 DEF AtRest, Pending
  <2> QED BY <2>1, <2>2 DEF AtRest, RequestNamesItsOrder, ClosedStays, ClosedForGood, Pending,
             Terminal
<1> QED BY <1>1, <1>2, <1>3 DEF Next, vars, Lapse, SweepMatches, SweepCounter, AssignRead,
           AssignWrite, WorkerRestart

\* One request at a time: the purchase request names the seller and the terms
\* of its order (respond, acceptCommercially).
THEOREM OrdersAreNamed == ASSUME OneAtATime PROVE Spec => []RequestNamesItsOrder
<1>1. Init => AtRest
  BY DEF Init, AtRest, RequestNamesItsOrder, ClosedForGood, Terminal
<1>2. IInv /\ AtRest /\ [Next]_vars => AtRest'
  BY RestNext
<1>3. AtRest => RequestNamesItsOrder
  BY DEF AtRest
<1> QED BY <1>1, <1>2, <1>3, Inductive, PTL DEF Spec

\* One request at a time: a rejected, cancelled or converted request stays as it
\* is (TERMINAL_STATUSES); two overlapping requests reopen it, as the run
\* procurement_converted finds.
THEOREM ClosedStaysClosed == ASSUME OneAtATime PROVE Spec => ClosedIsFinal
<1>1. Init => AtRest
  BY DEF Init, AtRest, RequestNamesItsOrder, ClosedForGood, Terminal
<1>2. IInv /\ AtRest /\ [Next]_vars => AtRest' /\ ClosedStays
  BY RestNext
<1>3. ClosedStays => (status \in Terminal \ {"EXPIRED"} => status' = status)
  BY DEF ClosedStays, ClosedForGood
<1> QED BY <1>1, <1>2, <1>3, Inductive, PTL DEF Spec, ClosedIsFinal

-----------------------------------------------------------------------------
(* The pending counter offer *)

\* At most one is pending, and a counter offer about to be recorded knows it.
PendingKnown ==
  /\ \A c, d \in PendingCounters : c = d
  /\ \A r \in Requests :
       req[r].at = "commit" /\ req[r].kind = "COUNTER" =>
         PendingCounters \subseteq {req[r].latest}

\* An answered offer is pending no more.
LEMMA AnsweredPending ==
  ASSUME counters \in Seq(Counter), NEW c \in Nat, NEW st, st # "PENDING"
  PROVE  /\ {d \in DOMAIN Answered(c, st) : Answered(c, st)[d].status = "PENDING"}
              = PendingCounters \ {c}
         /\ {d \in DOMAIN WithStatus(c, st) : WithStatus(c, st)[d].status = "PENDING"}
              = PendingCounters \ {c}
<1>1. {d \in DOMAIN WithStatus(c, st) : WithStatus(c, st)[d].status = "PENDING"}
        = PendingCounters \ {c}
  BY DEF WithStatus, PendingCounters
<1>2. c = 0 => c \notin DOMAIN counters
  OBVIOUS
<1>3. c = 0 => PendingCounters \ {c} = PendingCounters
  BY <1>2 DEF PendingCounters
<1> QED BY <1>1, <1>3 DEF Answered, PendingCounters

\* Fewer pending offers, and no new request that is about to record one.
LEMMA FewerPending ==
  ASSUME PendingKnown, PendingCounters' \subseteq PendingCounters,
         \A r \in Requests :
           req'[r].at = "commit" /\ req'[r].kind = "COUNTER" => req'[r] = req[r]
  PROVE  PendingKnown'
BY DEF PendingKnown

\* The read before a counter offer finds the one that is pending.
LEMMA ProposeKnows ==
  ASSUME IInv, PendingKnown, OneAtATime, NEW r \in Requests, ProposeRead(r)
  PROVE  PendingKnown'
<1>1. PICK latest \in Latest, top \in HighestRound :
        req' = [req EXCEPT ![r] =
                  [at |-> "commit", kind |-> req[r].kind, by |-> req[r].by,
                   seller |-> req[r].seller, status |-> req[r].status,
                   latest |-> latest, round |-> top + 1]]
  BY DEF ProposeRead
<1>2. req'[r].latest = latest
  BY <1>1 DEF IInv, TypeOK
<1>3. PendingCounters' = PendingCounters
  BY DEF ProposeRead, PendingCounters
<1>4. PendingCounters \subseteq {latest}
  <2>1. CASE PendingCounters = {}
    BY <2>1
  <2>2. CASE PendingCounters # {}
    <3>1. latest \in PendingCounters
      BY <2>2 DEF Latest
    <3> QED BY <3>1 DEF PendingKnown
  <2> QED BY <2>1, <2>2
<1> QED BY <1>2, <1>3, <1>4 DEF PendingKnown, OneAtATime

\* Recording an offer supersedes the one that is pending.
LEMMA OfferSupersedes ==
  ASSUME IInv, PendingKnown, OneAtATime, NEW r \in Requests, CounterOffer(r)
  PROVE  PendingKnown'
<1> DEFINE before == Answered(req[r].latest, "SUPERSEDED")
           offer == [by |-> req[r].by, round |-> req[r].round, status |-> "PENDING"]
<1>1. /\ Done(r) /\ counters' = Append(before, offer)
      /\ req[r].at = "commit" /\ req[r].kind = "COUNTER"
  BY DEF CounterOffer, Committing
<1>2. req[r].latest \in Nat /\ counters \in Seq(Counter)
  BY RequestFacts, CountersAssumption DEF IInv, TypeOK, Terms
<1>3. before \in Seq(Counter)
  BY <1>2, AnsweredFacts
<1>4. {d \in DOMAIN before : before[d].status = "PENDING"} = {}
  <2>1. {d \in DOMAIN before : before[d].status = "PENDING"}
          = PendingCounters \ {req[r].latest}
    BY <1>2, AnsweredPending
  <2>2. PendingCounters \subseteq {req[r].latest}
    BY <1>1 DEF PendingKnown
  <2> HIDE DEF before
  <2> QED BY <2>1, <2>2
<1> HIDE DEF before, offer
<1>5. PendingCounters' \subseteq {Len(before) + 1}
  <2>1. \A d \in DOMAIN counters' : d \in DOMAIN before \/ d = Len(before) + 1
    BY <1>1, <1>3
  <2>2. \A d \in DOMAIN before : counters'[d] = before[d]
    BY <1>1, <1>3
  <2> QED BY <1>4, <2>1, <2>2 DEF PendingCounters
<1>6. \A q \in Requests : req'[q].at = "idle"
  BY <1>1, DoneIdle
<1> QED BY <1>5, <1>6 DEF PendingKnown

LEMMA PendingNext ==
  ASSUME IInv, PendingKnown, OneAtATime, [Next]_vars
  PROVE  PendingKnown'
<1>1. counters \in Seq(Counter) /\ \A r \in Requests : req[r].latest \in Nat
  BY CountersAssumption, RequestFacts DEF IInv, TypeOK, Terms
<1>2. ASSUME UNCHANGED counters PROVE PendingCounters' = PendingCounters
  BY <1>2 DEF PendingCounters
<1>3. ASSUME NEW r \in Requests, Done(r), PendingCounters' \subseteq PendingCounters
      PROVE  PendingKnown'
  <2>1. \A q \in Requests : req'[q].at = "idle"
    BY <1>3, DoneIdle
  <2> QED BY <1>3, <2>1, FewerPending
<1>4. ASSUME NEW r \in Requests, NEW at, NEW kind, NEW by, Start(r, at, kind, by),
             at = "commit" => kind # "COUNTER", UNCHANGED counters
      PROVE  PendingKnown'
  <2>1. req'[r].at = at /\ req'[r].kind = kind
    BY <1>4 DEF Start, IInv, TypeOK
  <2> QED BY <1>2, <1>4, <2>1, FewerPending DEF OneAtATime
<1>5. ASSUME NEW r \in Requests, NEW at, NEW kind, NEW by, NEW latest,
             Hold(r, at, kind, by, latest),
             at = "commit" => kind # "COUNTER", UNCHANGED counters
      PROVE  PendingKnown'
  <2>1. req'[r].at = at /\ req'[r].kind = kind
    BY <1>5 DEF Hold, IInv, TypeOK
  <2> QED BY <1>2, <1>5, <2>1, FewerPending DEF OneAtATime
<1>6. ASSUME NEW r \in Requests, NEW s \in Sellers, NEW kind \in SellerKinds,
             RespondOpen(r, s, kind)
      PROVE  PendingKnown'
  BY <1>4, <1>6 DEF RespondOpen
<1>7. ASSUME NEW r \in Requests, RespondRead(r) PROVE PendingKnown'
  <2>1. PICK latest \in Latest :
          Hold(r, IF req[r].kind = "COUNTER" THEN "propose" ELSE "commit",
               req[r].kind, req[r].by, latest)
    BY <1>7 DEF RespondRead
  <2>2. UNCHANGED counters
    BY <1>7 DEF RespondRead
  <2> QED BY <1>5, <2>1, <2>2
<1>8. ASSUME NEW r \in Requests, NEW kind \in CustomerKinds, CustomerRead(r, kind)
      PROVE  PendingKnown'
  BY <1>4, <1>5, <1>8 DEF CustomerRead
<1>9. ASSUME NEW r \in Requests, CancelRead(r) \/ ExpireRead(r) PROVE PendingKnown'
  BY <1>4, <1>9 DEF CancelRead, ExpireRead
<1>10. ASSUME NEW r \in Requests,
              SellerAccept(r) \/ CustomerAccept(r) \/ SellerReject(r) \/ CustomerReject(r)
       PROVE  PendingKnown'
  <2>1. \E c \in Nat : \E st \in {"ACCEPTED", "REJECTED"} : counters' = Answered(c, st)
    BY <1>1, <1>10 DEF SellerAccept, CustomerAccept, SellerReject, CustomerReject
  <2>2. PendingCounters' \subseteq PendingCounters
    BY <1>1, <2>1, AnsweredPending DEF PendingCounters
  <2>3. Done(r)
    BY <1>10 DEF SellerAccept, CustomerAccept, SellerReject, CustomerReject
  <2> QED BY <1>3, <2>2, <2>3
<1>11. ASSUME NEW r \in Requests,
              SoftResponse(r) \/ Cancel(r) \/ ExpireRequest(r) \/ Abort(r)
       PROVE  PendingKnown'
  BY <1>2, <1>3, <1>11 DEF SoftResponse, Cancel, ExpireRequest, Abort
<1>12. ASSUME NEW r \in Requests, RequestStep(r) PROVE PendingKnown'
  BY <1>6, <1>7, <1>8, <1>9, <1>10, <1>11, <1>12, ProposeKnows, OfferSupersedes
  DEF RequestStep
<1>13. ASSUME NEW c \in DOMAIN counters, SweepCounter(c) PROVE PendingKnown'
  <2>0. c \in Nat /\ "EXPIRED" # "PENDING" /\ counters' = WithStatus(c, "EXPIRED")
    BY <1>1, <1>13 DEF SweepCounter
  <2>1. PendingCounters' \subseteq PendingCounters
    <3>1. {d \in DOMAIN WithStatus(c, "EXPIRED") :
             WithStatus(c, "EXPIRED")[d].status = "PENDING"} = PendingCounters \ {c}
      BY <1>1, <2>0, AnsweredPending
    <3> QED BY <2>0, <3>1 DEF PendingCounters
  <2> QED BY <1>13, <2>1, FewerPending DEF SweepCounter
<1>14. CASE UNCHANGED <<counters, req>>
  BY <1>2, <1>14, FewerPending
<1> QED BY <1>12, <1>13, <1>14 DEF Next, vars, Lapse, ExpireOnRead, SweepRequest,
           SweepMatches, AssignRead, AssignWrite, WorkerRestart

\* One request at a time: one offer of the negotiation is pending at most, since
\* each new one supersedes the last (createCounter).
THEOREM OneOfferPending == ASSUME OneAtATime PROVE Spec => []OnePendingCounter
<1>1. Init => PendingKnown
  BY DEF Init, PendingKnown, PendingCounters
<1>2. IInv /\ PendingKnown /\ [Next]_vars => PendingKnown'
  BY PendingNext
<1>3. PendingKnown => OnePendingCounter
  <2>1. SUFFICES ASSUME PendingKnown PROVE Cardinality(PendingCounters) <= 1
    BY DEF OnePendingCounter
  <2>2. CASE PendingCounters = {}
    BY <2>2, FS_EmptySet
  <2>3. ASSUME NEW c \in PendingCounters PROVE Cardinality(PendingCounters) <= 1
    <3>1. PendingCounters = {c}
      BY <2>1, <2>3 DEF PendingKnown
    <3>2. Cardinality({c}) = 1
      BY FS_Singleton
    <3> QED BY <3>1, <3>2
  <2> QED BY <2>2, <2>3
<1> QED BY <1>1, <1>2, <1>3, Inductive, PTL DEF Spec
===============================================================================
