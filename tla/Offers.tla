-------------------------------- MODULE Offers --------------------------------
(***************************************************************************)
(* The offers of the sellers and the pages that change them: the seller's  *)
(* offer, listing and price pages, the administrators' offer and price     *)
(* pages.  A handler reads the offer, decides on the status it read, and   *)
(* then writes the row by its id: another write may come between, also the *)
(* one that deletes the offer.                                             *)
(*                                                                         *)
(* A write of the row waits for the transaction that holds it FOR UPDATE   *)
(* (holder, see Checkout).  One price stands for the base price and the    *)
(* tiers: what a buyer of the quantity at hand pays.                       *)
(***************************************************************************)
EXTENDS Integers

CONSTANTS
  Offers, Prices,
  Editors,       \* page requests of sellers and administrators
  EditKinds,     \* bound: the pages in use
  Buyers,        \* the requests that may hold an offer
  NoOffer, NoBuyer

\* What the module takes for granted of its constants.
OffersConstants ==
  /\ NoOffer \notin Offers /\ NoBuyer \notin Buyers
  /\ Prices \subseteq Nat \ {0}

VARIABLES
  offer,    \* the offers rows
  holder,   \* per offer: the request whose transaction locks the row
  edit      \* page requests between their read and their write

offerVars == <<offer, holder, edit>>

Status == {"DRAFT", "PENDING_REVIEW", "ACTIVE", "PAUSED", "REJECTED", "EXPIRED", "CLOSED"}
Offer == [status : Status, deleted : {0, 1}, price : Prices]

\* What a page will write: "SAME" and 0 leave the field alone; waits tells
\* whether the write locks the offer's row.
Edit == [o : Offers \cup {NoOffer}, status : Status \cup {"SAME"},
         price : Prices \cup {0}, deleted : {0, 1}, waits : {0, 1}]
NoEdit == [o |-> NoOffer, status |-> "SAME", price |-> 0, deleted |-> 0, waits |-> 0]

OffersInit ==
  /\ offer \in [Offers -> [status : {"DRAFT", "ACTIVE"}, deleted : {0}, price : Prices]]
  /\ holder = [o \in Offers |-> NoBuyer]
  /\ edit = [e \in Editors |-> NoEdit]

-----------------------------------------------------------------------------
(* The pages.  Each is the edit it decides on for an offer it read in      *)
(* status s.                                                               *)

Set(o, status) == [o |-> o, status |-> status, price |-> 0, deleted |-> 0, waits |-> 1]
Price(o, p) == [o |-> o, status |-> "SAME", price |-> p, deleted |-> 0, waits |-> 1]

When(possible, edits) == IF possible THEN edits ELSE {}

\* activate, which resumes a paused offer.
Activate(o, s) == When(s \in {"DRAFT", "PENDING_REVIEW", "PAUSED"}, {Set(o, "ACTIVE")})
Pause(o, s) == When(s \in {"ACTIVE", "PENDING_REVIEW"}, {Set(o, "PAUSED")})
Expire(o, s) == When(s \notin {"EXPIRED", "CLOSED"}, {Set(o, "EXPIRED")})

\* cancel, which is softDelete.
Cancel(o, s) ==
  When(s \notin {"EXPIRED", "CLOSED"},
       {[o |-> o, status |-> "CLOSED", price |-> 0, deleted |-> 1, waits |-> 1]})

\* update; the seller's edit of a listing, which may publish the offer again.
Update(o, s) == When(s \notin {"ACTIVE", "EXPIRED"}, {Price(o, p) : p \in Prices})
Listing(o) ==
  {[o |-> o, status |-> t, price |-> p, deleted |-> 0, waits |-> 1] :
     t \in {"ACTIVE", "SAME"}, p \in Prices}

\* The price of a tier.  For an active offer it comes with a price revision,
\* whose reference to the offer waits for the lock; a tier of an offer that was
\* not active, and the quantities of any tier, change beside it.
Tier(o, s) ==
  {[o |-> o, status |-> "SAME", price |-> p, deleted |-> 0, waits |-> w] :
     p \in Prices, w \in IF s = "ACTIVE" THEN {0, 1} ELSE {0}}

\* The administrators: setStatus; updatePrice and approveRevision.
Decide(o) == {Set(o, status) : status \in {"ACTIVE", "REJECTED", "PAUSED"}}
Correct(o) == {Price(o, p) : p \in Prices}

Reads(e, kind, edits) ==
  /\ kind \in EditKinds
  /\ edit[e] = NoEdit
  /\ \E x \in edits : edit' = [edit EXCEPT ![e] = x]
  /\ UNCHANGED <<offer, holder>>

\* Every page looks for an offer that is not deleted ...
EditRead(e, o) ==
  LET s == offer[o].status IN
  /\ offer[o].deleted = 0
  /\ \/ Reads(e, "ACTIVATE", Activate(o, s))
     \/ Reads(e, "PAUSE", Pause(o, s))
     \/ Reads(e, "EXPIRE", Expire(o, s))
     \/ Reads(e, "CANCEL", Cancel(o, s))
     \/ Reads(e, "UPDATE", Update(o, s))
     \/ Reads(e, "LISTING", Listing(o))
     \/ Reads(e, "TIER", Tier(o, s))
     \/ Reads(e, "DECIDE", Decide(o))
     \/ Reads(e, "CORRECT", Correct(o))

\* ... but that of price revisions.
ReviseRead(e, o) == Reads(e, "REVISE", Correct(o))

\* The write by id, whatever the row has become.
Written(row, x) ==
  [status |-> IF x.status = "SAME" THEN row.status ELSE x.status,
   deleted |-> IF x.deleted = 1 THEN 1 ELSE row.deleted,
   price |-> IF x.price = 0 THEN row.price ELSE x.price]

EditWrite(e) ==
  /\ edit[e] # NoEdit
  /\ edit[e].waits = 1 => holder[edit[e].o] = NoBuyer
  /\ offer' = [offer EXCEPT ![edit[e].o] = Written(@, edit[e])]
  /\ edit' = [edit EXCEPT ![e] = NoEdit]
  /\ UNCHANGED holder

\* A page request may end before its write.
EditFails(e) ==
  /\ edit[e] # NoEdit
  /\ edit' = [edit EXCEPT ![e] = NoEdit]
  /\ UNCHANGED <<offer, holder>>

OffersNext ==
  \E e \in Editors :
    \/ \E o \in Offers : EditRead(e, o) \/ ReviseRead(e, o)
    \/ EditWrite(e)
    \/ EditFails(e)

\* assertMarketplaceOffer: what buyers may order.  The validity dates, the
\* product and the grade of the offer are taken as given.
Live(o) == offer[o].deleted = 0 /\ offer[o].status = "ACTIVE"

OffersTypeOK ==
  /\ offer \in [Offers -> Offer]
  /\ holder \in [Offers -> Buyers \cup {NoBuyer}]
  /\ edit \in [Editors -> Edit]
=============================================================================
