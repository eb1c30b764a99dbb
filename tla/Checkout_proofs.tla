---------------------------- MODULE Checkout_proofs ----------------------------
(* Proof that a submission is answered once for a quote and once for a key,  *)
(* and that a quote buys a live offer at its price, for any number of        *)
(* offers, quotes, keys, buyers' requests and page requests; and that what a *)
(* quote of a credit purchase is checked for covers the order, for any offer *)
(* and configuration (CommercePricing).                                      *)
EXTENDS Checkout, FiniteSetTheorems, TLAPS

Pricing == INSTANCE CommercePricing

Inv == CheckoutConstants /\ IInv

-----------------------------------------------------------------------------
\* What a page decides on.
LEMMA PagesDecide ==
  ASSUME CheckoutConstants, NEW e \in Editors, NEW o \in Offers,
         EditRead(e, o) \/ ReviseRead(e, o)
  PROVE  \E x \in Edit :
           /\ edit' = [edit EXCEPT ![e] = x] /\ UNCHANGED <<offer, holder>>
           /\ x.o \in Offers
           /\ x.waits = 0 => x.status = "SAME" /\ x.deleted = 0
<1> DEFINE Decided(x) == /\ x \in Edit /\ x.o \in Offers
                         /\ x.waits = 0 => x.status = "SAME" /\ x.deleted = 0
<1>1. ASSUME NEW kind, NEW edits, \A x \in edits : Decided(x), Reads(e, kind, edits)
      PROVE  \E x \in Edit : /\ edit' = [edit EXCEPT ![e] = x] /\ UNCHANGED <<offer, holder>>
                             /\ x.o \in Offers
                             /\ x.waits = 0 => x.status = "SAME" /\ x.deleted = 0
  BY <1>1 DEF Reads
<1>2. \A status \in Status : Decided(Set(o, status))
  BY DEF Set, Edit
<1>3. \A p \in Prices : Decided(Price(o, p))
  BY DEF Price, Edit
<1> DEFINE s == offer[o].status
<1>4. \A x \in Activate(o, s) : Decided(x)
  BY <1>2 DEF Activate, When, Status
<1>5. \A x \in Pause(o, s) : Decided(x)
  BY <1>2 DEF Pause, When, Status
<1>6. \A x \in Expire(o, s) : Decided(x)
  BY <1>2 DEF Expire, When, Status
<1>7. \A x \in Cancel(o, s) : Decided(x)
  BY DEF Cancel, When, Edit, Status
<1>8. \A x \in Update(o, s) : Decided(x)
  BY <1>3 DEF Update, When
<1>9. \A x \in Listing(o) : Decided(x)
  BY DEF Listing, Edit, Status
<1>10. \A x \in Tier(o, s) : Decided(x)
  BY DEF Tier, Edit
<1>11. \A x \in Decide(o) : Decided(x)
  BY <1>2 DEF Decide, Status
<1>12. \A x \in Correct(o) : Decided(x)
  BY <1>3 DEF Correct
<1> HIDE DEF Decided
<1> QED BY <1>1, <1>4, <1>5, <1>6, <1>7, <1>8, <1>9, <1>10, <1>11, <1>12
        DEF EditRead, ReviseRead

\* A page's write never touches what a transaction that holds the offer checked.
LEMMA WritesSpareTheLocked ==
  ASSUME Inv, NEW e \in Editors, EditWrite(e)
  PROVE  /\ offer' \in [Offers -> Offer]
         /\ \A o \in Offers : holder[o] # NoBuyer /\ Live(o) => Live(o)'
<1>1. PICK x \in Edit :
        /\ x.o \in Offers
        /\ x.waits = 0 => x.status = "SAME" /\ x.deleted = 0
        /\ x.waits = 1 => holder[x.o] = NoBuyer
        /\ offer' = [offer EXCEPT ![x.o] = Written(offer[x.o], x)]
  BY DEF Inv, IInv, RowsTyped, EditsAreDecided, EditWrite
<1>2. offer \in [Offers -> Offer]
  BY DEF Inv, IInv, RowsTyped
<1>3. Written(offer[x.o], x) \in Offer
  BY <1>1, <1>2 DEF Written, Offer, Edit
<1>4. /\ offer' \in [Offers -> Offer]
      /\ offer'[x.o] = Written(offer[x.o], x)
      /\ \A o \in Offers \ {x.o} : offer'[o] = offer[o]
  BY <1>1, <1>2, <1>3
<1>5. ASSUME x.waits = 0, Live(x.o) PROVE Live(x.o)'
  BY <1>1, <1>4, <1>5 DEF Live, Written
<1>6. x.waits \in {0, 1}
  BY <1>1 DEF Edit
<1> QED BY <1>1, <1>4, <1>5, <1>6 DEF Live

-----------------------------------------------------------------------------
LEMMA InvInit == CheckoutConstants /\ Init => Inv
<1> SUFFICES ASSUME CheckoutConstants, Init PROVE IInv
  BY DEF Inv
<1>1. RowsTyped
  <2>1. offer \in [Offers -> Offer]
    BY DEF Init, OffersInit, Offer, Status
  <2>2. holder \in [Offers -> Buyers \cup {NoBuyer}] /\ edit \in [Editors -> Edit]
    BY DEF Init, OffersInit, NoEdit, Edit
  <2>3. quote \in [Quotes -> Quote]
    BY DEF Init, Quote
  <2> QED BY <2>1, <2>2, <2>3 DEF Init, RowsTyped
<1>2. EditsAreDecided
  BY DEF Init, OffersInit, EditsAreDecided, NoEdit
<1>3. QuotesHaveOffers /\ LocksHold
  BY DEF Init, QuotesHaveOffers, LocksHold, LockHolds, Idle
<1>4. KeysAreKept /\ SubmitsOnce
  BY DEF Init, KeysAreKept, SubmitsOnce, QuoteBuysOnce, KeyNamesOneSubmission
<1> QED BY <1>1, <1>2, <1>3, <1>4 DEF IInv

\* What the buyers' requests did is the same, and the offers they hold are as
\* they were checked.
LEMMA OffersStep ==
  ASSUME Inv, OffersNext, UNCHANGED buyerVars
  PROVE  Inv'
<1> USE DEF Inv, IInv
<1>1. QuotesHaveOffers' /\ KeysAreKept' /\ SubmitsOnce'
  BY DEF buyerVars, QuotesHaveOffers, KeysAreKept, SubmitsOnce, QuoteBuysOnce,
         KeyNamesOneSubmission
<1>2. CheckoutConstants'
  BY DEF CheckoutConstants, OffersConstants
<1>3. ASSUME NEW e \in Editors, NEW o \in Offers, EditRead(e, o) \/ ReviseRead(e, o)
      PROVE  RowsTyped' /\ EditsAreDecided' /\ LocksHold'
  <2>1. PICK x \in Edit :
          /\ edit' = [edit EXCEPT ![e] = x] /\ UNCHANGED <<offer, holder>>
          /\ x.o \in Offers
          /\ x.waits = 0 => x.status = "SAME" /\ x.deleted = 0
    BY <1>3, PagesDecide
  <2>2. RowsTyped'
    BY <2>1 DEF RowsTyped, buyerVars
  <2>3. EditsAreDecided'
    BY <2>1 DEF EditsAreDecided, RowsTyped
  <2>4. LocksHold'
    BY <2>1 DEF LocksHold, LockHolds, Live, buyerVars
  <2> QED BY <2>2, <2>3, <2>4
<1>4. ASSUME NEW e \in Editors, EditWrite(e)
      PROVE  RowsTyped' /\ EditsAreDecided' /\ LocksHold'
  <2>1. /\ holder' = holder /\ edit' = [edit EXCEPT ![e] = NoEdit]
        /\ NoEdit \in Edit /\ NoEdit.status = "SAME" /\ NoEdit.deleted = 0
    BY <1>4 DEF EditWrite, NoEdit, Edit
  <2>2. /\ offer' \in [Offers -> Offer]
        /\ \A o \in Offers : holder[o] # NoBuyer /\ Live(o) => Live(o)'
    BY <1>4, WritesSpareTheLocked
  <2>3. RowsTyped'
    BY <2>1, <2>2 DEF RowsTyped, buyerVars
  <2>4. EditsAreDecided'
    BY <2>1 DEF EditsAreDecided, RowsTyped
  <2>5. LocksHold'
    BY <2>1, <2>2 DEF LocksHold, LockHolds, QuotesHaveOffers, buyerVars, CheckoutConstants, OffersConstants
  <2> QED BY <2>3, <2>4, <2>5
<1>5. ASSUME NEW e \in Editors, EditFails(e)
      PROVE  RowsTyped' /\ EditsAreDecided' /\ LocksHold'
  <2>1. /\ UNCHANGED <<offer, holder>> /\ edit' = [edit EXCEPT ![e] = NoEdit]
        /\ NoEdit \in Edit /\ NoEdit.status = "SAME" /\ NoEdit.deleted = 0
    BY <1>5 DEF EditFails, NoEdit, Edit
  <2>2. RowsTyped'
    BY <2>1 DEF RowsTyped, buyerVars
  <2>3. EditsAreDecided'
    BY <2>1 DEF EditsAreDecided, RowsTyped
  <2>4. LocksHold'
    BY <2>1 DEF LocksHold, LockHolds, Live, buyerVars
  <2> QED BY <2>2, <2>3, <2>4
<1> QED BY <1>1, <1>2, <1>3, <1>4, <1>5 DEF OffersNext

-----------------------------------------------------------------------------
\* A step that leaves the offers, their holders, the quotes and the requests
\* alone; a submission goes on only to what its quote and its lock allow.
LEMMA Frame ==
  ASSUME Inv, UNCHANGED <<offerVars, quote, orders, batches>>,
         DOMAIN sub' = Buyers, LocksHold'
  PROVE  Inv'
<1> USE DEF Inv, IInv
<1>1. RowsTyped' /\ EditsAreDecided' /\ QuotesHaveOffers'
  BY DEF RowsTyped, EditsAreDecided, QuotesHaveOffers, offerVars
<1>2. KeysAreKept' /\ SubmitsOnce'
  BY DEF KeysAreKept, SubmitsOnce, QuoteBuysOnce, KeyNamesOneSubmission
<1> QED BY <1>1, <1>2 DEF CheckoutConstants, OffersConstants

\* Submissions other than b are the same; b holds what its place allows.
LEMMA OneGoes ==
  ASSUME Inv, NEW b \in Buyers, UNCHANGED <<offer, quote>>,
         \A c \in Buyers \ {b} : sub'[c] = sub[c],
         \A o \in Offers : holder[o] \in Buyers \ {b} => holder'[o] = holder[o],
         LockHolds(b)'
  PROVE  LocksHold'
<1> USE DEF Inv, IInv
<1>1. ASSUME NEW c \in Buyers \ {b} PROVE LockHolds(c)'
  <2>1. /\ sub'[c] = sub[c] /\ LockHolds(c)
        /\ sub[c].at \in {"locked", "fresh", "stuck"} =>
             quote[sub[c].quote].o \in Offers /\ holder[quote[sub[c].quote].o] = c
    BY DEF LocksHold, LockHolds, QuotesHaveOffers
  <2> QED BY <2>1 DEF LockHolds, Live
<1> QED BY <1>1 DEF LocksHold

\* The cart changes nothing the invariant speaks of.
LEMMA CartPages ==
  ASSUME Inv, (\E o \in Offers : AddItem(o) \/ RemoveItem(o)) \/ ClearCart
  PROVE  Inv'
<1>1. UNCHANGED <<offerVars, quote, orders, batches, sub>>
  BY DEF AddItem, RemoveItem, ClearCart
<1>2. LocksHold' /\ DOMAIN sub' = Buyers
  BY <1>1 DEF Inv, IInv, RowsTyped, LocksHold, LockHolds, Live, offerVars
<1> QED BY <1>1, <1>2, Frame

\* A quote that is made, or expires, is not one that was used.
LEMMA QuoteMoves ==
  ASSUME Inv, NEW q \in Quotes, NEW x \in Quote,
         UNCHANGED <<offer, orders, batches>>,
         quote' = [quote EXCEPT ![q] = x],
         quote[q].state # "used", x.state \in {"open", "expired"}, x.o \in Offers
  PROVE  QuotesHaveOffers' /\ KeysAreKept' /\ SubmitsOnce' /\ quote' \in [Quotes -> Quote]
<1> USE DEF Inv, IInv
<1>1. quote' \in [Quotes -> Quote]
  BY DEF RowsTyped
<1>2. QuotesHaveOffers' /\ KeysAreKept'
  BY <1>1 DEF RowsTyped, QuotesHaveOffers, KeysAreKept
<1>3. SubmitsOnce'
  BY <1>1 DEF RowsTyped, SubmitsOnce, QuoteBuysOnce, KeyNamesOneSubmission
<1> QED BY <1>1, <1>2, <1>3

LEMMA RequestStep ==
  ASSUME Inv, NEW q \in Quotes, NEW o \in Offers, RequestQuote(q, o)
  PROVE  Inv'
<1> USE DEF Inv, IInv
<1> DEFINE x == [o |-> o, price |-> offer[o].price, state |-> "open"]
<1>1. /\ x \in Quote /\ quote[q].state = "none"
      /\ quote' = [quote EXCEPT ![q] = x]
      /\ UNCHANGED <<offerVars, orders, batches, sub>>
  BY DEF RequestQuote, Quoted, RowsTyped, Offer, Quote
<1>2. QuotesHaveOffers' /\ KeysAreKept' /\ SubmitsOnce' /\ quote' \in [Quotes -> Quote]
  BY <1>1, QuoteMoves DEF offerVars
<1>3. RowsTyped' /\ EditsAreDecided'
  BY <1>1, <1>2 DEF RowsTyped, EditsAreDecided, offerVars
<1>4. LocksHold'
  BY <1>1 DEF LocksHold, LockHolds, Live, offerVars, RowsTyped
<1> QED BY <1>2, <1>3, <1>4 DEF CheckoutConstants, OffersConstants

LEMMA ExpiryStep ==
  ASSUME Inv, NEW q \in Quotes, QuoteExpires(q)
  PROVE  Inv'
<1> USE DEF Inv, IInv
<1>1. PICK x \in Quote :
        /\ x.o = quote[q].o /\ x.state = "expired" /\ quote[q].state = "open"
        /\ quote' = [quote EXCEPT ![q] = x]
        /\ UNCHANGED <<offerVars, orders, batches, sub>>
  <2>1. [o |-> quote[q].o, price |-> quote[q].price, state |-> "expired"] \in Quote
    BY DEF RowsTyped, Quote
  <2> QED BY <2>1 DEF QuoteExpires
<1>2. x.o \in Offers
  BY <1>1 DEF QuotesHaveOffers
<1>3. QuotesHaveOffers' /\ KeysAreKept' /\ SubmitsOnce' /\ quote' \in [Quotes -> Quote]
  BY <1>1, <1>2, QuoteMoves DEF offerVars
<1>4. RowsTyped' /\ EditsAreDecided'
  BY <1>1, <1>3 DEF RowsTyped, EditsAreDecided, offerVars
<1>5. LocksHold'
  BY <1>1 DEF LocksHold, LockHolds, Live, offerVars, RowsTyped
<1> QED BY <1>3, <1>4, <1>5 DEF CheckoutConstants, OffersConstants

-----------------------------------------------------------------------------
(* Submissions.  A step of b that neither makes requests nor touches quotes  *)
(* needs LockHolds(b)' only.                                                 *)
LEMMA OneStep ==
  ASSUME Inv, NEW b \in Buyers, NEW x,
         UNCHANGED <<offer, edit, quote, orders, batches>>,
         sub' = [sub EXCEPT ![b] = x],
         holder' \in [Offers -> Buyers \cup {NoBuyer}],
         \A o \in Offers : holder[o] \in Buyers \ {b} => holder'[o] = holder[o],
         LockHolds(b)'
  PROVE  Inv'
<1> USE DEF Inv, IInv
<1>1. /\ DOMAIN sub' = Buyers
      /\ \A c \in Buyers \ {b} : sub'[c] = sub[c]
  BY DEF RowsTyped
<1>2. LocksHold'
  BY <1>1, OneGoes
<1>3. RowsTyped' /\ EditsAreDecided' /\ QuotesHaveOffers'
  BY <1>1 DEF RowsTyped, EditsAreDecided, QuotesHaveOffers
<1>4. KeysAreKept' /\ SubmitsOnce'
  BY DEF KeysAreKept, SubmitsOnce, QuoteBuysOnce, KeyNamesOneSubmission
<1> QED BY <1>2, <1>3, <1>4 DEF CheckoutConstants, OffersConstants

\* Frees lets go of what b holds, and of nothing else.
LEMMA FreesOwn ==
  ASSUME Inv, NEW b \in Buyers, Frees(b)
  PROVE  /\ holder' \in [Offers -> Buyers \cup {NoBuyer}]
         /\ \A o \in Offers : holder[o] \in Buyers \ {b} => holder'[o] = holder[o]
BY DEF Inv, IInv, RowsTyped, Frees

\* The steps of a submission that keep its transaction's locks as they are.
LEMMA QuoteBeginStep ==
  ASSUME Inv, NEW b \in Buyers, NEW key, NEW q \in Quotes, QuoteBegin(b, key, q)
  PROVE  Inv'
<1> USE DEF Inv, IInv
<1> DEFINE at == IF SamePrice(q) THEN "begin" ELSE "requote"
<1>1. PICK x : /\ x = [at |-> at, key |-> key, quote |-> q, rows |-> NoRows]
               /\ sub' = [sub EXCEPT ![b] = x]
               /\ UNCHANGED <<offerVars, quote, orders, batches>>
  BY DEF QuoteBegin
<1>2. x.at \in {"begin", "requote"} /\ x.quote = q
  BY <1>1
<1>3. sub'[b] = x
  BY <1>1 DEF RowsTyped
<1>4. quote[q].state # "none"
  BY DEF QuoteBegin, Fresh, Unused
<1>5. LockHolds(b)'
  BY <1>1, <1>2, <1>3, <1>4 DEF LockHolds
<1> QED BY <1>1, <1>5, OneStep DEF RowsTyped, offerVars

LEMMA LockOfferStep ==
  ASSUME Inv, NEW b \in Buyers, LockOffer(b)
  PROVE  Inv'
<1> USE DEF Inv, IInv
<1>1. PICK x : /\ x = [at |-> "locked", key |-> sub[b].key, quote |-> sub[b].quote,
                       rows |-> sub[b].rows]
               /\ sub' = [sub EXCEPT ![b] = x]
  BY DEF LockOffer, Goes
<1>2. PICK q \in Quotes : q = sub[b].quote /\ quote[q].state # "none"
  BY DEF LockOffer, LocksHold, LockHolds
<1>3. PICK o \in Offers : o = quote[q].o
  BY <1>2 DEF QuotesHaveOffers
<1>4. /\ holder[o] = NoBuyer /\ holder' = [holder EXCEPT ![o] = b]
      /\ UNCHANGED <<offer, edit, quote, orders, batches>>
  BY <1>2, <1>3 DEF LockOffer, Takes
<1>5. /\ holder' \in [Offers -> Buyers \cup {NoBuyer}] /\ holder'[o] = b
      /\ \A p \in Offers : holder[p] \in Buyers \ {b} => holder'[p] = holder[p]
  BY <1>4 DEF RowsTyped, CheckoutConstants, OffersConstants
<1>6. sub'[b] = x
  BY <1>1 DEF RowsTyped
<1>7. LockHolds(b)'
  BY <1>1, <1>2, <1>3, <1>4, <1>5, <1>6 DEF LockHolds
<1> QED BY <1>1, <1>4, <1>5, <1>7, OneStep

LEMMA GoesStep ==
  ASSUME Inv, NEW b \in Buyers,
         Recheck(b) \/ Stuck(b) \/ CartPrice(b)
  PROVE  Inv'
<1> USE DEF Inv, IInv
<1>1. PICK at \in {"fresh", "stuck", "priced"} :
        /\ Goes(b, at)
        /\ at # "priced" => sub[b].at = "locked"
        /\ at = "fresh" => Fresh(sub[b].quote)
        /\ UNCHANGED <<offerVars, quote, orders, batches>>
  BY DEF Recheck, Stuck, CartPrice
<1>2. PICK x :
        /\ x = [at |-> at, key |-> sub[b].key, quote |-> sub[b].quote, rows |-> sub[b].rows]
        /\ sub' = [sub EXCEPT ![b] = x]
  BY <1>1 DEF Goes
<1>3. sub'[b] = x
  BY <1>2 DEF RowsTyped
<1>4. LockHolds(b)'
  BY <1>1, <1>2, <1>3 DEF LocksHold, LockHolds, Fresh, Unused, Live, offerVars
<1> QED BY <1>1, <1>2, <1>4, OneStep DEF RowsTyped, offerVars

LEMMA TimesOutStep ==
  ASSUME Inv, NEW b \in Buyers, TimesOut(b)
  PROVE  Inv'
<1> USE DEF Inv, IInv
<1>1. PICK x :
        /\ x = [at |-> "requote", key |-> sub[b].key, quote |-> sub[b].quote,
                rows |-> sub[b].rows]
        /\ sub' = [sub EXCEPT ![b] = x]
  BY DEF TimesOut, Goes
<1>2. sub'[b] = x
  BY <1>1 DEF RowsTyped
<1>3. LockHolds(b)'
  BY <1>1, <1>2 DEF TimesOut, LocksHold, LockHolds
<1> QED BY <1>1, <1>3, OneStep, FreesOwn DEF TimesOut

LEMMA CartBeginStep ==
  ASSUME Inv, NEW b \in Buyers, NEW key, NEW selected, CartBegin(b, key, selected)
  PROVE  Inv'
<1> USE DEF Inv, IInv
<1>1. PICK x : /\ x.at = "cart" /\ sub' = [sub EXCEPT ![b] = x]
               /\ UNCHANGED <<offerVars, quote, orders, batches>>
  BY DEF CartBegin
<1>2. sub'[b] = x
  BY <1>1 DEF RowsTyped
<1>3. LockHolds(b)'
  BY <1>1, <1>2 DEF LockHolds
<1> QED BY <1>1, <1>3, OneStep DEF RowsTyped, offerVars

LEMMA FailsStep ==
  ASSUME Inv, NEW b \in Buyers, Fails(b)
  PROVE  Inv'
<1> USE DEF Inv, IInv
<1>1. sub' = [sub EXCEPT ![b] = Idle] /\ Idle.at = "idle"
  BY DEF Fails, Ends, Idle
<1>2. sub'[b] = Idle
  BY <1>1 DEF RowsTyped
<1>3. LockHolds(b)'
  BY <1>1, <1>2 DEF LockHolds
<1> QED BY <1>1, <1>3, OneStep, FreesOwn DEF Fails

-----------------------------------------------------------------------------
(* The steps that write quotes or requests. *)
LEMMA RequoteStep ==
  ASSUME Inv, NEW b \in Buyers, NEW q \in Quotes, Requote(b, q)
  PROVE  Inv'
<1> USE DEF Inv, IInv
<1>1. PICK o \in Offers : o = quote[sub[b].quote].o
  BY DEF Requote, LocksHold, LockHolds, QuotesHaveOffers
<1>2. PICK x \in Quote :
        /\ x.state = "open" /\ x.o = o /\ quote[q].state = "none"
        /\ quote' = [quote EXCEPT ![q] = x]
  <2>1. [o |-> o, price |-> offer[o].price, state |-> "open"] \in Quote
    BY DEF RowsTyped, Offer, Quote
  <2> QED BY <1>1, <2>1 DEF Requote, Quoted
<1>3. /\ UNCHANGED <<offer, holder, edit, orders, batches>>
      /\ sub' = [sub EXCEPT ![b] = Idle] /\ Idle.at = "idle"
  BY DEF Requote, offerVars, Ends, Idle
<1>4. QuotesHaveOffers' /\ KeysAreKept' /\ SubmitsOnce' /\ quote' \in [Quotes -> Quote]
  BY <1>2, <1>3, QuoteMoves
<1>5. RowsTyped' /\ EditsAreDecided'
  BY <1>3, <1>4 DEF RowsTyped, EditsAreDecided
<1>6. LocksHold'
  <2>1. ASSUME NEW c \in Buyers PROVE LockHolds(c)'
    <3>1. LockHolds(c) /\ (sub'[c] = sub[c] \/ sub'[c] = Idle)
      BY <1>3 DEF LocksHold, RowsTyped
    <3>2. \A p \in Quotes : quote[p].state # "none" => quote'[p] = quote[p]
      BY <1>2, <1>3 DEF RowsTyped
    <3> QED BY <1>3, <3>1, <3>2 DEF LockHolds, Live
  <2> QED BY <2>1 DEF LocksHold
<1> QED BY <1>4, <1>5, <1>6 DEF CheckoutConstants, OffersConstants

\* New requests of one submission, the first of them with the key.
LEMMA NewRequests ==
  ASSUME Inv, NEW key, NEW new,
         KeyFree(key),
         orders' = orders \cup new, batches' = batches + 1,
         \A r \in new : r.nr = batches + 1 /\ r.batch = key,
         \E r \in new : r.key = key
  PROVE  /\ KeysAreKept' /\ KeyNamesOneSubmission'
         /\ batches' \in Nat /\ \A r \in orders' : r.nr \in 1..batches'
<1> USE DEF Inv, IInv
<1>1. \A r \in orders : r.batch = key => key = NoKey
  BY DEF KeysAreKept, KeyFree, Known
<1>2. KeyNamesOneSubmission'
  BY <1>1 DEF SubmitsOnce, KeyNamesOneSubmission
<1>3. KeysAreKept'
  BY DEF KeysAreKept
<1>4. batches' \in Nat /\ \A r \in orders' : r.nr \in 1..batches'
  <2>1. batches \in Nat /\ \A r \in orders : r.nr \in 1..batches
    BY DEF RowsTyped
  <2>2. \A r \in orders : r.nr \in 1..(batches + 1)
    BY <2>1
  <2> QED BY <2>1, <2>2
<1> QED BY <1>2, <1>3, <1>4

LEMMA QuoteCommitStep ==
  ASSUME Inv, NEW b \in Buyers, QuoteCommit(b)
  PROVE  Inv' /\ BoughtStep
<1> USE DEF Inv, IInv
<1>1. PICK q \in Quotes : q = sub[b].quote /\ quote[q].state \in {"open", "expired"}
  BY DEF QuoteCommit, LocksHold, LockHolds
<1>2. PICK o \in Offers : o = quote[q].o /\ Live(o)
  BY <1>1 DEF QuoteCommit, LocksHold, LockHolds, QuotesHaveOffers
<1>3. PICK x \in Quote : x.o = o /\ x.state = "used" /\ quote' = [quote EXCEPT ![q] = x]
  <2>1. [o |-> o, price |-> quote[q].price, state |-> "used"] \in Quote
    BY DEF RowsTyped, Quote
  <2> QED BY <1>1, <1>2, <2>1 DEF QuoteCommit
<1>4. PICK key, r :
        /\ KeyFree(key) /\ orders' = orders \cup {r} /\ batches' = batches + 1
        /\ r.nr = batches + 1 /\ r.batch = key /\ r.key = key
        /\ r.quote = q /\ r.price = quote[q].price /\ r.lines = {o}
  <2> DEFINE key == sub[b].key
             r == [nr |-> batches + 1, batch |-> key, key |-> key, quote |-> q,
                   price |-> quote[q].price, lines |-> {o}]
  <2>1. /\ KeyFree(key) /\ orders' = orders \cup {r} /\ batches' = batches + 1
    BY <1>1, <1>2 DEF QuoteCommit
  <2>2. /\ r.nr = batches + 1 /\ r.batch = key /\ r.key = key
        /\ r.quote = q /\ r.price = quote[q].price /\ r.lines = {o}
    OBVIOUS
  <2> HIDE DEF key, r
  <2> QED BY <2>1, <2>2
<1>5. /\ UNCHANGED <<offer, edit>> /\ Frees(b)
      /\ sub' = [sub EXCEPT ![b] = Idle] /\ Idle.at = "idle"
  BY DEF QuoteCommit, Ends, Idle
<1>6. KeysAreKept' /\ KeyNamesOneSubmission' /\ batches' \in Nat
      /\ \A y \in orders' : y.nr \in 1..batches'
  BY <1>4, NewRequests
<1>7. quote' \in [Quotes -> Quote] /\ quote'[q] = x
      /\ \A p \in Quotes \ {q} : quote'[p] = quote[p]
  BY <1>3 DEF RowsTyped
<1>8. QuotesHaveOffers'
  BY <1>3, <1>7 DEF QuotesHaveOffers
<1>9. QuoteBuysOnce'
  <2>1. \A y \in orders : y.quote # q
    BY <1>1 DEF SubmitsOnce, QuoteBuysOnce
  <2>2. q # NoQuote
    BY DEF CheckoutConstants
  <2> QED BY <1>3, <1>4, <1>7, <2>1, <2>2 DEF SubmitsOnce, QuoteBuysOnce
<1>10. RowsTyped' /\ EditsAreDecided'
  BY <1>5, <1>6, <1>7, FreesOwn DEF RowsTyped, EditsAreDecided
<1>11. LocksHold'
  <2>1. ASSUME NEW c \in Buyers PROVE LockHolds(c)'
    <3>1. CASE c = b
      BY <1>5, <3>1 DEF LockHolds, RowsTyped
    <3>2. CASE c # b
      <4>1. sub'[c] = sub[c] /\ LockHolds(c)
        BY <1>5, <3>2 DEF LocksHold, RowsTyped
      <4>2. sub[c].at \in {"locked", "fresh", "stuck"} =>
              /\ quote[sub[c].quote].o \in Offers
              /\ holder[quote[sub[c].quote].o] = c
              /\ holder'[quote[sub[c].quote].o] = c
        BY <1>5, <3>2, <4>1, FreesOwn DEF LockHolds, QuotesHaveOffers
      <4>3. \A p \in Quotes : quote'[p].o = quote[p].o
                              /\ (quote[p].state # "none" => quote'[p].state # "none")
        BY <1>1, <1>2, <1>3, <1>7
      <4>4. sub[c].at = "fresh" => sub[c].quote # q
        BY <1>1, <1>2, <1>5, <3>2, <4>1, <4>2 DEF QuoteCommit, LocksHold, LockHolds
      <4> QED BY <1>5, <1>7, <4>1, <4>2, <4>3, <4>4 DEF LockHolds, Live
    <3> QED BY <3>1, <3>2
  <2> QED BY <2>1 DEF LocksHold
<1>12. BoughtStep
  BY <1>2, <1>4, <1>5 DEF BoughtStep, Live
<1> QED BY <1>6, <1>8, <1>9, <1>10, <1>11, <1>12
        DEF SubmitsOnce, CheckoutConstants, OffersConstants

LEMMA CartCommitStep ==
  ASSUME Inv, NEW b \in Buyers, NEW first, CartCommit(b, first)
  PROVE  Inv' /\ BoughtStep
<1> USE DEF Inv, IInv
<1>1. PICK key, new :
        /\ KeyFree(key) /\ orders' = orders \cup new /\ batches' = batches + 1
        /\ \A r \in new : r.nr = batches + 1 /\ r.batch = key /\ r.quote = NoQuote
        /\ \E r \in new : r.key = key
  <2> DEFINE key == sub[b].key
             sellers == {SellerOf[o] : o \in Chosen(b)}
             Request(s) == [nr |-> batches + 1, batch |-> key,
                            key |-> IF s = first THEN key ELSE NoKey, quote |-> NoQuote,
                            price |-> 0, lines |-> {o \in Chosen(b) : SellerOf[o] = s}]
             new == {Request(s) : s \in sellers}
  <2>1. /\ KeyFree(key) /\ orders' = orders \cup new /\ batches' = batches + 1
        /\ first \in sellers
    BY Zenon DEF CartCommit
  <2>2. \A s : /\ Request(s).nr = batches + 1 /\ Request(s).batch = key
               /\ Request(s).quote = NoQuote /\ (s = first => Request(s).key = key)
    OBVIOUS
  <2> HIDE DEF key, sellers, Request
  <2>3. /\ \A r \in new : r.nr = batches + 1 /\ r.batch = key /\ r.quote = NoQuote
        /\ \E r \in new : r.key = key
    BY <2>1, <2>2
  <2> HIDE DEF new
  <2> QED BY <2>1, <2>3
<1>2. /\ UNCHANGED <<offer, holder, edit, quote>>
      /\ sub' = [sub EXCEPT ![b] = Idle] /\ Idle.at = "idle"
  BY DEF CartCommit, offerVars, Ends, Idle
<1>3. KeysAreKept' /\ KeyNamesOneSubmission' /\ batches' \in Nat
      /\ \A y \in orders' : y.nr \in 1..batches'
  BY <1>1, NewRequests
<1>4. QuoteBuysOnce'
  BY <1>1, <1>2 DEF SubmitsOnce, QuoteBuysOnce, CheckoutConstants
<1>5. RowsTyped' /\ EditsAreDecided' /\ QuotesHaveOffers'
  BY <1>2, <1>3 DEF RowsTyped, EditsAreDecided, QuotesHaveOffers
<1>6. LocksHold'
  <2>1. LockHolds(b)'
    BY <1>2 DEF LockHolds, RowsTyped
  <2>2. \A c \in Buyers \ {b} : sub'[c] = sub[c]
    BY <1>2 DEF RowsTyped
  <2> QED BY <1>2, <2>1, <2>2, OneGoes
<1>7. BoughtStep
  BY <1>1 DEF BoughtStep
<1> QED BY <1>3, <1>4, <1>5, <1>6, <1>7 DEF SubmitsOnce, CheckoutConstants, OffersConstants

-----------------------------------------------------------------------------
(* The theorems. *)
LEMMA NothingBought ==
  ASSUME orders' = orders PROVE BoughtStep
BY DEF BoughtStep

LEMMA SubmitStep ==
  ASSUME Inv, NEW b \in Buyers, Submit(b)
  PROVE  Inv' /\ BoughtStep
<1>1. CASE \E key \in Keys \cup {NoKey}, q \in Quotes : QuoteBegin(b, key, q)
  BY <1>1, QuoteBeginStep, NothingBought DEF QuoteBegin
<1>2. CASE \E key \in Keys \cup {NoKey}, selected \in SUBSET Offers :
             CartBegin(b, key, selected)
  BY <1>2, CartBeginStep, NothingBought DEF CartBegin
<1>3. CASE LockOffer(b)
  BY <1>3, LockOfferStep, NothingBought DEF LockOffer
<1>4. CASE Recheck(b) \/ Stuck(b) \/ CartPrice(b)
  BY <1>4, GoesStep, NothingBought DEF Recheck, Stuck, CartPrice
<1>5. CASE TimesOut(b)
  BY <1>5, TimesOutStep, NothingBought DEF TimesOut
<1>6. CASE \E q \in Quotes : Requote(b, q)
  BY <1>6, RequoteStep, NothingBought DEF Requote
<1>7. CASE QuoteCommit(b)
  BY <1>7, QuoteCommitStep
<1>8. CASE \E o \in Offers : CartCommit(b, SellerOf[o])
  BY <1>8, CartCommitStep
<1>9. CASE Fails(b)
  BY <1>9, FailsStep, NothingBought DEF Fails
<1> QED BY <1>1, <1>2, <1>3, <1>4, <1>5, <1>6, <1>7, <1>8, <1>9 DEF Submit

LEMMA InvNext == Inv /\ [Next]_vars => Inv' /\ [BoughtStep]_vars
<1> SUFFICES ASSUME Inv, [Next]_vars PROVE Inv' /\ [BoughtStep]_vars
  OBVIOUS
<1>1. CASE OffersNext /\ UNCHANGED buyerVars
  BY <1>1, OffersStep, NothingBought DEF buyerVars
<1>2. CASE (\E o \in Offers : AddItem(o) \/ RemoveItem(o)) \/ ClearCart
  BY <1>2, CartPages, NothingBought DEF AddItem, RemoveItem, ClearCart
<1>3. CASE \E o \in Offers, q \in Quotes : RequestQuote(q, o)
  BY <1>3, RequestStep, NothingBought DEF RequestQuote
<1>4. CASE \E q \in Quotes : QuoteExpires(q)
  BY <1>4, ExpiryStep, NothingBought DEF QuoteExpires
<1>5. CASE \E b \in Buyers : Submit(b)
  BY <1>5, SubmitStep
<1>6. CASE UNCHANGED vars
  <2>1. UNCHANGED <<offerVars, quote, orders, batches, sub>>
    BY <1>6 DEF vars, buyerVars
  <2>2. LocksHold' /\ DOMAIN sub' = Buyers
    BY <2>1 DEF Inv, IInv, RowsTyped, LocksHold, LockHolds, Live, offerVars
  <2> QED BY <1>6, <2>1, <2>2, Frame
<1> QED BY <1>1, <1>2, <1>3, <1>4, <1>5, <1>6 DEF Next

\* A submission is answered once for a quote and once for a key: the quote's
\* row is used with the one request from it, and the requests under one key are
\* from one submission, for any number of submissions at once (create and
\* createFromQuote of the purchase requests).
THEOREM SubmissionsAreAnsweredOnce == CheckoutConstants /\ Spec => []SubmitsOnce
<1>1. Inv => SubmitsOnce
  BY DEF Inv, IInv
<1> QED BY <1>1, InvInit, InvNext, PTL DEF Spec

\* A request from a quote is made at the quote's price and while its offer is
\* live, whatever pages change the offer at the same time: the lock of
\* createFromQuote covers the second check and the insert.
THEOREM QuotesAreBoughtLive == CheckoutConstants /\ Spec => QuotesBuyLiveOffers
BY InvInit, InvNext, PTL DEF Spec, QuotesBuyLiveOffers

-----------------------------------------------------------------------------
(* The amounts of a quote, and what the order made of it costs. *)

\* Rounding keeps an amount a natural number, at each of the scales in use.
LEMMA RoundedIsNat ==
  ASSUME NEW n \in Nat
  PROVE  /\ Pricing!RoundHalfUp(n, Pricing!PerCent) \in Nat
         /\ Pricing!RoundHalfUp(n, 10000) \in Nat
         /\ Pricing!RoundHalfUp(n, 1000) \in Nat
BY DEF Pricing!RoundHalfUp, Pricing!PerCent

\* For any price, quantity and configuration, the quote of a credit purchase
\* is at least the total of the order that buildSnapshot makes at its price.
LEMMA QuoteCoversOrder ==
  ASSUME NEW u \in Nat, NEW q \in Nat, NEW method \in Pricing!CreditMethods, NEW config \in Pricing!Config,
         NEW total \in Pricing!OrderTotals(u, q)
  PROVE  total <= Pricing!QuoteTotal(u, q, method, config)
<1> DEFINE base == Pricing!RoundHalfUp(u * q, Pricing!PerCent)
           discount == Pricing!RoundHalfUp(base * Pricing!DiscountBps(method, config), 10000)
           freight == Pricing!RoundHalfUp(config.freightPerMt * q, 1000)
           taxable == base - discount + freight + config.fee
           tax == Pricing!RoundHalfUp(taxable * config.gstBps, 10000)
<1>1. base \in Nat
  <2>1. u * q \in Nat
    OBVIOUS
  <2> QED BY <2>1, RoundedIsNat
<1>2. discount = 0
  <2>1. Pricing!DiscountBps(method, config) = 0
    BY DEF Pricing!DiscountBps, Pricing!CreditMethods
  <2>2. base * 0 = 0
    BY <1>1
  <2> QED BY <2>1, <2>2 DEF Pricing!RoundHalfUp
<1>3. freight \in Nat /\ config.fee \in Nat /\ config.insurance \in Nat /\ config.gstBps \in Nat
  <2>1. config.freightPerMt \in Nat /\ config.fee \in Nat /\ config.insurance \in Nat
          /\ config.gstBps \in Nat
    BY DEF Pricing!Config
  <2>2. config.freightPerMt * q \in Nat
    BY <2>1
  <2> QED BY <2>1, <2>2, RoundedIsNat
<1>4. taxable \in Nat /\ base <= taxable
  BY <1>1, <1>2, <1>3
<1>5. tax \in Nat
  <2>1. taxable * config.gstBps \in Nat
    BY <1>3, <1>4
  <2> QED BY <2>1, RoundedIsNat
<1>6. total <= base
  BY <1>1 DEF Pricing!OrderTotals
<1>7. total \in Int
  BY <1>1 DEF Pricing!OrderTotals
<1>8. Pricing!QuoteTotal(u, q, method, config) = taxable + tax + config.insurance
  BY DEF Pricing!QuoteTotal
<1> HIDE DEF base, discount, freight, taxable, tax
<1> QED BY <1>1, <1>3, <1>4, <1>5, <1>6, <1>7, <1>8

\* A price tier of an offer; its upper end may lie below its lower one.
Tiers == [min : Nat, max : Nat, price : Nat]

\* The first tier that spans a quantity exists, so the price is that of a tier
\* or the base price.
LEMMA UnitPriceIsNat ==
  ASSUME NEW base \in Nat, NEW tiers \in SUBSET Tiers, NEW q
  PROVE  Pricing!UnitPrice(base, tiers, q) \in Nat
<1> DEFINE spanning == {t \in tiers : t.min <= q /\ q <= t.max}
           First(t) == \A x \in spanning : t.min <= x.min
<1>1. CASE spanning = {}
  BY <1>1 DEF Pricing!UnitPrice
<1>2. CASE spanning # {}
  <2> DEFINE mins == {t.min : t \in spanning}
             Less == {ss \in Nat \X Nat : ss[1] < ss[2]}
  <2>1. mins \in SUBSET Nat /\ mins # {}
    BY <1>2 DEF Tiers
  <2>2. PICK m \in mins : \A n \in mins : ~ (<<n, m>> \in Less)
    <3>1. IsWellFoundedOn(Less, Nat)
      BY NatLessThanWellFounded DEF OpToRel
    <3> HIDE DEF mins, Less
    <3> QED BY <2>1, <3>1, WFMin
  <2>3. ASSUME NEW n \in mins PROVE m <= n
    <3>1. <<n, m>> \in Nat \X Nat /\ m \in Nat /\ n \in Nat
      BY <2>1
    <3>2. ~ (n < m)
      BY <2>2, <3>1
    <3> QED BY <3>1, <3>2
  <2>4. PICK t \in spanning : t.min = m
    OBVIOUS
  <2>5. First(t)
    BY <2>3, <2>4
  <2>6. (CHOOSE x \in spanning : First(x)) \in spanning
    <3> HIDE DEF First, spanning
    <3> QED BY <2>5
  <2>7. (CHOOSE x \in spanning : First(x)).price \in Nat
    BY <2>6 DEF Tiers
  <2> QED BY <1>2, <2>7 DEF Pricing!UnitPrice
<1> QED BY <1>1, <1>2

\* The credit check of a quote covers the order, for any offer, quantity,
\* method and configuration: the checkout compared no less with the available
\* credit than buildSnapshot's order asks the ledger to reserve.
THEOREM CreditCheckCoversOrder ==
  ASSUME NEW o, o.base \in Nat, o.tiers \in SUBSET Tiers,
         NEW q \in Nat, NEW method, NEW config \in Pricing!Config
  PROVE  Pricing!CheckCoversOrder(o, q, method, config)
<1> DEFINE u == Pricing!UnitPrice(o.base, o.tiers, q)
<1>1. u \in Nat
  BY UnitPriceIsNat
<1> HIDE DEF u
<1>2. ASSUME method \in Pricing!CreditMethods, NEW total \in Pricing!OrderTotals(u, q)
      PROVE  total <= Pricing!QuoteTotal(u, q, method, config)
  BY <1>1, <1>2, QuoteCoversOrder
<1> QED BY <1>2 DEF Pricing!CheckCoversOrder, u

-----------------------------------------------------------------------------
(* Types.  What a submission works on is typed as long as the quote that it *)
(* is of was made: the invariant tells.                                     *)

\* The rows of the cart, the requests and the submissions.
Buying ==
  /\ cart \in [Offers -> 0..MaxRows] /\ lastRow \in 0..MaxRows
  /\ orders \subseteq Order /\ batches \in 0..MaxBatches
  /\ sub \in [Buyers -> Submission]

\* One submission moves to another place.
LEMMA OneMoves ==
  ASSUME sub \in [Buyers -> Submission], NEW b \in Buyers, NEW c \in Submission,
         sub' = [sub EXCEPT ![b] = c]
  PROVE  sub' \in [Buyers -> Submission]
  OBVIOUS

LEMMA SubmissionsTyped ==
  ASSUME CheckoutConstants, Buying, NEW b \in Buyers
  PROVE  /\ Idle \in Submission /\ NoRows \in [Offers -> 0..MaxRows]
         /\ \A at \in {"locked", "fresh", "stuck", "requote", "priced"} :
              [at |-> at, key |-> sub[b].key, quote |-> sub[b].quote, rows |-> sub[b].rows] \in Submission
<1>1. NoRows \in [Offers -> 0..MaxRows]
  BY DEF NoRows, CheckoutConstants
<1>2. Idle \in Submission
  BY <1>1 DEF Idle, Submission
<1>3. sub[b] \in Submission
  BY DEF Buying
<1>. QED  BY <1>1, <1>2, <1>3 DEF Submission

\* The steps of a submission before its commit, and those that end it without one.
LEMMA GoesTyped ==
  ASSUME CheckoutConstants, Buying, NEW b \in Buyers,
         \/ Ends(b)
         \/ \E at \in {"locked", "fresh", "stuck", "requote", "priced"} : Goes(b, at),
         UNCHANGED <<cart, lastRow, orders, batches>>
  PROVE  Buying'
<1>1. PICK c \in Submission : sub' = [sub EXCEPT ![b] = c]
  BY SubmissionsTyped DEF Ends, Goes
<1>. QED  BY <1>1, OneMoves DEF Buying

LEMMA BeginsTyped ==
  ASSUME CheckoutConstants, Buying, NEW b \in Buyers, NEW key \in Keys \cup {NoKey},
         \/ \E q \in Quotes : QuoteBegin(b, key, q)
         \/ \E selected \in SUBSET Offers : CartBegin(b, key, selected)
  PROVE  Buying'
<1>1. ASSUME NEW q \in Quotes, QuoteBegin(b, key, q) PROVE Buying'
  <2>1. PICK c : /\ c = [at |-> IF SamePrice(q) THEN "begin" ELSE "requote",
                         key |-> key, quote |-> q, rows |-> NoRows]
                 /\ sub' = [sub EXCEPT ![b] = c] /\ UNCHANGED <<cart, lastRow, orders, batches>>
    BY <1>1 DEF QuoteBegin
  <2>2. c \in Submission
    BY <2>1, SubmissionsTyped DEF Submission
  <2>. QED  BY <2>1, <2>2, OneMoves DEF Buying
<1>2. ASSUME NEW selected \in SUBSET Offers, CartBegin(b, key, selected) PROVE Buying'
  <2> DEFINE rows == [o \in Offers |-> IF o \in selected THEN cart[o] ELSE 0]
  <2>1. rows \in [Offers -> 0..MaxRows]
    BY DEF Buying, CheckoutConstants
  <2>2. PICK c : /\ c = [at |-> "cart", key |-> key, quote |-> NoQuote, rows |-> rows]
                 /\ sub' = [sub EXCEPT ![b] = c] /\ UNCHANGED <<cart, lastRow, orders, batches>>
    BY <1>2 DEF CartBegin
  <2> HIDE DEF rows
  <2>3. c \in Submission
    BY <2>1, <2>2 DEF Submission
  <2>. QED  BY <2>2, <2>3, OneMoves DEF Buying
<1>. QED  BY <1>1, <1>2

LEMMA CartTyped ==
  ASSUME CheckoutConstants, Buying,
         ClearCart \/ \E o \in Offers : AddItem(o) \/ RemoveItem(o)
  PROVE  Buying'
<1>1. CASE ClearCart
  BY <1>1 DEF ClearCart, Buying, NoRows, CheckoutConstants
<1>2. ASSUME NEW o \in Offers, AddItem(o) PROVE Buying'
  BY <1>2 DEF AddItem, Buying, CheckoutConstants
<1>3. ASSUME NEW o \in Offers, RemoveItem(o) PROVE Buying'
  BY <1>3 DEF RemoveItem, Buying, CheckoutConstants
<1>. QED  BY <1>1, <1>2, <1>3

LEMMA QuoteCommitTyped ==
  ASSUME Inv, Buying, NEW b \in Buyers, QuoteCommit(b)
  PROVE  Buying'
<1> DEFINE q == sub[b].quote
           o == quote[q].o
<1>1. /\ sub[b].at = "fresh" /\ batches < MaxBatches /\ batches' = batches + 1
      /\ orders' = orders \cup
           {[nr |-> batches + 1, batch |-> sub[b].key, key |-> sub[b].key, quote |-> q,
             price |-> quote[q].price, lines |-> {o}]}
      /\ cart' = [cart EXCEPT ![o] = 0]
      /\ Ends(b) /\ UNCHANGED lastRow
  BY DEF QuoteCommit
<1>2. q \in Quotes /\ o \in Offers
  BY <1>1 DEF Inv, IInv, LocksHold, LockHolds, QuotesHaveOffers
<1>3. quote[q].price \in Prices \cup {0} /\ sub[b].key \in Keys \cup {NoKey}
  BY <1>2 DEF Inv, IInv, RowsTyped, Quote, Buying, Submission
<1> HIDE DEF o, q
<1>4. batches + 1 \in 1..MaxBatches /\ MaxRows \in Nat
  BY <1>1 DEF Buying, Inv, CheckoutConstants
<1>5. orders' \subseteq Order
  <2>1. [nr |-> batches + 1, batch |-> sub[b].key, key |-> sub[b].key, quote |-> q,
         price |-> quote[q].price, lines |-> {o}] \in Order
    BY <1>2, <1>3, <1>4 DEF Order
  <2>. QED  BY <1>1, <2>1 DEF Buying
<1>6. cart' \in [Offers -> 0..MaxRows]
  <2>1. cart \in [Offers -> 0..MaxRows] /\ 0 \in 0..MaxRows
    BY <1>4 DEF Buying
  <2>. QED  BY <1>1, <2>1
<1>7. sub' \in [Buyers -> Submission]
  <2>1. Idle \in Submission
    BY SubmissionsTyped DEF Inv
  <2>. QED  BY <1>1, <2>1, OneMoves DEF Ends, Buying
<1>. QED  BY <1>1, <1>4, <1>5, <1>6, <1>7 DEF Buying

LEMMA CartCommitTyped ==
  ASSUME Inv, Buying, NEW b \in Buyers, NEW first, CartCommit(b, first)
  PROVE  Buying'
<1> DEFINE sellers == {SellerOf[o] : o \in Chosen(b)}
           New(s) == [nr |-> batches + 1, batch |-> sub[b].key,
                      key |-> IF s = first THEN sub[b].key ELSE NoKey, quote |-> NoQuote, price |-> 0,
                      lines |-> {o \in Chosen(b) : SellerOf[o] = s}]
<1>1. /\ batches < MaxBatches /\ batches' = batches + 1
      /\ orders' = orders \cup {New(s) : s \in sellers}
      /\ cart' = [o \in Offers |-> IF sub[b].rows[o] = cart[o] THEN 0 ELSE cart[o]]
      /\ Ends(b) /\ UNCHANGED lastRow
  BY DEF CartCommit
<1>2. batches + 1 \in 1..MaxBatches /\ MaxRows \in Nat
  BY <1>1 DEF Buying, Inv, CheckoutConstants
<1>3. \A s : New(s) \in Order
  <2>1. sub[b].key \in Keys \cup {NoKey} /\ Chosen(b) \subseteq Offers
    BY DEF Buying, Submission, Chosen
  <2>. QED  BY <1>2, <2>1 DEF Order
<1> HIDE DEF New, sellers
<1>4. orders' \subseteq Order
  BY <1>1, <1>3 DEF Buying
<1>5. cart' \in [Offers -> 0..MaxRows]
  BY <1>1, <1>2 DEF Buying
<1>6. sub' \in [Buyers -> Submission]
  <2>1. Idle \in Submission
    BY SubmissionsTyped DEF Inv
  <2>. QED  BY <1>1, <2>1, OneMoves DEF Ends, Buying
<1>. QED  BY <1>1, <1>2, <1>4, <1>5, <1>6 DEF Buying

LEMMA BuyingStep ==
  ASSUME Inv, Buying, [Next]_vars
  PROVE  Buying'
<1>1. CASE UNCHANGED buyerVars
  BY <1>1 DEF buyerVars, Buying
<1>2. ASSUME NEW q \in Quotes, QuoteExpires(q) \/ \E o \in Offers : RequestQuote(q, o)
      PROVE  Buying'
  BY <1>2 DEF QuoteExpires, RequestQuote, Buying
<1>3. ASSUME NEW b \in Buyers, Submit(b) PROVE Buying'
  <2>1. CASE \/ LockOffer(b) \/ Recheck(b) \/ Stuck(b) \/ TimesOut(b) \/ CartPrice(b) \/ Fails(b)
             \/ \E q \in Quotes : Requote(b, q)
    <3>1. UNCHANGED <<cart, lastRow, orders, batches>>
      BY <2>1 DEF LockOffer, Recheck, Stuck, TimesOut, CartPrice, Fails, Requote
    <3>2. Ends(b) \/ \E at \in {"locked", "fresh", "stuck", "requote", "priced"} : Goes(b, at)
      BY <2>1 DEF LockOffer, Recheck, Stuck, TimesOut, CartPrice, Fails, Requote
    <3>. QED  BY <3>1, <3>2, GoesTyped DEF Inv
  <2>. QED  BY <1>3, <2>1, BeginsTyped, QuoteCommitTyped, CartCommitTyped DEF Submit, Inv
<1>. QED  BY <1>1, <1>2, <1>3, CartTyped DEF Next, vars, Inv

\* Offers, quotes, the cart, the purchase requests and the submissions stay
\* what their columns can hold: a request from a quote has the offer and the
\* price of a quote that was made, whenever it was read, and a request from the
\* cart has offers (createFromQuote and create of the purchase requests).
THEOREM CheckoutIsTyped == CheckoutConstants /\ Spec => []TypeOK
<1>1. CheckoutConstants /\ Init => Buying
  BY DEF Init, Buying, NoRows, Idle, Submission, CheckoutConstants
<1>2. Inv /\ Buying => TypeOK
  BY DEF Inv, IInv, RowsTyped, Buying, TypeOK, OffersTypeOK
<1>. QED  BY <1>1, <1>2, InvInit, InvNext, BuyingStep, PTL DEF Spec
=============================================================================
