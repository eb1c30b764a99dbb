------------------------------- MODULE Checkout -------------------------------
(***************************************************************************)
(* A buyer's way from the cart or a quote to purchase requests, beside the *)
(* pages that change the offers.                                           *)
(*                                                                         *)
(* A quote fixes the price of one offer.  A submission of a quote checks   *)
(* it, locks the offer in a transaction, checks the quote again, and makes *)
(* one purchase request.  A submission of the cart reads the cart, reads   *)
(* the offers in a transaction without a lock, and makes one request per   *)
(* seller.  Both first look for requests made under their idempotency key; *)
(* the key is a unique column of purchase_requests.                        *)
(*                                                                         *)
(* Inserting a quote, a cart row or a request refers to the offer and so   *)
(* waits, as an update of it does, for whoever holds it FOR UPDATE.        *)
(***************************************************************************)
EXTENDS Offers

CONSTANTS
  Quotes, Keys,
  SellerOf,             \* the seller of an offer
  MaxRows, MaxBatches,  \* bounds: cart rows and submissions that succeed
  NoQuote, NoKey

\* What the module takes for granted of its constants.
CheckoutConstants ==
  /\ OffersConstants
  /\ NoQuote \notin Quotes /\ NoKey \notin Keys
  /\ MaxRows \in Nat /\ MaxBatches \in Nat

VARIABLES
  quote,    \* the checkout_quotes rows
  cart,     \* per offer: the id of its row in the buyer's cart, 0 for none
  lastRow,  \* the last id given to a cart row
  orders,   \* the purchase requests
  batches,  \* submissions that succeeded
  sub       \* submissions in progress

buyerVars == <<quote, cart, lastRow, orders, batches, sub>>
vars == <<offerVars, buyerVars>>

Quote == [o : Offers \cup {NoOffer}, price : Prices \cup {0},
          state : {"none", "open", "expired", "used"}]
\* A purchase request: the submission it is from and its batch key, its own key
\* (only the first of a submission has it), the quote and its price, the offers.
Order == [nr : 1..MaxBatches, batch : Keys \cup {NoKey}, key : Keys \cup {NoKey},
          quote : Quotes \cup {NoQuote}, price : Prices \cup {0}, lines : SUBSET Offers]
Submission == [at : {"idle", "begin", "locked", "fresh", "stuck", "requote", "cart", "priced"},
               key : Keys \cup {NoKey}, quote : Quotes \cup {NoQuote},
               rows : [Offers -> 0..MaxRows]]

NoRows == [o \in Offers |-> 0]
Idle == [at |-> "idle", key |-> NoKey, quote |-> NoQuote, rows |-> NoRows]

Init ==
  /\ OffersInit
  /\ quote = [q \in Quotes |-> [o |-> NoOffer, price |-> 0, state |-> "none"]]
  /\ cart = NoRows /\ lastRow = 0
  /\ orders = {} /\ batches = 0
  /\ sub = [b \in Buyers |-> Idle]

Ends(b) == sub' = [sub EXCEPT ![b] = Idle]
Goes(b, at) ==
  sub' = [sub EXCEPT ![b] = [at |-> at, key |-> sub[b].key, quote |-> sub[b].quote,
                             rows |-> sub[b].rows]]
Takes(b, o) == holder' = [holder EXCEPT ![o] = b]
Frees(b) == holder' = [o \in Offers |-> IF holder[o] = b THEN NoBuyer ELSE holder[o]]

-----------------------------------------------------------------------------
(* The cart *)

\* addItem of an offer that has no row yet.  Quantities and stored prices,
\* which the other cart pages change, are left out.
AddItem(o) ==
  /\ Live(o) /\ cart[o] = 0 /\ lastRow < MaxRows
  /\ holder[o] = NoBuyer
  /\ cart' = [cart EXCEPT ![o] = lastRow + 1]
  /\ lastRow' = lastRow + 1
  /\ UNCHANGED <<offerVars, quote, orders, batches, sub>>

RemoveItem(o) ==
  /\ cart[o] # 0
  /\ cart' = [cart EXCEPT ![o] = 0]
  /\ UNCHANGED <<offerVars, quote, lastRow, orders, batches, sub>>

ClearCart ==
  /\ cart # NoRows
  /\ cart' = NoRows
  /\ UNCHANGED <<offerVars, quote, lastRow, orders, batches, sub>>

-----------------------------------------------------------------------------
(* Quotes *)

\* A new row of checkout_quotes, from the offer as it is.
Quoted(q, o) ==
  /\ quote[q].state = "none"
  /\ Live(o) /\ holder[o] = NoBuyer
  /\ quote' = [quote EXCEPT ![q] = [o |-> o, price |-> offer[o].price, state |-> "open"]]

\* quote, for an offer or for the cheapest offer of a product, and
\* quoteFromCart, which quotes the rows of the cart one after the other.
RequestQuote(q, o) ==
  /\ Quoted(q, o)
  /\ UNCHANGED <<offerVars, cart, lastRow, orders, batches, sub>>

QuoteExpires(q) ==
  /\ quote[q].state = "open"
  /\ quote' = [quote EXCEPT ![q] = [o |-> quote[q].o, price |-> quote[q].price,
                                    state |-> "expired"]]
  /\ UNCHANGED <<offerVars, cart, lastRow, orders, batches, sub>>

\* assertFreshQuote, but for the price.
Unused(q) == quote[q].state = "open"
Fresh(q) == Unused(q) /\ Live(quote[q].o)
SamePrice(q) == offer[quote[q].o].price = quote[q].price

-----------------------------------------------------------------------------
(* createFromQuote *)

\* create: earlier requests of the key are returned instead.
Known(key) == key # NoKey /\ \E r \in orders : r.key = key

\* The first assertFreshQuote: a changed price is answered with a new quote.
QuoteBegin(b, key, q) ==
  /\ sub[b].at = "idle"
  /\ ~Known(key) /\ Fresh(q)
  /\ sub' = [sub EXCEPT ![b] = [at |-> IF SamePrice(q) THEN "begin" ELSE "requote",
                                key |-> key, quote |-> q, rows |-> NoRows]]
  /\ UNCHANGED <<offerVars, quote, cart, lastRow, orders, batches>>

\* Mutant: the transaction reads the offer without locking it.
LockOffer_None(b) ==
  /\ sub[b].at = "begin"
  /\ Goes(b, "locked")
  /\ UNCHANGED <<offerVars, quote, cart, lastRow, orders, batches>>

\* SELECT ... FOR UPDATE
LockOffer(b) ==
  LET o == quote[sub[b].quote].o IN
  /\ sub[b].at = "begin"
  /\ holder[o] = NoBuyer
  /\ Takes(b, o)
  /\ Goes(b, "locked")
  /\ UNCHANGED <<offer, edit, quote, cart, lastRow, orders, batches>>

\* Mutant: only the first check asks whether the quote was used.
Recheck_LiveOffer(b) ==
  /\ sub[b].at = "locked"
  /\ Live(quote[sub[b].quote].o) /\ SamePrice(sub[b].quote)
  /\ Goes(b, "fresh")
  /\ UNCHANGED <<offerVars, quote, cart, lastRow, orders, batches>>

\* The second assertFreshQuote, under the lock.
Recheck(b) ==
  /\ sub[b].at = "locked"
  /\ Fresh(sub[b].quote) /\ SamePrice(sub[b].quote)
  /\ Goes(b, "fresh")
  /\ UNCHANGED <<offerVars, quote, cart, lastRow, orders, batches>>

\* The price has changed since the first check: the answer's new quote is
\* inserted on another connection and waits for the offer this transaction
\* holds, which waits for the answer.
Stuck(b) ==
  /\ sub[b].at = "locked"
  /\ Fresh(sub[b].quote) /\ ~SamePrice(sub[b].quote)
  /\ Goes(b, "stuck")
  /\ UNCHANGED <<offerVars, quote, cart, lastRow, orders, batches>>

\* The timeout of interactive transactions rolls it back; the insert goes on.
TimesOut(b) ==
  /\ sub[b].at = "stuck"
  /\ Frees(b)
  /\ Goes(b, "requote")
  /\ UNCHANGED <<offer, edit, quote, cart, lastRow, orders, batches>>

\* QUOTE_CHANGED with the latest quote.
Requote(b, q) ==
  /\ sub[b].at = "requote"
  /\ Quoted(q, quote[sub[b].quote].o)
  /\ Ends(b)
  /\ UNCHANGED <<offerVars, cart, lastRow, orders, batches>>

\* Mutant: the key's column is not unique.
KeyFree_LookedUp(key) == TRUE

\* A duplicate key fails the insert and with it the transaction.
KeyFree(key) == ~Known(key)

QuoteCommit(b) ==
  LET q == sub[b].quote
      o == quote[q].o IN
  /\ sub[b].at = "fresh"
  /\ KeyFree(sub[b].key) /\ batches < MaxBatches
  /\ orders' = orders \cup
       {[nr |-> batches + 1, batch |-> sub[b].key, key |-> sub[b].key, quote |-> q,
         price |-> quote[q].price, lines |-> {o}]}
  /\ batches' = batches + 1
  /\ quote' = [quote EXCEPT ![q] = [o |-> o, price |-> quote[q].price, state |-> "used"]]
  /\ cart' = [cart EXCEPT ![o] = 0]
  /\ Frees(b)
  /\ Ends(b)
  /\ UNCHANGED <<offer, edit, lastRow>>

-----------------------------------------------------------------------------
(* create, from the cart *)

Chosen(b) == {o \in Offers : sub[b].rows[o] # 0}

CartBegin(b, key, selected) ==
  /\ sub[b].at = "idle"
  /\ ~Known(key)
  /\ selected # {} /\ \A o \in selected : cart[o] # 0
  /\ sub' = [sub EXCEPT ![b] =
               [at |-> "cart", key |-> key, quote |-> NoQuote,
                rows |-> [o \in Offers |-> IF o \in selected THEN cart[o] ELSE 0]]]
  /\ UNCHANGED <<offerVars, quote, cart, lastRow, orders, batches>>

\* The offers are read in the transaction, without a lock.
CartPrice(b) ==
  /\ sub[b].at = "cart"
  /\ \A o \in Chosen(b) : Live(o)
  /\ Goes(b, "priced")
  /\ UNCHANGED <<offerVars, quote, cart, lastRow, orders, batches>>

\* One request per seller, the first of them with the key; the rows leave the
\* cart by their ids.
CartCommit(b, first) ==
  LET sellers == {SellerOf[o] : o \in Chosen(b)} IN
  /\ sub[b].at = "priced"
  /\ first \in sellers
  /\ KeyFree(sub[b].key) /\ batches < MaxBatches
  /\ \A o \in Chosen(b) : holder[o] = NoBuyer
  /\ orders' = orders \cup
       {[nr |-> batches + 1, batch |-> sub[b].key,
         key |-> IF s = first THEN sub[b].key ELSE NoKey, quote |-> NoQuote, price |-> 0,
         lines |-> {o \in Chosen(b) : SellerOf[o] = s}] : s \in sellers}
  /\ batches' = batches + 1
  /\ cart' = [o \in Offers |-> IF sub[b].rows[o] = cart[o] THEN 0 ELSE cart[o]]
  /\ Ends(b)
  /\ UNCHANGED <<offerVars, quote, lastRow>>

\* A submission whose checks fail, or that ends for any other reason, is rolled
\* back; the stuck one has to wait for its timeout.
Fails(b) ==
  /\ sub[b].at \notin {"idle", "stuck"}
  /\ Frees(b)
  /\ Ends(b)
  /\ UNCHANGED <<offer, edit, quote, cart, lastRow, orders, batches>>

-----------------------------------------------------------------------------
Submit(b) ==
  \/ \E key \in Keys \cup {NoKey} :
       \/ \E q \in Quotes : QuoteBegin(b, key, q)
       \/ \E selected \in SUBSET Offers : CartBegin(b, key, selected)
  \/ LockOffer(b)
  \/ Recheck(b)
  \/ Stuck(b)
  \/ TimesOut(b)
  \/ \E q \in Quotes : Requote(b, q)
  \/ QuoteCommit(b)
  \/ CartPrice(b)
  \/ \E o \in Offers : CartCommit(b, SellerOf[o])
  \/ Fails(b)

Next ==
  \/ OffersNext /\ UNCHANGED buyerVars
  \/ \E o \in Offers : AddItem(o) \/ RemoveItem(o) \/ (\E q \in Quotes : RequestQuote(q, o))
  \/ ClearCart
  \/ \E q \in Quotes : QuoteExpires(q)
  \/ \E b \in Buyers : Submit(b)

Spec == Init /\ [][Next]_vars

-----------------------------------------------------------------------------
(* Properties *)

TypeOK ==
  /\ OffersTypeOK
  /\ quote \in [Quotes -> Quote]
  /\ cart \in [Offers -> 0..MaxRows] /\ lastRow \in 0..MaxRows
  /\ orders \subseteq Order /\ batches \in 0..MaxBatches
  /\ sub \in [Buyers -> Submission]

\* A quote buys once, however often and however concurrently it is submitted:
\* it is used exactly if there is one request from it (createFromQuote).
QuoteBuysOnce ==
  /\ \A q \in Quotes : quote[q].state = "used" <=> \E r \in orders : r.quote = q
  /\ \A r, x \in orders : r.quote = x.quote /\ r.quote # NoQuote => r = x

\* All requests under one key are from one submission, although only the first
\* of a submission carries the key in the unique column (create).
KeyNamesOneSubmission ==
  \A r, x \in orders : r.batch = x.batch /\ r.batch # NoKey => r.nr = x.nr

\* A submission is answered once for a quote and once for a key.
SubmitsOnce == QuoteBuysOnce /\ KeyNamesOneSubmission

\* A request from a quote is made at the quote's price, and while the offer can
\* be ordered: a page that read the offer earlier changes it before the lock
\* or after the request, never in between.
BoughtStep ==
  \A r \in orders' \ orders :
    r.quote # NoQuote => /\ r.price = quote[r.quote].price
                         /\ \A o \in r.lines : o = quote[r.quote].o /\ Live(o) /\ Live(o)'
QuotesBuyLiveOffers == [][BoughtStep]_vars

-----------------------------------------------------------------------------
(* The inductive invariant behind them. *)

\* What tells requests and quotes apart.
RowsTyped ==
  /\ offer \in [Offers -> Offer] /\ holder \in [Offers -> Buyers \cup {NoBuyer}]
  /\ edit \in [Editors -> Edit]
  /\ quote \in [Quotes -> Quote]
  /\ DOMAIN sub = Buyers
  /\ batches \in Nat /\ \A r \in orders : r.nr \in 1..batches

\* A page writes the offer it read, and without the row's lock never its status.
EditsAreDecided ==
  \A e \in Editors :
    /\ edit[e] # NoEdit => edit[e].o \in Offers
    /\ edit[e].waits = 0 => edit[e].status = "SAME" /\ edit[e].deleted = 0

\* Every key of requests is in the unique column, of a request of the same
\* submission.
KeysAreKept ==
  \A r \in orders : r.batch # NoKey => \E x \in orders : x.key = r.batch

\* A submission of a quote has one that was made; from the lock to the commit it
\* holds the offer, and after the second check offer and quote stay as checked.
LockHolds(b) ==
  LET q == sub[b].quote IN
  /\ sub[b].at \in {"begin", "locked", "fresh", "stuck", "requote"} =>
       q \in Quotes /\ quote[q].state # "none"
  /\ sub[b].at \in {"locked", "fresh", "stuck"} => holder[quote[q].o] = b
  /\ sub[b].at = "fresh" => quote[q].state \in {"open", "expired"} /\ Live(quote[q].o)
LocksHold == \A b \in Buyers : LockHolds(b)

\* A quote that was made is of an offer.
QuotesHaveOffers == \A q \in Quotes : quote[q].state # "none" => quote[q].o \in Offers

IInv ==
  /\ RowsTyped
  /\ EditsAreDecided
  /\ QuotesHaveOffers
  /\ LocksHold
  /\ KeysAreKept
  /\ SubmitsOnce
=============================================================================
