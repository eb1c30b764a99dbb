----------------------------- MODULE MCOperations -----------------------------
(***************************************************************************)
(* Small instances of the components beside payments, procurement and the  *)
(* credit ledger, checked in one run.  The components share no state, so   *)
(* their instances take turns at the same variables: an initial state      *)
(* picks one of them, its part, and every step is a step of that part.     *)
(***************************************************************************)
EXTENDS Inventory, TLC

CONSTANTS r1, r2,   \* requests
          t1, t2, u1, u2, w1, w2   \* rows, administrators, processes ...

VARIABLES part, x1, x2, x3, x4, x5, x6, x7, x8, x9

none == "none"
shared == <<x1, x2, x3, x4, x5, x6, x7, x8, x9>>
allVars == <<part, shared, stockVars>>

\* The variables a part has no use for: from the n-th on, and those of the stock.
From9 == x9 = 0
From8 == x8 = 0 /\ From9
From7 == x7 = 0 /\ From8
From6 == x6 = 0 /\ From7
From5 == x5 = 0 /\ From6
From4 == x4 = 0 /\ From5
NoStock == /\ stock = <<>> /\ moved = <<>> /\ overwritten = <<>> /\ locked = <<>> /\ keep = <<>>

Symmetry == Permutations({r1, r2}) \cup Permutations({t1, t2}) \cup Permutations({u1, u2})
              \cup Permutations({w1, w2}) \cup Permutations(Keepers)

-----------------------------------------------------------------------------
(* Logistics: a dispatch takes its quantity from a row that the stock pages *)
(* work on; two dispatches race for the stock of two rows, or for a vehicle *)
(* and the order, or for loading slots; or one request at a time takes them *)
(* all the way.                                                             *)

Leaving == {"CREATE", "ASSIGN", "BILL", "EXECUTE"}
Booked == {"CREATE", "SLOT", "SLOT_CONFIRM", "SLOT_CANCEL", "VEHICLE"}
TheWay == Leaving \cup {"CANCELLED", "LOADING", "LOADED", "READY_FOR_DISPATCH", "TRACK",
                        "DELIVER", "CONFIRM", "EXCEPTION", "RESOLVE"}

Keeping == INSTANCE Logistics WITH
  po <- x1, disp <- x2, bill <- x3, ship <- x4, dely <- x5, truck <- x6, slot <- x7, req <- x8,
  Dispatches <- {"d"}, Vehicles <- {}, Slots <- {}, Bays <- {}, Windows <- {},
  Requests <- {"r"}, Ordered <- 1, MaxDelivered <- 1, Kinds <- {"CREATE"},
  NoDispatch <- none, NoVehicle <- none, NoSlot <- none

Stocking == INSTANCE Logistics WITH
  po <- x1, disp <- x2, bill <- x3, ship <- x4, dely <- x5, truck <- x6, slot <- x7, req <- x8,
  Dispatches <- {t1, t2}, Vehicles <- {}, Slots <- {}, Bays <- {}, Windows <- {},
  Requests <- {r1, r2}, Ordered <- 2, MaxDelivered <- 3, Kinds <- {"CREATE"},
  Rows <- {u1, u2}, Keepers <- {}, NoDispatch <- none, NoVehicle <- none, NoSlot <- none

Sending == INSTANCE Logistics WITH
  po <- x1, disp <- x2, bill <- x3, ship <- x4, dely <- x5, truck <- x6, slot <- x7, req <- x8,
  Dispatches <- {t1, t2}, Vehicles <- {"v"}, Slots <- {}, Bays <- {}, Windows <- {},
  Requests <- {r1, r2}, Ordered <- 2, MaxDelivered <- 3, Kinds <- Leaving,
  Rows <- {}, Keepers <- {}, NoDispatch <- none, NoVehicle <- none, NoSlot <- none

Booking == INSTANCE Logistics WITH
  po <- x1, disp <- x2, bill <- x3, ship <- x4, dely <- x5, truck <- x6, slot <- x7, req <- x8,
  Dispatches <- {t1, t2}, Vehicles <- {"v"}, Slots <- {u1, u2}, Bays <- {w1, w2}, Windows <- {"w"},
  Requests <- {r1, r2}, Ordered <- 1, MaxDelivered <- 3, Kinds <- Booked,
  Rows <- {}, Keepers <- {}, NoDispatch <- none, NoVehicle <- none, NoSlot <- none

Alone == INSTANCE Logistics WITH
  po <- x1, disp <- x2, bill <- x3, ship <- x4, dely <- x5, truck <- x6, slot <- x7, req <- x8,
  Dispatches <- {t1, t2}, Vehicles <- {"v"}, Slots <- {}, Bays <- {}, Windows <- {},
  Requests <- {"r"}, Ordered <- 2, MaxDelivered <- 2, Kinds <- TheWay,
  Rows <- {}, Keepers <- {}, NoDispatch <- none, NoVehicle <- none, NoSlot <- none

-----------------------------------------------------------------------------
(* Import trade: two negotiations of one listing; one with a linked listing; *)
(* the shipments of a deal.                                                  *)

Racing == INSTANCE ImportTrading WITH
  listing <- x1, gone <- x2, neg <- x3, deal <- x4, req <- x5,
  Sells <- {"sell"}, Buys <- {}, Negotiations <- {"n1", "n2"},
  Primary <- [n \in {"n1", "n2"} |-> "sell"], Counterpart <- [n \in {"n1", "n2"} |-> none],
  Opener <- [n1 |-> "x", n2 |-> "y"], Requests <- {r1, r2}, MaxRounds <- 2,
  Kinds <- {"OPEN", "COUNTER", "ACCEPT", "CANCELLED", "CONFIRM"},
  NoListing <- none, NoNegotiation <- none

Linked == INSTANCE ImportTrading WITH
  listing <- x1, gone <- x2, neg <- x3, deal <- x4, req <- x5,
  Sells <- {"sell"}, Buys <- {"buy"}, Negotiations <- {"n1"},
  Primary <- [n1 |-> "sell"], Counterpart <- [n1 |-> "buy"],
  Opener <- [n1 |-> "x"], Requests <- {r1, r2}, MaxRounds <- 2,
  Kinds <- {"OPEN", "COUNTER", "ACCEPT", "CANCEL_DEAL", "CANCELLED", "CONFIRM"},
  NoListing <- none, NoNegotiation <- none

Trading == INSTANCE ImportTrading WITH
  listing <- x1, gone <- x2, neg <- x3, deal <- x4, req <- x5,
  Sells <- {"sell"}, Buys <- {}, Negotiations <- {"n1"},
  Primary <- [n1 |-> "sell"], Counterpart <- [n1 |-> none],
  Opener <- [n1 |-> "x"], Requests <- {r1, r2}, MaxRounds <- 3,
  Kinds <- {"OPEN", "COUNTER", "ACCEPT", "REJECT", "WITHDRAW", "LAPSE", "CONFIRM", "CANCEL_DEAL",
            "CANCELLED", "EXPIRED", "SWEEP", "PAUSE", "MATCH", "PUBLISH", "REMOVE"},
  NoListing <- none, NoNegotiation <- none

Shipping == INSTANCE ImportShipments WITH
  deal <- x1, ship <- x2, req <- x3,
  Shipments <- {t1, t2}, Quantity <- 2, Requests <- {r1, r2}, NoShipment <- none

-----------------------------------------------------------------------------
(* Credit: the applications of a customer, and the account pages of the     *)
(* administrators beside the ledger.                                        *)

Applying == INSTANCE PaymentTerms WITH
  apps <- x1, customer <- x2, account <- x3, suspended <- x4, byHand <- x5, lock <- x6, req <- x7,
  Requests <- {r1, r2}, MaxApplications <- 2, Amounts <- {0, 1}, Terms <- {0, 14, 15, 30}

Pages == INSTANCE CreditAccountPages WITH
  profile <- x1, orders <- x2, settled <- x3, verified <- x4, req <- x5, page <- x6,
  Orders <- {"o1"}, Values <- {2}, Limits <- {2, 4}, Payments <- {"p"},
  PayOf <- [p |-> "o1"], PayAmount <- [p |-> 1], Reopened <- {"p"}, Pagers <- {"a"},
  MaxDispatches <- 2, Requests <- {r1, r2}, NoOrder <- none, NoPayment <- none

-----------------------------------------------------------------------------
(* Grade requests: two of them, and a long timeline of one; support; the    *)
(* verification of a number, the review of a customer and of a seller.      *)

Submitting == INSTANCE GradeRequests WITH
  row <- x1, story <- x2, docs <- x3, grades <- x4, call <- x5,
  Rows <- {t1, t2}, Requests <- {r1, r2}, Admins <- {"a"}, Keys <- {"k"}, Catalogue <- {"c"},
  NewGrades <- {"n"}, MaxDocuments <- 1, MaxEvents <- 1,
  NoAdmin <- none, NoKey <- none, NoGrade <- none, NoRow <- none

Reviewing == INSTANCE GradeRequests WITH
  row <- x1, story <- x2, docs <- x3, grades <- x4, call <- x5,
  Rows <- {"g"}, Requests <- {r1, r2}, Admins <- {"a"}, Keys <- {}, Catalogue <- {"c"},
  NewGrades <- {"n"}, MaxDocuments <- 0, MaxEvents <- 4,
  NoAdmin <- none, NoKey <- none, NoGrade <- none, NoRow <- none

Support == INSTANCE SupportTickets WITH
  ticket <- x1, clock <- x2, reply <- x3,
  Requests <- {r1, r2}, Agents <- {t1, t2}, MaxResolutions <- 3, NoAgent <- none

Verifying == INSTANCE KycVerification WITH
  rows <- x1, org <- x2, verifier <- x3, adapter <- x4,
  Processes <- {t1, t2}, Requests <- {r1, r2}, Identifiers <- {u1, u2},
  Adapters <- {"surepass", "http"}, MaxRows <- 2,
  NoIdentifier <- none, NoProcess <- none

Kyc == INSTANCE CustomerKyc WITH
  kyc <- x1, change <- x2, org <- x3, history <- x4, review <- x5,
  Requests <- {r1, r2}, MaxSubmissions <- 3

Sellers == INSTANCE SellerReview WITH
  profile <- x1, form <- x2, org <- x3, change <- x4, review <- x5,
  Requests <- {r1, r2}

-----------------------------------------------------------------------------
(* Checkout: two submissions of two quotes beside a page that changes the   *)
(* offer; one submission beside two pages of any kind; two submissions of a *)
(* cart with the offers of two sellers.                                     *)

Quoting == INSTANCE Checkout WITH
  offer <- x1, holder <- x2, edit <- x3, quote <- x4, cart <- x5, lastRow <- x6, orders <- x7,
  batches <- x8, sub <- x9,
  Offers <- {"o"}, Prices <- {1, 2}, Editors <- {"e"},
  EditKinds <- {"ACTIVATE", "PAUSE", "CANCEL", "LISTING", "TIER"},
  Buyers <- {r1, r2}, Quotes <- {t1, t2}, Keys <- {"k"}, SellerOf <- [o |-> "s"],
  MaxRows <- 0, MaxBatches <- 2,
  NoOffer <- none, NoBuyer <- none, NoQuote <- none, NoKey <- none

Editing == INSTANCE Checkout WITH
  offer <- x1, holder <- x2, edit <- x3, quote <- x4, cart <- x5, lastRow <- x6, orders <- x7,
  batches <- x8, sub <- x9,
  Offers <- {"o"}, Prices <- {1, 2}, Editors <- {w1, w2},
  EditKinds <- {"ACTIVATE", "PAUSE", "EXPIRE", "CANCEL", "UPDATE", "LISTING", "TIER", "DECIDE",
                "CORRECT", "REVISE"},
  Buyers <- {"b"}, Quotes <- {"q"}, Keys <- {}, SellerOf <- [o |-> "s"],
  MaxRows <- 0, MaxBatches <- 1,
  NoOffer <- none, NoBuyer <- none, NoQuote <- none, NoKey <- none

Ordering == INSTANCE Checkout WITH
  offer <- x1, holder <- x2, edit <- x3, quote <- x4, cart <- x5, lastRow <- x6, orders <- x7,
  batches <- x8, sub <- x9,
  Offers <- {"o", "p"}, Prices <- {1}, Editors <- {}, EditKinds <- {},
  Buyers <- {r1, r2}, Quotes <- {"q"}, Keys <- {"k"}, SellerOf <- [o |-> "s", p |-> "z"],
  MaxRows <- 2, MaxBatches <- 2,
  NoOffer <- none, NoBuyer <- none, NoQuote <- none, NoKey <- none

\* The prices of a quote: an offer, a quantity, a method and the rates.
Pricing == INSTANCE CommercePricing

Tiers == {[min |-> 1000, max |-> 2000, price |-> 30000],
          [min |-> 2000, max |-> 9000, price |-> 20001]}
Priced ==
  [o : [base : {5, 25000, 30001}, tiers : SUBSET Tiers, moq : {500, 1000}, available : {3000},
        step : {500, 1000}],
   q : {500, 1000, 1500, 2000, 2001, 3000, 4000},
   method : Pricing!Methods,
   config : [gstBps : {0, 1800}, discountBps : {500}, freightPerMt : {0, 1250}, fee : {0, 7},
             insurance : {0}]]

-----------------------------------------------------------------------------
Init ==
  \/ /\ From9
     /\ \/ part = "keep" /\ Keeping!Init
        \/ part = "stock" /\ Stocking!Init
        \/ part = "send" /\ Sending!Init
        \/ part = "book" /\ Booking!Init
        \/ part = "alone" /\ Alone!Init
  \/ /\ NoStock
     /\ \/ part = "race" /\ Racing!Init /\ From6
        \/ part = "link" /\ Linked!Init /\ From6
        \/ part = "trade" /\ Trading!Init /\ From6
        \/ part = "ship" /\ Shipping!Init /\ From4
        \/ part = "apply" /\ Applying!Init /\ From8
        \/ part = "pages" /\ Pages!PagesInit /\ From7
        \/ part = "submit" /\ Submitting!Init /\ From6
        \/ part = "review" /\ Reviewing!Init /\ From6
        \/ part = "support" /\ Support!Init /\ From4
        \/ part = "verify" /\ Verifying!Init /\ From5
        \/ part = "kyc" /\ Kyc!Init /\ From6
        \/ part = "seller" /\ Sellers!Init /\ From6
        \/ part = "price" /\ x1 \in Priced /\ x2 = 0 /\ x3 = 0 /\ From4
        \/ part = "quote" /\ Quoting!Init
        \/ part = "edit" /\ Editing!Init
        \/ part = "cart" /\ Ordering!Init

Next ==
  \/ /\ UNCHANGED <<part, x9>>
     /\ \/ part = "keep" /\ Keeping!Next
        \/ part = "stock" /\ Stocking!Next
        \/ part = "send" /\ Sending!Next
        \/ part = "book" /\ Booking!Next
        \/ part = "alone" /\ Alone!Next
  \/ /\ UNCHANGED <<part, stockVars>>
     /\ \/ part = "race" /\ Racing!Next /\ UNCHANGED <<x6, x7, x8, x9>>
        \/ part = "link" /\ Linked!Next /\ UNCHANGED <<x6, x7, x8, x9>>
        \/ part = "trade" /\ Trading!Next /\ UNCHANGED <<x6, x7, x8, x9>>
        \/ part = "ship" /\ Shipping!Next /\ UNCHANGED <<x4, x5, x6, x7, x8, x9>>
        \/ part = "apply" /\ Applying!Next /\ UNCHANGED <<x8, x9>>
        \/ part = "pages" /\ Pages!PagesNext /\ UNCHANGED <<x7, x8, x9>>
        \/ part = "submit" /\ Submitting!Next /\ UNCHANGED <<x6, x7, x8, x9>>
        \/ part = "review" /\ Reviewing!Next /\ UNCHANGED <<x6, x7, x8, x9>>
        \/ part = "support" /\ Support!Next /\ UNCHANGED <<x4, x5, x6, x7, x8, x9>>
        \/ part = "verify" /\ Verifying!Next /\ UNCHANGED <<x5, x6, x7, x8, x9>>
        \/ part = "kyc" /\ Kyc!Next /\ UNCHANGED <<x6, x7, x8, x9>>
        \/ part = "seller" /\ Sellers!Next /\ UNCHANGED <<x6, x7, x8, x9>>
        \/ part = "quote" /\ Quoting!Next
        \/ part = "edit" /\ Editing!Next
        \/ part = "cart" /\ Ordering!Next

Spec == Init /\ [][Next]_allVars

-----------------------------------------------------------------------------
(* The properties of the parts, as the modules state them.                  *)

\* Every variable of every part keeps to its type, and the constants to what a
\* module takes for granted of them.
TypesOK ==
  /\ part = "keep" => Keeping!TypeOK /\ Keeping!LogisticsConstants
  /\ part = "stock" => Stocking!TypeOK /\ Stocking!LogisticsConstants
  /\ part = "send" => Sending!TypeOK /\ Sending!LogisticsConstants
  /\ part = "book" => Booking!TypeOK /\ Booking!LogisticsConstants
  /\ part = "alone" => Alone!TypeOK /\ Alone!LogisticsConstants
  /\ part = "race" => Racing!TypeOK /\ Racing!TradeConstants
  /\ part = "link" => Linked!TypeOK /\ Linked!TradeConstants
  /\ part = "trade" => Trading!TypeOK /\ Trading!TradeConstants
  /\ part = "ship" => Shipping!TypeOK /\ Shipping!ShipmentConstants
  /\ part = "apply" => Applying!TypeOK
  /\ part = "pages" => Pages!PagesTypeOK
  /\ part = "submit" => Submitting!TypeOK
  /\ part = "review" => Reviewing!TypeOK
  /\ part = "support" => Support!TypeOK
  /\ part = "verify" => Verifying!TypeOK
  /\ part = "kyc" => Kyc!TypeOK
  /\ part = "seller" => Sellers!TypeOK
  /\ part = "quote" => Quoting!TypeOK /\ Quoting!CheckoutConstants
  /\ part = "edit" => Editing!TypeOK /\ Editing!CheckoutConstants
  /\ part = "cart" => Ordering!TypeOK /\ Ordering!CheckoutConstants

\* The stock that left the rows is that of the order's dispatches.
StockFollowsDispatches ==
  /\ part = "keep" => Keeping!StockFollowsDispatches
  /\ part = "stock" => Stocking!StockFollowsDispatches

\* Racing executions never report more as dispatched than was shipped.
DispatchedIsShipped == part = "send" => Sending!DispatchedIsShipped

\* No bay and no vehicle has two active slots in one window.
SlotsAreDisjoint == part = "book" => Booking!SlotsAreDisjoint

\* Dispatch, shipment, delivery and order tell the same story.
OneStory == part = "alone" => Alone!OneStory

\* A deal has the terms of the last offer, which one party made and the other
\* accepted.
DealIsTheLastOffer ==
  /\ part = "race" => Racing!DealIsTheLastOffer
  /\ part = "link" => Linked!DealIsTheLastOffer
  /\ part = "trade" => Trading!DealIsTheLastOffer

\* The negotiations are bargains of two parties, agreed once on terms that stay.
BargainsKept ==
  /\ /\ part = "race" => Racing!Bargained!Init
     /\ part = "link" => Linked!Bargained!Init
     /\ part = "trade" => Trading!Bargained!Init
  /\ [][part = "race" => [Racing!Bargained!Next]_(Racing!Bargains)]_allVars
  /\ [][part = "link" => [Linked!Bargained!Next]_(Linked!Bargains)]_allVars
  /\ [][part = "trade" => [Trading!Bargained!Next]_(Trading!Bargains)]_allVars

\* No more is booked than was agreed, and a deal is fulfilled by deliveries.
FulfilmentIsDelivered == part = "ship" => Shipping!FulfilmentIsDelivered

\* The credit status of a customer tells the state of the latest application.
StatusesAgree == part = "apply" => Applying!StatusesAgree

\* The payment page offers what the checkout and apply accept.
PageAgreesWithCheckout == part = "apply" => Applying!PageAgreesWithCheckout

\* What a quote of a credit purchase is checked for covers the order.
CreditCheckCoversOrder ==
  part = "price" => Pricing!CheckCoversOrder(x1.o, x1.q, x1.method, x1.config)

\* A payment is settled once, although it is submitted and verified again.
SettledOnce == part = "pages" => Pages!SettledOnce

\* New ledger rows and limits come with exact balances, beside pages that
\* store stale ones.
LedgerMovesLeaveExactBalances == [][(part = "pages") => Pages!LedgerStep]_allVars

\* The timeline of a grade request tells one story.
OneTimeline ==
  /\ part = "submit" => Submitting!OneTimeline
  /\ part = "review" => Reviewing!OneTimeline

\* The times of a support ticket agree with its status.
TimesAgree == part = "support" => Support!TimesAgree

\* An owner has two calls to the verification provider at a time only behind one
\* that has no timeout left.
OneProviderCall == part = "verify" => Verifying!OneProviderCall

\* Every approval of a KYC answers a submission of its own; the rows of a
\* seller's review agree, and nobody is reviewed and asked for changes at once.
KycTellsOneStory ==
  /\ part = "kyc" => Kyc!KycTellsOneStory
  /\ part = "seller" => Sellers!SellerTellsOneStory

\* A submission is answered once for a quote and once for a key.
SubmitsOnce ==
  /\ part = "quote" => Quoting!SubmitsOnce
  /\ part = "edit" => Editing!SubmitsOnce
  /\ part = "cart" => Ordering!SubmitsOnce

\* A quote buys a live offer at the quote's price.
QuotesBuyLiveOffers ==
  /\ [][(part = "quote") => Quoting!BoughtStep]_allVars
  /\ [][(part = "edit") => Editing!BoughtStep]_allVars
=============================================================================
