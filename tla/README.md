# A TLA+ model of the Swaroop marketplace backend

The repository is the backend of a blind B2B marketplace: customers raise
purchase requests, sellers answer without either side knowing the other, a
commercial agreement becomes a purchase order, the order is paid, dispatched,
delivered and settled. It is a NestJS application on PostgreSQL through Prisma.
Any number of HTTP requests and a few background workers run concurrently; the
only shared state is the database.

This directory holds TLA+ modules of the parts whose correctness depends on how
those requests interleave, TLC configurations that check them, and TLAPS proofs
of the main properties. `PROJECT.json` lists components, runs, theorems, the
hazards that guided the properties, and for every modelling definition the
source lines it stands for.

    tlc -workers 2 -config MCPayments_advance.cfg MCPayments    # a run
    tlapm Payments_proofs.tla                                   # the proofs

## How a request is modelled

All code here has one shape. A handler reads rows and checks them; then it
opens `prisma.$transaction` and reads and writes more. The isolation level is
PostgreSQL's default, READ COMMITTED (no call asks for another), and explicit
locks are rare. So:

- what was read before the transaction may be stale when it is used;
- a read inside a transaction sees the last committed row plus the
  transaction's own writes;
- a write takes the row's lock, waits for another holder, and then overwrites
  what that holder committed, unless its `where` clause no longer matches;
- a commit makes all writes visible at once; a throw or a lost connection drops
  them all.

A request is modelled as a record that says which step it takes next, what it
has read, and what it has written but not committed. Steps that cannot be told
apart by any other request (two reads in a row of rows nobody changes, a chain
of writes under one lock) are one action. A rollback is possible at any point,
which also stands for Prisma's transaction timeout and PostgreSQL's deadlock
victim.

## Inventory

State is tables; operations are handlers. "Hard" is what a test would not reach.

| component | state it keeps | operations | hard | modules |
|---|---|---|---|---|
| Order payments (`payments/`) | payments, transactions, schedules, proforma invoice, invoice and settlement drafts | bootstrap of an order, create, submitUtr, verify, reject, markDue, dispatch gate | concurrent verifications, retried creates, look-before-insert drafts, lock order | `Payments`, `Escrow`, `ScheduleTemplate` |
| Credit ledger (`payments/`, `admin/credit`) | credit profile, ledger entries | reserve, utilise, settle, approve, adjust, suspend, refresh balances | balances recomputed by several writers, one of them without the lock | `CreditLedger`, `CreditLine`, `CreditAccountPages` |
| Credit applications (`customers/credit`, `admin/credit`) | applications, two profiles with copies of their status | draft, submit, review, approve, reject, resubmit, suspend | advisory lock, compare-and-set transitions, copies | `CreditApplications`, `PaymentTerms` |
| Procurement (`procurement/`, `customers/purchase-requests`, `sellers/purchase-requests`, `admin/procurement`) | purchase requests, seller matches, counter offers, orders | match, respond, counter, accept, reject, cancel, expire, convert | two parties and a clock decide about one row; statuses checked before the transaction | `Procurement`, `Sale` |
| Cart and checkout (`customers/cart`, `customers/checkout`) | cart, quotes | add, quote, submit | submissions repeated and racing; stale price or offer | `Checkout`, `CommercePricing` |
| Offers, inventory, price revisions (`sellers/`) | stock counters and movements, offers | reserve, release, adjust, publish, pause, price | counters at zero, reads before locks, writes by id | `Inventory`, `Offers` |
| Logistics (`logistics/`) | dispatches, vehicle slots, e-way bills, shipments, deliveries | plan, book, validate, depart, deliver | quantities over several dispatches, slots, statuses in five tables | `Logistics` |
| Import trading (`import/`) | listings, negotiations, deals, shipments | open, counter, accept, confirm, cancel, ship, expire | locks of three tables, statuses moved along without one, expiry worker | `ImportTrading`, `Bargain`, `ImportShipments` |
| KYC (`customers/kyc`, `admin/kyc`, `kyc-verification/`) | provider checks, KYC status and change request | verify, submit, approve, reject, request changes | provider timeouts, crashes, two reviewers | `KycVerification`, `CustomerKyc` |
| Seller onboarding and managers (`sellers/onboarding`, `admin/sellers`) | profile, onboarding, organization, change request | save, submit, approve, reject, request changes, suspend | no lock, no second check | `SellerReview` |
| Grade requests (`grade-requests/`) | request, timeline, documents | create, respond, cancel, review, map, create grade | a status that comes back, idempotency key | `GradeRequests` |
| Support (`support/`) | ticket with its times | reply, update | compare-and-set on a status that comes back | `SupportTickets` |
| Authentication (`auth/`) | one-time passwords, sessions, refresh tokens | send, verify, refresh, revoke | token rotation racing itself | none |
| Price alerts, grades, data sheets, master data, locations, CMS, documents, analytics | reference data, files, queries | create, read, update, delete | little that concurrency decides | none |

Interactions: commercial acceptance (procurement) creates the order, its
proforma invoice, its schedules and its credit reservation in one transaction;
a dispatch asks the payment gate, deducts the stock, utilises the reservation and
marks the ON_LOADING line due; a delivery marks the ON_DELIVERY line due;
verification of the last payment creates the settlement draft and, on a credit
order, repays the ledger. A checkout reads what the offer pages write and ends in
purchase requests; the payment page reads what the credit reviews write.

What makes each correct, in one line: money recorded was verified and never
exceeds what is owed; a settlement means the order was paid; a reservation fits
the limit; a request is converted once and with the seller who agreed; a
quantity is dispatched, a slot held and a quote bought once; copies of a status
in several tables tell one story.

## Payments

`ScheduleTemplate` holds the schedule of each payment method and the split of
the order's total over its lines, `Payments` the money side of one order,
`Escrow` what that flow promises the seller, `Payments_proofs` the theorems,
`MCPayments` the instances for TLC.

State. `pay` is the payments table with each payment's transaction row (two rows
for the locks, one record in the model, since both are committed together), `sched`
and `pi` the schedule rows and the proforma invoice, `invoices` and
`settlements` count drafts. `req` holds the requests in progress, `tx` what a
request's transaction has written and not committed. `credited` and
`creditedTotal` are history: what committed verifications brought in, which no
column records.

Actions. `Init` is the result of `createIssued` and `createFromPo`. `create` is
`CreateRead` (the checks before the transaction) and `CreateInsert`; `reject` is
`RejectRead`, `RejectClaim` and `RejectCommit`; `markDue` is `MarkDueRead`,
`MarkDueWrite`. `submitUtr` writes the payment's transaction row
(`SubmitTransaction`), whose unique reference another open submit may hold
(`SubmitReference`), and then the payment (`SubmitCommit`). `verify` has six
steps: the read (`VerifyRead`), the claim of the payment row (`VerifyClaim`), the
update of its transaction row with the read of the schedule
(`VerifyTransaction`), the update of the schedule with the read of the invoice
(`VerifySchedule`), the update of the invoice with the look for drafts
(`VerifyProforma`), and the commit. A step that updates a row waits until no
other open transaction holds it (`PayLocked`, `TxnLocked`, `SchedLocked`,
`PiLocked`). A submit takes transaction row and payment the other way round than
`verify` and `reject`: two requests that wait for each other there are
`Deadlocked`, and the database rolls one back (`DeadlockEnds`). Unique indexes
are checked at the insert or update: `KeyTaken`, `UtrTaken`.

| run | question and answer |
|---|---|
| `payments_advance` | two payments, two requests, one idempotency key: ledgers balance, the gate opens only for money, keys and bank references name one payment, only a duplicated submit reopens a verified one, the flow implements `Escrow`, and a transaction that holds a row ends, if the database ends the circles of a submit and a verification or rejection (`TransactionsFinish`) |
| `payments_milestone` | three schedules, three payments: drafts are unique, a settlement is funded, recorded money was verified, although updates of the invoice can be lost |
| `payments_unsettled` (violation) | a lost update of the invoice leaves a fully paid order unsettled |
| `payments_partial` (violation) | the BEFORE_DISPATCH line of a PARTIAL order never becomes due |

Bounds. Amounts are 1 or 2 of totals 2 or 3: enough for part payments, an
exact last payment and a refused overpayment on each line. Two requests suffice
for every race here, because each handler takes part with its own reads and
writes only. Three payments cover the three lines of the longest template. The
runs with liveness (`payments_advance`, `payments_partial`) use no symmetry.

Two weaknesses the runs do not hold against the code, but the model has. A
submit that read INITIATED takes a payment that was submitted and verified
meanwhile back to UNDER_VERIFICATION (`submitUtr` writes without a condition), so
it can be verified, and credited, twice; `OnlySubmitReopens` says that this is
the only way. And a stale `markDue` or verification writes DUE or PARTIALLY_PAID
over PAID; amounts stay balanced and backed all the same.

Fairness (`FairSpec`). A transaction that holds a row goes on: strong fairness,
since it may have to wait for the next row and PostgreSQL queues waiters. Weak
fairness of `DeadlockEnds`: two transactions that wait for each other are found
by the database. Without it `TransactionsFinish` fails, by a second submit of a
payment under verification. No request is bound to begin or to take its first
row, except that loading and delivery are reported (`ReportedSpec`, with
`MarkDueRead` and `MarkDueWrite`), which only `LinesBecomeDue` uses; its
counterexample therefore does not depend on a dispatcher who never comes.

## Credit ledger

`CreditLedger` is the platform credit of one customer, `CreditLine` what it
promises platform and customer: an order is placed once and within the limit, it
is drawn once, by its first dispatch, and never owes more than its value.

State. `profile` is the credit profile with its stored balances; `orders` holds
per order what the balances depend on (value, what its one CREDIT schedule
still owes, number of RESERVED and UTILIZED rows, dispatches); `settled` counts
CREDIT_SETTLED rows of a payment; `verified` are the payments verified so far.

Actions. Writers that lock the profile (`reserveForPurchaseOrder`,
`utilizeReservedCredit`, `repayForPayment`) are a read and a commit; the
recomputation of the balances, `refreshBalances`, is part of the commit
(`Refresh`). Approval is one step. `CreditAccountPages` adds the administrators'
pages: a limit change works under the lock, suspension and reactivation decide
on a status read before (`SuspendRead`, `ReactivateRead`) and write over what it
has become, and all of them then recompute without a transaction, like every view
of the account, so every query of that is a step: `PageProfile`, `PageLedger`, `PageSchedules`, `PageWrite`. `Reopened` are
the payments that a duplicated submit lets be verified again.

| run | question and answer |
|---|---|
| `credit_locked` | without the pages: the stored balances are exact, and the ledger implements `CreditLine` (`LineOfCredit`), so that every reservation fits the limit |
| `operations`, part `pages` | with pages, limit changes, suspension and one payment verified twice: it is settled once, and every new ledger row is committed with exact balances |
| `credit_overdrawn` (violation) | a page that stores old balances lets the next order exceed the limit |

Bounds. Two orders and two requests: one order whose reservation races the
other's, two dispatches of one order, two payments of one. Totals and limits are
chosen so that one order fits and two do not (limit 2), and so that a limit
falls below what is owed (4 to 2). All counters are bounded by `MaxDispatches`
and the payments.

## Procurement

`Procurement` is one purchase request from its creation to its order. Requests
for purchase share no rows, so one is enough. `Sale` is what it promises the
parties: one sale, an order that is never rewritten, one winner at most among
those invited, for good and not before there is an order.

State. `status`, `seller` and `terms` are columns of the request (terms: which
counter offer, or 0 for the terms of the request); `match` is each seller's
match row, `counters` the counter offers, `orders` the orders created; `late`
says that the deadline has passed, `worker` where the background worker is.

Actions. `respond` of a seller is three or four steps: `RespondOpen` (the checks
before the transaction), `RespondRead` (the row named `locked`, which is read
without a lock), for a counter offer `ProposeRead` (`createCounter` looks for the
offer to supersede and the next round), and the commit: `SellerAccept`,
`SellerReject`, `CounterOffer` or `SoftResponse`. The customer's answers read
before their transaction (`CustomerRead`) and commit as `CustomerAccept`,
`CustomerReject`, `CounterOffer`. Cancellation and expiry are `CancelRead`,
`Cancel`, `ExpireRead`, `ExpireRequest`; a customer's page that finds the
deadline passed is `ExpireOnRead`. The worker's sweep writes the request and then
its matches without a transaction (`SweepRequest`, `SweepMatches`), expires
counter offers (`SweepCounter`), matches unmatched requests (`AssignRead`,
`AssignWrite`) and can be restarted between any two steps.

A commit is one step because every one of them updates the request's row, so
two of them exclude each other from that update on, and what they write before
it (counter offers, match rows) is read by no one until the commit. What decides
the outcome is on which row each commit decides, and this the model keeps apart:
a seller's acceptance on the row under the lock (`status`), the customer's on
the row it read before (`req[r].status`).

| run | question and answer |
|---|---|
| `procurement_race` | two sellers, the customer and the worker: the flow implements `Sale`, a converted request has its order, a seller's acceptance makes one only from an open request, no two sellers win, closed matches stay closed |
| `procurement_single` | with one request in progress besides the worker: closed requests are final, one counter offer is pending, request and order agree, and under the worker's timer a due request ends closed |
| `procurement_converted` (violation) | a stale cancellation cancels a converted request; its order stays |
| `procurement_offerer` (violation) | the customer accepts one seller's offer and the order goes to another |

The three safety properties of `procurement_single` fail with two requests in
progress. `procurement_converted` is such a failure of `ClosedIsFinal`. A second
accepting seller writes itself into the request before it is told of the first
one's order (`RequestNamesItsOrder`), and two counter offers at once leave two
pending (`OnePendingCounter`). `DueRequestsClose` loses nothing there: a request
that reads before the deadline and commits after the sweep is one request.

Bounds. Two sellers are a winner and a competitor; two requests are the smallest
race, and each commit reads only what one other can have changed in between.
`MaxCounters` bounds the negotiation: one offer, from either side, to accept or
reject in the race, three rounds in the run with one request, and two where the
violations need an answer to an answer.

Fairness. Only the worker's steps are fair: Nest's timer calls it again as long
as the process runs, and a tick that began goes on. No request is bound to end.

## The run of the other components

The components below share no state with each other, so one run,
`operations`, checks small instances of all of them: the initial state of
`MCOperations` picks a part, and every step is a step of that part. A part's
name stands in brackets. The run has about 690,000 states and checks 20
properties; each is guarded by its part. `TypesOK` collects the type invariants.

### Logistics and inventory

`Inventory` is the rows of one product and their stock movements, `Logistics`
extends it with the dispatches of one order.

State. `stock` and `moved` are a row's columns and the sums of its movements,
`overwritten` remembers which columns a form set outright. `po`, `disp`, `bill`,
`ship`, `dely`, `truck`, `slot` are the tables named alike in the code; `req` and
`keep` are requests between read and commit.

Actions. `Reserve` and `Release` lock the row first; `Adjust` and the seller's
two forms read without the lock. A handler of logistics is a `Read` of its kind
and a commit; only the departure (`execute`) and a delivery read the
order inside the transaction, behind a row they locked, and have a step for that.

Checked: the stock that left the rows is that of the order's dispatches, also
for a creation retried with its key (`StockFollowsDispatches`: `keep`, `stock`);
columns agree with the movements until a form overwrites them
(`StockLedgered`; a lost update of `adjust` is such an overwriting); racing
executions never report more dispatched than shipped
(`DispatchedIsShipped`: `send`); no bay or vehicle has two active slots in a
window (`SlotsAreDisjoint`: `book`); with one request at a time, the five tables
tell one story (`OneStory`: `alone`). That last one fails with two requests.

### Import trading

`ImportTrading` has listings, negotiations and deals with their row locks kept
to the commit (`DeadlockEnds` is the database's choice of a victim);
`ImportShipments` has the shipments of one deal. The status of a listing is
moved by an unlocked read and a write by id (`Move`). Parts: `race` (two
negotiations of one listing), `link` (the opener's own listing linked), `trade`
(every handler and the expiry worker on one negotiation), `ship`.

Checked: a deal has the terms of the last offer, which one party made and the
other accepted (`DealIsTheLastOffer`); negotiation and deal together implement
`Bargain` (`BargainsKept`): offers alternate, an agreement is made once by the
party that did not make the last offer, its deal keeps its terms and is not
confirmed once cancelled, and the agreement stays although the sweep closes
negotiations without checking them (with a linked listing it does not); no more
is shipped than agreed and a deal is fulfilled by deliveries
(`FulfilmentIsDelivered`).
`import_twodeals` (violation): a counter offer that read the listing before
another negotiation's acceptance opens it for a second deal.

### Credit applications and the payment page

`CreditApplications` has the applications of one customer, the advisory lock
under which one is made, `moveStatus` with its compare-and-set, and the copies of
the status in two profiles. `PaymentTerms` extends it with what the payment page
shows and what the checkout accepts. Part `apply`: two requests, two
applications.

Checked: an application is decided once, one is open, the customer is told the
state of the last submitted one until somebody suspends or reactivates the
account by hand (`StatusesAgree`); the page lets the customer choose exactly what
the checkout accepts, and invites exactly who may apply
(`PageAgreesWithCheckout`).

### Offers, cart and checkout

`Offers` is the offers with every page that writes them; a page decides on an
earlier read (`EditRead`) and writes by id (`EditWrite`). `Checkout` adds cart,
quotes and submissions. A submission of a quote checks it, locks the offer FOR
UPDATE, checks again and commits; a submission of the cart takes no lock. When
the price changes between the two checks the new quote is inserted on another
connection and waits for the submission's own lock (`Stuck`) until the timeout
(`TimesOut`). `CommercePricing` has the amounts of quote and order. Parts:
`quote` (two submissions, one page), `edit` (one submission, two pages of any
kind), `cart` (two submissions, two sellers), `price` (amounts only; no steps).

Checked: a quote buys once and a key names one submission, although only one
request of a submission carries the key (`SubmitsOnce`); a request is made at the
quote's price while the offer can be ordered (`QuotesBuyLiveOffers`); the amount
the credit check compares covers the order's (`CreditCheckCoversOrder`). In the
order's total a floating-point product may round down where the quote rounds up;
`OrderTotals` admits both.

### KYC

`KycVerification` is the check of one number by an external provider. A process
asks through Surepass's adapter or through the generic one (`adapter`), whichever
it is configured with. Rows age in request timeouts, processes crash and leave
VERIFYING rows that a later attempt abandons after three timeouts (`FindStale`
reads, `Abandon` writes). Surepass's adapter repeats a post once unless it timed
out, and a timeout covers a post with the reading of its answer. The generic one
clears its timer when the headers are there (`Headers`) and reads the body
without one, so `Age` sets no limit from then on: its live call can be taken for
abandoned, a second one is made, and its late outcome overwrites the abandoned
row. Checked (`verify`): there are two calls at a time only behind such a row,
and a live request loses its row in no other way (`OneProviderCall`). That
Surepass alone never has two calls (`SurepassAsksOnce`) is proved.
`CustomerKyc` is the review of a customer under the lock of
the profile's row, with a second check of the status. Checked (`kyc`): every
approval answers a submission of its own, the organization shows the status of
the KYC, a change request is open exactly while the customer has to act
(`KycTellsOneStory`).

### Seller review

`SellerReview` is the review of a seller, in four rows: `profile`, `form` (the
onboarding), `org` and `change` (the request for changes in the verification's
metadata). No operation takes a lock or checks again: `Start` is the check
before the transaction (`Accepted`), `Save`, `Submit`, `Approve`, `Reject`,
`RequestChanges` are the commits, `Suspend` does not depend on a read. What is
decided on may be stale, but each commit writes the profile together with the
rest. Checked (`seller`, as part of `KycTellsOneStory`): a seller under review
has no open request for changes, the organization shows the profile's status,
and a submitted or decided onboarding belongs to a profile at the same point or
a suspended one.

### Grade requests and support

`GradeRequests` is the requests for a new grade with their timelines; parts
`submit` (two rows, an idempotency key) and `review` (a timeline of four events).
`OneTimeline`: each event starts where the one before ended, final states are
final, a converted request has its grade. `SupportTickets` is one ticket; part
`support`. `TimesAgree`: the times of resolution and closing belong to the
status.

### Bounds

Two requests everywhere but in `alone` and `edit`: each commit reads what one
other request can have changed, and a third adds no new kind of step. Two rows
where rows compete, one where they do not. `MaxRounds` is 2 or 3 for 30 in the
code, so that the limit is met; `MaxEvents`, `MaxResolutions`, `MaxSubmissions`,
`MaxApplications`, `MaxRows`, `MaxBatches` cap what has no bound in the code.
`Kinds` and `EditKinds` name the handlers an instance runs; between them the
parts run all. Requests and rows are symmetric; the run has no liveness.

## Fairness

Only three properties need it: `TransactionsFinish`, `LinesBecomeDue` and
`DueRequestsClose`, with the fairness given in the two sections above. The other
components have no fairness: a handler may stop anywhere, and nothing in their
code promises an answer, except the expiry worker, whose effects are safety
matters.

## Proofs

The theorems hold for any number of payments, orders, requests, sellers, rows
and amounts. `SumLemmas` holds the facts about sums, the other seven proof
modules the theorems:

| module | about |
|---|---|
| `Payments_proofs` | `Payments`, `Escrow`, `ScheduleTemplate` |
| `CreditLedger_proofs` | `CreditLedger`, `CreditLine`, `CreditAccountPages` |
| `Procurement_proofs` | `Procurement`, `Sale` |
| `Checkout_proofs` | `Offers`, `Checkout`, `CommercePricing` |
| `Logistics_proofs` | `Inventory`, `Logistics` |
| `Import_proofs` | `ImportShipments`, `ImportTrading`, `Bargain` |
| `Reviews_proofs` | `CreditApplications`, `PaymentTerms`, `SellerReview`, `CustomerKyc`, `KycVerification`, `GradeRequests`, `SupportTickets` |

`Import_proofs` and `Reviews_proofs` are about several components that share no
state; one is extended, the others are instances (`Trade`, `Seller`, `Grade`, ...)
with the names of their own constants and variables. `MCOperations` checks the
same properties with its parts as instances, under names of its own
(`DealIsTheLastOffer` there is "in part `race`, `link` or `trade`,
`DealIsTheLastOffer` of that instance"), which is why most of these theorems are
listed without the property of a run.

### What is assumed

What a module names with ASSUME (amounts are positive integers, "none" values
differ from real ones, `Payments` is finite), and what a theorem names itself:

- `LogisticsConstants`, `ShipmentConstants`, `TradeConstants`,
  `CheckoutConstants`: the rows summed over are finitely many, quantities are
  natural numbers, "none" is not a row, a negotiation has a listing. They belong
  to modules that are instantiated, where TLC evaluates no ASSUME; `TypesOK` has
  them as conjuncts, so the run evaluates them for every instance. For grade
  requests the theorem says that `NoGrade` is not a grade. The theorems on types
  add that the bounds of the models are natural numbers (one event at least for a
  grade request) and that `Amounts` stay below `MaxStock`.
- `Locked`: no payment is verified twice (`Reopened` is empty). Only the
  theorems on exact balances, on the limit and on `CreditLine` need it, and they
  are about `CreditLedger` without the account pages; `credit_overdrawn` shows
  what one page does.
- `OneAtATime` and `OneRequest`: requests do not overlap; worker and deadline
  still act between any two steps of the one request. The theorems that have it
  (`OrdersAreNamed`, `ClosedStaysClosed`, `OneOfferPending`, `StoriesAgree`,
  `PaidOrdersAreSettled`) are false without it: two overlapping requests violate
  each of them, `FullyPaidIsSettled` in the run `payments_unsettled`.
  `OneRequest` also leaves loading slots out, as part `alone` does.
- `"http" \notin Adapters`: no process asks through the generic adapter. Only
  `SurepassIsAskedOnce` needs it; `TwoCallsOnlyBehindBody` is for both.
- `NothingReopens`: no counter offers and no cancelled deals among `Kinds`. Only
  `ListingsHaveOneDeal` needs it, for any number of requests of the other kinds;
  `import_twodeals` shows what one counter offer does.

### The arguments

- **Payments**. Ledger balance alone is not inductive: a commit writes a row
  computed earlier, so `IInv` says what an open transaction is about to write: it
  balances, and it claims no more money than is credited plus the payment being
  verified (`ScheduleWritesSound`, `PiWritesSound`). Money credited only grows,
  so a stale row stays sound while it waits. Drafts are unique because only one
  transaction holds the invoice row (`OnePiWriter`) and what it saw of the drafts
  therefore still stands (`DraftsSound`). Funding of settlement and gate follow,
  and with them the step simulation of `Escrow` (`PaymentsImplementEscrow`).
  Typing alone gives the unique keys and references and what may reopen a
  verified payment. `CirclesHaveASubmit`: the rows are taken in the order
  payment, transaction row, schedule, invoice by all but a submit, so requests
  that all wait for each other contain a submit and its opponent. `PaidOrdersAreSettled` is the other side of
  `payments_unsettled`: with one verification at a time what it read of schedule
  and invoice is what they say when it writes (`ReadsAreFresh`), so the payments
  of the schedules add up to that of the invoice (`PaidTogether`) and the commit
  that pays the last line finds the invoice paid and drafts the settlement
  (`Even`). `SplitIsNonNegative`: the rounded first shares of a split
  never exceed the total, case by case over the templates.
- **Credit ledger**. `LedgerInv` holds beside the account pages too: ledger rows
  tell an order's stage, what a request read before the lock still stands when it
  gets it (`ReadsStand`), and only verified payments are settled, once. From it
  every ledger move commits exact balances, since the recomputation is in the
  same transaction (`LedgerMovesAreExact`), and a payment settles once
  (`PaymentsSettleOnce`). That balances are exact in between needs `Locked`. With
  exact balances the sum over the orders' values grows by the new order's alone,
  and the check against what is available is a check against the limit
  (`ReservationsStayInTheLimit`). The step simulation of `CreditLine`
  (`LedgerImplementsCreditLine`) needs beside it that no order owes more than its
  value, also after a repayment in progress (`DebtsBounded`). `AccountIsTyped`
  holds with the pages too: a page computes a balance from a profile, a ledger and
  schedules of three moments, and still stores a natural number.
- **Procurement**. `IInv` is type correctness, one order, "converted has an
  order", and what a seller's request remembers (`SellerKept`). One lemma per
  action; acceptances share `AcceptedFacts`. `WinnersAreUnique` adds that rows
  are created only while there are none and that no row stays open beside an
  accepted one (`Winner`); `SellersSellWhatIsOpen` that an acceptance of the
  customer names an offer of a seller (`OfferKept`) and that offers keep their
  authors. The step simulation of `Sale` (`ProcurementImplementsSale`) needs
  `Winner` too: an acceptance sells, or finds the request sold and closes it for
  the sellers still invited; a late invitation finds nobody invited. What `Sale`
  leaves open is whether the winner has the order: a seller whose acceptance
  overlaps the customer's can be told that it won another's order, which is why
  `RequestNamesItsOrder` needs one request at a time. With one request at a time,
  `AtRest` says that nothing is in progress on a request that is closed for good,
  and that one with an order is converted and names it; `PendingKnown`, that a
  counter offer about to be recorded knows the pending one it supersedes.
- **Checkout**. `IInv` says that from the lock to the commit a submission holds
  the offer's row (`LockHolds`), that a page which writes without that lock
  leaves the status alone (`EditsAreDecided`), and that every key in use is in
  the unique column (`KeysAreKept`). `CreditCheckCoversOrder`: no discount on
  credit, freight, fees and tax are not negative, and a tier's price is a
  natural number. The types need that a submission carries the offers and the
  price of rows that are there, whenever it read them (`Buying`).
- **Stock and logistics**. A request that holds the lock of a stock row read
  what the row still says (`LockedReads`). A dispatch's quantity is taken from
  the stock in the step that makes it and never changes, so the two sums grow
  together; an execution that holds its rows has counted no more than the
  shipments carry (`Counted`). The unique indexes keep slots apart although a
  confirmation may bring back a cancelled one. `Story` adds to the five tables
  what the one request knows between its steps. `LogisticsIsTyped` says also that
  no column of a stock row gets negative, whatever stale reads are written back;
  `SmallMoves` carries the bound on what a page moves.
- **Import**. A shipment is booked under the lock of the deal, so the sum it
  read is the sum it adds to. A final status is not left, because a tracking event
  compares the version it read. In trading, `Holds` says that what a transaction
  checked of a negotiation stays true while it has the lock, and `Terms` that a
  deal is of the last round and not confirmed by its offerer alone. An agreement
  survives the end of its listing because an acceptance holds the lock of the
  listing that the end needs before it looks for negotiations; a linked listing
  is not locked, hence the exception in `AgreedStaysAgreed`. The step simulation
  of `Bargain` (`TradeImplementsBargain`) is one lemma per action that writes a
  negotiation or a deal, from `Holds` and `Terms`. `MarketInv` is about the move
  of the listing that an acceptance has still to make: its listing is locked,
  it was found open and still is, and it is on the list of what the transaction
  moves (`WillMove`), after the linked one if that sorts first. So a listing
  with a deal is off the market, and an acceptance finds it without one
  (`ListingsHaveOneDeal`).
- **Reviews**. Credit applications: only the last application is open
  (`OpenIsLast`), since the advisory lock keeps "none is open" true until the
  insert, and no closed status may become another, so a compare-and-set stops
  whoever comes late. Seller review: with typing, the story is inductive.
  Customer KYC: each decision is made on the row it locks. Provider checks: a
  live request that has a timeout left is younger than its posts, two at most,
  so only one that came to read a body can be found three timeouts old, and the
  unique index keeps a second call away while the row is VERIFYING. Grade requests: every move compares the status it read with the
  row's, and the timeline of a row ends in the row's status. Tickets: each status
  sets or clears the two times. Types come with these invariants, except where
  the bound of a counter is part of the type: `CheckBounded` and `GradeBounded`
  carry it.

### Sums without induction

Allocated, delivered, dispatched and reserved quantities are sums of functions
over sets of rows (`SumFunctionOnSet`). Its recursion picks elements by CHOOSE,
and the induction theorems of the library take an operator, which no installed
prover instantiates. `SumLemmas` therefore argues with a smallest
counterexample: strict inclusion of the subsets of a finite set is well-founded,
so a non-empty set of subsets for which a claim fails has a minimal member, and
one step of the recursion contradicts it. From this come that the recursion is
a function, that the order of the picks does not matter, and how a sum changes
with one row.

### What is only model-checked

- Liveness: `TransactionsFinish` and `DueRequestsClose`. Fairness and ENABLED
  are out of the prover's reach.
- That the parts of `MCOperations` are instances of the modules, with the
  constants given there. What a part is checked for is proved of its module: the
  conjuncts of `TypesOK` are the theorems `LogisticsIsTyped`, `TradeIsTyped`,
  `ShipmentsAreTyped`, `ReviewsAreTyped`, `AccountIsTyped` and `CheckoutIsTyped`.
- The six violations, which are facts about small instances. Four have a
  theorem that says what excludes them: `PaidOrdersAreSettled`,
  `ReservationsStayInTheLimit`, `ClosedStaysClosed` and `ListingsHaveOneDeal`.

Every safety property of a passing run, action properties and the four
refinements included, is stated by a theorem, of the component where the run
checks an instance.

## Weaknesses the models show

Beside the six findings in `PROJECT.json` the models contain behaviour that no
document forbids, or that a property excludes by name:

- *Payments*: see the two above; a duplicated submit and a verification or
  rejection can deadlock, and one of them is answered with an error.
- *Procurement*: two overlapping counter offers stay pending, and request and
  order may name different sellers, as said with its runs.
- *Logistics*: a cancelled dispatch keeps its stock deducted; two overlapping
  requests leave statuses that do not fit together; `adjust` of the stock undoes
  a booking or a dispatch committed since its read.
- *Import*: the limit of rounds can be exceeded by one; `setDealStatus` may write PARTIALLY_FULFILLED over FULFILLED.
- *Checkout*: two submissions of a cart without a key both make requests; adding
  to a cart can lose an update; a concurrent submission with the same key gets an
  error, not the earlier requests; the new quote inside the transaction waits for
  its own lock until the timeout; an unlocked change of a tier can move the price
  after the second check.
- *Amounts*: order and invoice are quantity times unit price, without the
  quote's tax, freight and advance discount
  (`procurement/common/commercial-acceptance.service.ts:62`).
- *Credit*: a suspended account without an open application is shown as
  NOT_APPLIED, although the page has a state SUSPENDED for it
  (`payments/common/payment-eligibility.ts:421`).
- *Support*: a ticket that goes from RESOLVED to CLOSED loses both of its times
  (`support/support.service.ts:391`).
- *Provider checks*: with the generic adapter an owner can have two provider
  calls at a time, as said above, although the migration wants "Only one in-flight
  provider call per owner and type"
  (`prisma/migrations/20261003140000_kyc_verifications/migration.sql:43`) and the
  threshold is meant to "allow for two timeouts plus slack"
  (`kyc-verification/kyc-verification.service.ts:184`). `OneProviderCall` says
  that this is the only way.
- *Customer KYC*: approve signs off the documents it read before the lock.
- *Seller review*: `submit` does not look at the lock of the onboarding, so an
  approved seller can go back under review; a stale save writes IN_PROGRESS over
  SUBMITTED or APPROVED; approve and reject write back metadata read earlier and
  can drop a request for changes made meanwhile; a request for changes of a
  suspended seller leaves organization and user suspended.

## Not modelled

Numbers, texts, views, notifications, audit and event rows: nothing decides on
them. Refunds, write-offs and cancellation of payments: statuses without code
that writes them. In the credit ledger the overdue amounts, which the clock
derives from due dates. In procurement prices and stock checks, which refuse a
request and so are an `Abort`.

Whole components: authentication and the rights of managers are access control,
which belongs to a security review. Documents, data sheets, address book, price
alerts, bulk quotes, price revisions and the content of import matches are
unlocked reads followed by writes of single rows, with no promise in the code
about racing requests that a model could check; examples are an address book with
two defaults, two files of one onboarding slot archiving each other, and a data
sheet request that stays open when it is created while the sheet is approved.
Master data, locations, CMS, analytics and dashboards create, read, update and
delete. Most of the code that no definition maps is of these kinds: queries,
mapping to responses, validation of input and bootstrap data.

## Plan

Done: payments with `Escrow`, procurement with `Sale`, credit ledger with
`CreditLine` and account pages, credit applications and payment page, logistics
and inventory, import trading with `Bargain` and shipments, offers, checkout and pricing, KYC, seller review, grade
requests, support.

Left, in this order:

1. **Compositions**: acceptance with ledger and payments; dispatch with the
   payment gate and the milestones.
2. **Theorems about compositions**, once there are any; those about the
   components are done.
3. The order of row locks in the reviews of credit and of sellers, listed as a
   hazard without a property.
