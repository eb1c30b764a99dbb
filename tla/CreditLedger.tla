----------------------------- MODULE CreditLedger -----------------------------
(***************************************************************************)
(* The platform credit of one customer: the credit profile with its stored *)
(* balances, the ledger of credit_transactions, and the orders that use    *)
(* the credit.  An order reserves its value when it is created, the first  *)
(* dispatch turns the reservation into utilised credit, verified payments  *)
(* bring down what the order's schedule still owes.                        *)
(*                                                                         *)
(* Reservation, utilisation, settlement, approval and limit changes lock   *)
(* the profile row, insert ledger rows and recompute the balances before   *)
(* they commit: each is one step from the lock to the commit, after a step *)
(* with the reads made before the lock.  The account pages of the          *)
(* administrators are in CreditAccountPages.                               *)
(***************************************************************************)
EXTENDS Integers, Functions

CONSTANTS
  Orders,        \* purchase orders on platform credit
  Values,        \* order totals, in paise
  Limits,        \* limits administrators set
  Payments,      \* payments of these orders
  PayOf,         \* the order a payment belongs to
  PayAmount,     \* its amount
  Reopened,      \* payments submitted and verified again after verification
  MaxDispatches, \* bound: dispatches of an order
  Requests,      \* concurrently running requests
  NoOrder, NoPayment

ASSUME AmountsAssumption ==
  /\ Values \subseteq Nat \ {0} /\ Limits \subseteq Nat \ {0}
  /\ PayOf \in [Payments -> Orders] /\ PayAmount \in [Payments -> Nat \ {0}]
ASSUME NoneAssumption == NoOrder \notin Orders /\ NoPayment \notin Payments

VARIABLES
  profile,   \* the customer_credit_profiles row
  orders,    \* per order: the order, its only schedule, its ledger rows
  settled,   \* per payment: number of CREDIT_SETTLED rows
  verified,  \* payments that have been verified
  req        \* requests in progress

vars == <<profile, orders, settled, verified, req>>

\* IN_PROCESS stands for PENDING, UNDER_REVIEW and REJECTED.
CreditStatus == {"IN_PROCESS", "APPROVED", "SUSPENDED"}
Profile == [status : CreditStatus, account : {"ACTIVE", "SUSPENDED"},
            approved : Nat, pending : Nat, outstanding : Nat, available : Nat]
Order == [open : {0, 1}, value : Nat, remaining : Nat, reserved : Nat,
          utilized : Nat, dispatches : Nat]
At == {"idle", "reserve", "utilize", "settle"}
Request == [at : At, o : Orders \cup {NoOrder}, p : Payments \cup {NoPayment}, n : Nat]

NoRow == [open |-> 0, value |-> 0, remaining |-> 0, reserved |-> 0,
          utilized |-> 0, dispatches |-> 0]
Idle == [at |-> "idle", o |-> NoOrder, p |-> NoPayment, n |-> 0]

Init ==
  /\ profile = [status |-> "IN_PROCESS", account |-> "ACTIVE", approved |-> 0,
                pending |-> 0, outstanding |-> 0, available |-> 0]
  /\ orders = [o \in Orders |-> NoRow]
  /\ settled = [p \in Payments |-> 0]
  /\ verified = {}
  /\ req = [r \in Requests |-> Idle]

-----------------------------------------------------------------------------
(* refreshBalances: the ledger rows are collected into sets of orders, so a *)
(* duplicate row counts once.                                               *)

\* The sum of a field over a set of orders.
Sum(amounts, S) == IF S = {} THEN 0 ELSE SumFunctionOnSet(amounts, S)

Used(ords) == {o \in Orders : ords[o].utilized > 0}

\* Mutant: an utilised order is still counted as reserved.
Waiting_KeepsUtilized(ords) == {o \in Orders : ords[o].reserved > 0}

\* Reserved and not utilised yet.
Waiting(ords) == {o \in Orders : ords[o].reserved > 0} \ Used(ords)

Pending(ords) == Sum([o \in Orders |-> ords[o].value], Waiting(ords))
Outstanding(ords, used) == Sum([o \in Orders |-> ords[o].remaining], used)

NotNegative(n) == IF n < 0 THEN 0 ELSE n

\* The profile after a refresh that found these sums.
Refreshed(row, approved, pending, outstanding) ==
  [status |-> row.status, account |-> row.account, approved |-> row.approved,
   pending |-> pending, outstanding |-> outstanding,
   available |-> NotNegative(approved - pending - outstanding)]

\* A refresh under the lock.
Refresh(row, ords) ==
  Refreshed(row, row.approved, Pending(ords), Outstanding(ords, Used(ords)))

\* loadEligibleAccount; the profile's expiresAt is never set.
Eligible == profile.status = "APPROVED" /\ profile.account = "ACTIVE"

Done(r) == req' = [req EXCEPT ![r] = Idle]

-----------------------------------------------------------------------------
(* reserveForPurchaseOrder, in the transaction that creates the order, its  *)
(* proforma invoice and its single CREDIT schedule.                         *)

ReserveRead(r, o, value) ==
  /\ req[r].at = "idle"
  /\ orders[o].open = 0
  /\ \A q \in Requests : req[q].o # o
  /\ Eligible
  /\ value <= profile.available
  /\ req' = [req EXCEPT ![r] =
               [at |-> "reserve", o |-> o, p |-> NoPayment, n |-> value]]
  /\ UNCHANGED <<profile, orders, settled, verified>>

\* Mutant: only the check before the lock is made.
Fits_Unchecked(value) == TRUE

\* The check under the lock.
Fits(value) == value <= profile.available

\* Mutant: the balances are recomputed before the reservation is recorded.
ReserveCommit_RefreshFirst(r) ==
  /\ req[r].at = "reserve"
  /\ Fits(req[r].n)
  /\ orders' = [orders EXCEPT ![req[r].o] =
                  [open |-> 1, value |-> req[r].n, remaining |-> req[r].n,
                   reserved |-> 1, utilized |-> 0, dispatches |-> 0]]
  /\ profile' = Refresh(profile, orders)
  /\ Done(r)
  /\ UNCHANGED <<settled, verified>>

ReserveCommit(r) ==
  LET o == req[r].o
      n == req[r].n IN
  /\ req[r].at = "reserve"
  /\ IF Fits(n)
     THEN /\ orders' = [orders EXCEPT ![o] =
                          [open |-> 1, value |-> n, remaining |-> n,
                           reserved |-> 1, utilized |-> 0, dispatches |-> 0]]
          /\ profile' = Refresh(profile, orders')
     ELSE UNCHANGED <<orders, profile>>
  /\ Done(r)
  /\ UNCHANGED <<settled, verified>>

-----------------------------------------------------------------------------
(* DispatchService.create of an order on credit: the gate, and in the       *)
(* transaction utilizeReservedCredit.  A reservation is always found: it    *)
(* was committed with the order.  n tells whether a utilisation was found.  *)

UtilizeRead(r, o) ==
  /\ req[r].at = "idle"
  /\ orders[o].open = 1
  /\ orders[o].dispatches < MaxDispatches
  /\ Eligible
  /\ orders[o].reserved > 0
  /\ req' = [req EXCEPT ![r] =
               [at |-> "utilize", o |-> o, p |-> NoPayment,
                n |-> IF orders[o].utilized > 0 THEN 1 ELSE 0]]
  /\ UNCHANGED <<profile, orders, settled, verified>>

UtilizeCommit(r) ==
  LET o == req[r].o
      row == orders[o] IN
  /\ req[r].at = "utilize"
  /\ orders' = [orders EXCEPT ![o] =
                  [open |-> 1, value |-> row.value,
                   remaining |-> row.remaining, reserved |-> row.reserved,
                   utilized |-> IF req[r].n = 0 THEN row.utilized + 1
                                ELSE row.utilized,
                   dispatches |-> row.dispatches + 1]]
  /\ profile' = IF req[r].n = 0 THEN Refresh(profile, orders') ELSE profile
  /\ Done(r)
  /\ UNCHANGED <<settled, verified>>

-----------------------------------------------------------------------------
(* repayForPayment, in the transaction of PaymentVerificationService.verify *)
(* that has already read and overwritten the order's schedule.  The payment *)
(* row is claimed, hence locked, from the read on.                          *)

\* Mutant: verification does not look for an earlier settlement.
AlreadySettled_Never(p) == FALSE

AlreadySettled(p) == settled[p] > 0

SettleRead(r, p) ==
  /\ req[r].at = "idle"
  /\ p \notin verified \/ p \in Reopened
  /\ \A q \in Requests : req[q].p # p
  /\ orders[PayOf[p]].open = 1
  /\ PayAmount[p] <= orders[PayOf[p]].remaining
  /\ req' = [req EXCEPT ![r] =
               [at |-> "settle", o |-> PayOf[p], p |-> p,
                n |-> orders[PayOf[p]].remaining - PayAmount[p]]]
  /\ UNCHANGED <<profile, orders, settled, verified>>

SettleCommit(r) ==
  LET o == req[r].o
      p == req[r].p
      row == orders[o] IN
  /\ req[r].at = "settle"
  /\ orders' = [orders EXCEPT ![o] =
                  [open |-> 1, value |-> row.value, remaining |-> req[r].n,
                   reserved |-> row.reserved, utilized |-> row.utilized,
                   dispatches |-> row.dispatches]]
  /\ verified' = verified \cup {p}
  /\ IF AlreadySettled(p)
     THEN UNCHANGED <<settled, profile>>
     ELSE /\ settled' = [settled EXCEPT ![p] = @ + 1]
          /\ profile' = Refresh(profile, orders')
  /\ Done(r)

\* Any request may end before it commits.
Abort(r) ==
  /\ req[r].at # "idle"
  /\ Done(r)
  /\ UNCHANGED <<profile, orders, settled, verified>>

-----------------------------------------------------------------------------
(* AdminCreditService *)

\* The profile with a new status, account status and limit.
WithStatus(status, account, approved) ==
  [status |-> status, account |-> account, approved |-> approved,
   pending |-> profile.pending, outstanding |-> profile.outstanding,
   available |-> profile.available]

\* decideApproval, for the first application or a later one.
Approve(limit) ==
  /\ profile' = Refresh(WithStatus("APPROVED", "ACTIVE", limit), orders)
  /\ UNCHANGED <<orders, settled, verified, req>>

\* A new application, its review or its rejection.
Reassess ==
  /\ profile' = WithStatus("IN_PROCESS", profile.account, profile.approved)
  /\ UNCHANGED <<orders, settled, verified, req>>

-----------------------------------------------------------------------------
Next ==
  \/ \E r \in Requests :
       \/ \E o \in Orders, v \in Values : ReserveRead(r, o, v)
       \/ ReserveCommit(r)
       \/ \E o \in Orders : UtilizeRead(r, o)
       \/ UtilizeCommit(r)
       \/ \E p \in Payments : SettleRead(r, p)
       \/ SettleCommit(r)
       \/ Abort(r)
  \/ \E limit \in Limits : Approve(limit)
  \/ Reassess

Spec == Init /\ [][Next]_vars

-----------------------------------------------------------------------------
(* Properties *)

\* Every row and every request in progress has its type; in particular no
\* stored balance is ever negative.
RowsTyped ==
  /\ orders \in [Orders -> Order]
  /\ settled \in [Payments -> Nat]
  /\ verified \subseteq Payments
TypeOK ==
  /\ profile \in Profile
  /\ RowsTyped
  /\ req \in [Requests -> Request]

\* What the customer owes, from the orders themselves: an order not yet
\* dispatched its value, a dispatched one what its schedule still shows.
Reserved == Sum([o \in Orders |-> orders[o].value],
                {o \in Orders : orders[o].open = 1 /\ orders[o].dispatches = 0})
Owed == Sum([o \in Orders |-> orders[o].remaining],
            {o \in Orders : orders[o].dispatches > 0})

\* The stored balances say what the orders say, whatever dispatches,
\* reservations and settlements ran concurrently, also when two dispatches
\* both recorded the utilisation of one order (refreshBalances).
StoredBalanceIsExact ==
  /\ profile.pending = Reserved
  /\ profile.outstanding = Owed
  /\ profile.available = NotNegative(profile.approved - Reserved - Owed)

FitsInTheLimit ==
  \A o \in Orders : orders[o].open = 0 /\ orders'[o].open = 1 =>
    Reserved' + Owed' <= profile'.approved

\* An order is put on credit only if, with it, the customer owes no more than
\* the limit (the check of reserveForPurchaseOrder).
ReservationsFit == [][FitsInTheLimit]_vars

\* The credit line that the profile and the orders are.
Stage(o) ==
  CASE orders[o].dispatches > 0 -> "drawn"
    [] orders[o].dispatches = 0 /\ orders[o].open = 1 -> "placed"
    [] OTHER -> "none"
Debts == [o \in Orders |-> [stage |-> Stage(o), value |-> orders[o].value,
                            left |-> orders[o].remaining]]
Line == INSTANCE CreditLine WITH limit <- profile.approved, debt <- Debts

\* The ledger implements the credit line (CreditLine): every step of a request
\* or an administrator places one order within the limit, draws it once, pays
\* some of it or sets the limit.
LineOfCredit == Line!Spec

\* A payment settles credit at most once, however often it is verified.
SettledOnce == \A p \in Payments : settled[p] <= 1

LedgerRows == <<[o \in Orders |-> <<orders[o].reserved, orders[o].utilized>>],
                settled>>
LedgerStep ==
  (LedgerRows' # LedgerRows \/ profile'.approved # profile.approved) => StoredBalanceIsExact'

\* Every new ledger row and every new limit is committed together with exact
\* balances, even after an account page stored stale ones.
LedgerMovesLeaveExactBalances == [][LedgerStep]_vars

-----------------------------------------------------------------------------
(* The inductive invariants. *)

\* The ledger rows of an order tell its stage.
RowsTellStage ==
  \A o \in Orders :
    /\ orders[o].open = 1 <=> orders[o].reserved > 0
    /\ orders[o].dispatches > 0 <=> orders[o].utilized > 0
    /\ orders[o].dispatches > 0 => orders[o].open = 1

\* A dispatch that found a utilisation row still finds it at commit; a
\* reservation in progress is for an order not yet created, and for no other
\* request.
ReadsStand ==
  \A r \in Requests :
    /\ req[r].at = "utilize" =>
         /\ req[r].o \in Orders /\ orders[req[r].o].open = 1
         /\ req[r].n # 0 => orders[req[r].o].utilized > 0
    /\ req[r].at = "reserve" =>
         /\ \A q \in Requests \ {r} : req[q].o # req[r].o
         /\ req[r].o \in Orders /\ orders[req[r].o].open = 0 /\ req[r].n \in Nat \ {0}
    /\ req[r].at = "settle" =>
         /\ req[r].p \in Payments /\ req[r].o \in Orders
         /\ orders[req[r].o].open = 1 /\ req[r].n \in Nat

\* Settled payments are verified; one that may not be verified again is
\* settled by none but the request that holds it.
SettledAreVerified ==
  /\ \A p \in Payments : settled[p] > 0 => p \in verified
  /\ \A r \in Requests :
       req[r].at = "settle" => req[r].p \notin verified \/ req[r].p \in Reopened
  /\ \A q, r \in Requests :
       req[q].at = "settle" /\ req[r].at = "settle" /\ req[q].p = req[r].p =>
         q = r

\* What holds whoever writes the profile.
LedgerInv ==
  /\ RowsTyped
  /\ DOMAIN req = Requests
  /\ RowsTellStage
  /\ ReadsStand
  /\ SettledAreVerified
  /\ SettledOnce

\* No order owes more than its value, and no verification under way makes it.
DebtsBounded ==
  /\ \A o \in Orders : orders[o].remaining <= orders[o].value
  /\ \A r \in Requests : req[r].at = "settle" => req[r].n <= orders[req[r].o].value

\* With every writer under the lock the balances are exact, too.
IInv == LedgerInv /\ DebtsBounded /\ StoredBalanceIsExact
=============================================================================
