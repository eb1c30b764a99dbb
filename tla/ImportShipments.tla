---------------------------- MODULE ImportShipments ----------------------------
(***************************************************************************)
(* The shipments of one confirmed deal of import trade, and the status     *)
(* that the deal takes from what they deliver.                             *)
(*                                                                         *)
(* Booking and tracking lock the deal with SELECT ... FOR UPDATE, so two   *)
(* of them never overlap; what a tracking event read of its shipment       *)
(* before is compared, with its version, in the update.  The administrator *)
(* sets the deal's status from reads without the lock.  The listings of    *)
(* the deal, which both move along, are left to ImportTrading.             *)
(***************************************************************************)
EXTENDS Integers, FiniteSets, Functions

CONSTANTS
  Shipments,   \* shipments that may be booked
  Quantity,    \* agreed quantity of the deal
  Requests,    \* concurrently running requests
  NoShipment

ShipmentConstants == IsFiniteSet(Shipments) /\ Quantity \in Nat /\ NoShipment \notin Shipments

VARIABLES
  deal,        \* import_deals.status
  ship,        \* status and quantity of each shipment; "NONE": not booked
  req          \* requests in progress

vars == <<deal, ship, req>>

DealStatus == {"CONFIRMED", "PARTIALLY_FULFILLED", "FULFILLED", "CANCELLED"}
Shippable == {"CONFIRMED", "PARTIALLY_FULFILLED"}
Recoverable == {"SHIPPED", "IN_TRANSIT", "ARRIVED", "CUSTOMS_CLEARANCE", "OUT_FOR_DELIVERY"}
ShipmentStatus == Recoverable \cup {"BOOKED", "EXCEPTION", "DELIVERED", "CANCELLED"}

\* TRANSITIONS of the shipment machine.
Transitions == [s \in ShipmentStatus |->
  CASE s = "BOOKED" -> {"SHIPPED", "EXCEPTION", "CANCELLED"}
    [] s = "SHIPPED" -> {"IN_TRANSIT", "ARRIVED", "EXCEPTION"}
    [] s = "IN_TRANSIT" -> {"ARRIVED", "EXCEPTION"}
    [] s = "ARRIVED" -> {"CUSTOMS_CLEARANCE", "OUT_FOR_DELIVERY", "DELIVERED", "EXCEPTION"}
    [] s = "CUSTOMS_CLEARANCE" -> {"OUT_FOR_DELIVERY", "DELIVERED", "EXCEPTION"}
    [] s = "OUT_FOR_DELIVERY" -> {"DELIVERED", "EXCEPTION"}
    [] s = "EXCEPTION" -> Recoverable \cup {"CANCELLED"}
    [] OTHER -> {}]
Terminal(s) == Transitions[s] = {}

\* A request: the shipment it works on, the status it writes, whether the row
\* still has the version it read, and the sum it took of the shipments.
Request(at, s, to, fresh, sum) == [at |-> at, s |-> s, to |-> to, fresh |-> fresh, sum |-> sum]
Idle == Request("idle", NoShipment, "BOOKED", TRUE, 0)

Row(status, qty) == [status |-> status, qty |-> qty]

Init ==
  /\ deal = "CONFIRMED"
  /\ ship = [s \in Shipments |-> Row("NONE", 0)]
  /\ req = [r \in Requests |-> Idle]

TypeOK ==
  /\ deal \in DealStatus
  /\ ship \in [Shipments -> [status : ShipmentStatus \cup {"NONE"}, qty : 0 .. Quantity]]
  /\ \A r \in Requests :
       /\ req[r].at \in {"idle", "booking", "tracking", "editing", "proving", "setting"}
       /\ req[r].s \in Shipments \cup {NoShipment}
       /\ req[r].to \in ShipmentStatus \cup DealStatus

\* The sum of the quantities of the rows with a status.
SumOf(rows, statuses) ==
  SumFunctionOnSet([s \in Shipments |-> IF rows[s].status \in statuses THEN rows[s].qty ELSE 0],
                   Shipments)
Allocated == SumOf(ship, ShipmentStatus \ {"CANCELLED"})
Delivered == SumOf(ship, {"DELIVERED"})

DealFree(r) == \A q \in Requests \ {r} : req[q].at # "booking"
Start(r, state) == req[r].at = "idle" /\ req' = [req EXCEPT ![r] = state]

\* r is done, and the version of s is not what others read of it any more.
DoneWith(r, s) ==
  req' = [q \in Requests |->
            IF q = r THEN Idle
            ELSE Request(req[q].at, req[q].s, req[q].to, req[q].fresh /\ req[q].s # s, req[q].sum)]

-----------------------------------------------------------------------------
\* Mutant: create reads the sum without the lock of the deal.
CreateRead_Unlocked(r, s) ==
  /\ ship[s].status = "NONE" /\ \A q \in Requests : req[q].s # s
  /\ deal \in Shippable
  /\ Start(r, Request("booking", s, "BOOKED", TRUE, Allocated))
  /\ UNCHANGED <<deal, ship>>

\* create: the lock of the deal, its status, and the quantity allocated so far.
CreateRead(r, s) ==
  /\ ship[s].status = "NONE" /\ \A q \in Requests : req[q].s # s
  /\ DealFree(r)
  /\ deal \in Shippable
  /\ Start(r, Request("booking", s, "BOOKED", TRUE, Allocated))
  /\ UNCHANGED <<deal, ship>>

\* A quantity that fits is booked; one that does not is refused.
CreateCommit(r, qty) ==
  /\ req[r].at = "booking"
  /\ qty <= Quantity - req[r].sum
  /\ ship' = [ship EXCEPT ![req[r].s] = Row("BOOKED", qty)]
  /\ req' = [req EXCEPT ![r] = Idle]
  /\ UNCHANGED deal

CreateRefused(r) ==
  /\ req[r].at = "booking"
  /\ req' = [req EXCEPT ![r] = Idle]
  /\ UNCHANGED <<deal, ship>>

\* addEvent of the seller and the administrator reads the shipment; an event
\* without a new status is a note.
EventRead(r, s, to) ==
  /\ ship[s].status # "NONE" /\ ~Terminal(ship[s].status)
  /\ to \in Transitions[ship[s].status] \cup {ship[s].status}
  /\ Start(r, Request("tracking", s, to, TRUE, 0))
  /\ UNCHANGED <<deal, ship>>

\* fulfilmentStatus of the sum that has been delivered.
FulfilmentStatus(sum) ==
  IF deal \notin Shippable \/ sum = 0 THEN deal
  ELSE IF sum >= Quantity THEN "FULFILLED" ELSE "PARTIALLY_FULFILLED"

\* applyEvent with the lock of the deal: the update of the shipment, and
\* syncFulfilment after a delivery or a cancellation.
EventCommit(r) ==
  LET s == req[r].s
      now == [ship EXCEPT ![s] = Row(req[r].to, @.qty)]
  IN  /\ req[r].at = "tracking"
      /\ DealFree(r)
      /\ req[r].fresh
      /\ ship' = now
      /\ deal' = IF req[r].to \in {"DELIVERED", "CANCELLED"} THEN FulfilmentStatus(SumOf(now, {"DELIVERED"})) ELSE deal
      /\ DoneWith(r, s)

\* update of details: the version alone is compared.
DetailsRead(r, s) ==
  /\ ship[s].status # "NONE" /\ ~Terminal(ship[s].status)
  /\ Start(r, Request("editing", s, "BOOKED", TRUE, 0))
  /\ UNCHANGED <<deal, ship>>

DetailsCommit(r) ==
  /\ req[r].at = "editing" /\ req[r].fresh
  /\ DoneWith(r, req[r].s)
  /\ UNCHANGED <<deal, ship>>

\* "This shipment changed; refresh and try again."
Conflict(r) ==
  /\ req[r].at \in {"tracking", "editing"} /\ ~req[r].fresh
  /\ req' = [req EXCEPT ![r] = Idle]
  /\ UNCHANGED <<deal, ship>>

\* setDealStatus reads the deal ...
SetDealRead(r, to) ==
  /\ to \in CASE deal = "CONFIRMED" -> DealStatus \ {"CONFIRMED"}
              [] deal = "PARTIALLY_FULFILLED" -> {"FULFILLED", "CANCELLED"}
              [] OTHER -> {}
  /\ Start(r, Request(IF to = "CANCELLED" THEN "setting" ELSE "proving", NoShipment, to, TRUE, 0))
  /\ UNCHANGED <<deal, ship>>

\* ... then the deliveries that must support a fulfilment ...
SetDealProve(r) ==
  LET proved == IF req[r].to = "FULFILLED" THEN Delivered >= Quantity
                ELSE 0 < Delivered /\ Delivered < Quantity
  IN  /\ req[r].at = "proving"
      /\ req' = [req EXCEPT ![r] = IF proved THEN Request("setting", NoShipment, @.to, TRUE, 0) ELSE Idle]
      /\ UNCHANGED <<deal, ship>>

\* ... and updates the deal by its id.
SetDealCommit(r) ==
  /\ req[r].at = "setting"
  /\ DealFree(r)
  /\ deal' = req[r].to
  /\ req' = [req EXCEPT ![r] = Idle]
  /\ UNCHANGED ship

Next ==
  \E r \in Requests :
    \/ \E s \in Shipments :
         \/ CreateRead(r, s)
         \/ \E to \in ShipmentStatus : EventRead(r, s, to)
         \/ DetailsRead(r, s)
    \/ \E qty \in 1 .. Quantity : CreateCommit(r, qty)
    \/ CreateRefused(r)
    \/ EventCommit(r) \/ DetailsCommit(r) \/ Conflict(r)
    \/ \E to \in DealStatus : SetDealRead(r, to)
    \/ SetDealProve(r) \/ SetDealCommit(r)

Spec == Init /\ [][Next]_vars

-----------------------------------------------------------------------------
(* Properties *)

\* Racing bookings never ship more than the deal's quantity, also when
\* cancelled shipments give quantity back, and a deal is reported fulfilled,
\* or partly, only on what was delivered, whoever sets it.
FulfilmentIsDelivered ==
  /\ Allocated <= Quantity
  /\ deal = "FULFILLED" => Delivered = Quantity
  /\ deal = "PARTIALLY_FULFILLED" => Delivered > 0
=============================================================================
