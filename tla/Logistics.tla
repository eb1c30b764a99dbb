------------------------------- MODULE Logistics -------------------------------
(***************************************************************************)
(* The dispatches of one purchase order, from the vehicle and its loading  *)
(* slot over the e-way bill to the shipment and its delivery.              *)
(*                                                                         *)
(* A handler reads the rows it decides on before its transaction and then  *)
(* updates them by id, whatever they hold by then: it is one step for the  *)
(* reads and one for the commit.  Two transactions read the order inside,  *)
(* after a row of their own is locked, and have a step for that.           *)
(***************************************************************************)
EXTENDS Inventory

CONSTANTS
  Dispatches,   \* dispatches the order may get
  Vehicles,     \* vehicles of the seller
  Slots,        \* loading slots that may be booked
  Bays,         \* loading bays of the warehouse
  Windows,      \* time windows of a day
  Requests,     \* concurrently running requests
  Ordered,      \* quantity of the order
  MaxDelivered, \* bound: the quantity reported as delivered
  Kinds,        \* bound: the handlers an instance runs
  NoDispatch, NoVehicle, NoSlot

VARIABLES
  po,        \* status, dispatchedQuantity and deliveredQuantity of the order
  disp,      \* dispatches; status "NONE": not created yet
  bill,      \* per dispatch: its latest e-way bill
  ship,      \* per dispatch: status of its shipment
  dely,      \* per dispatch: status of its shipment's delivery
  truck,     \* vehicles.status
  slot,      \* vehicle slots; "NONE", and "booking" before its commit
  req        \* requests in progress

orderVars == <<po, disp, bill, ship, dely>>
vars == <<po, disp, bill, ship, dely, truck, slot, req,
          stock, moved, overwritten, locked, keep>>

\* DRAFT and PLANNED are never written.
DispatchStatus == {"AWAITING_VEHICLE", "VEHICLE_ASSIGNED", "AWAITING_EWAY_BILL",
                   "READY_FOR_DISPATCH", "LOADING", "LOADED", "DISPATCHED", "CANCELLED"}
Ended == {"NONE", "DISPATCHED", "CANCELLED"}
ShipmentStatus == {"DISPATCHED", "IN_TRANSIT", "OUT_FOR_DELIVERY", "DELIVERED",
                   "DELIVERY_CONFIRMED", "EXCEPTION"}
DeliveryStatus == {"SCHEDULED", "OUT_FOR_DELIVERY", "PARTIAL", "DELIVERED",
                   "CONFIRMED", "EXCEPTION"}
BillStatus == {"NONE", "VALID", "EXPIRED", "CANCELLED"}
OrderStatus == {"CONFIRMED", "READY_FOR_DISPATCH", "DISPATCHED", "DELIVERED"}
VehicleStatus == {"AVAILABLE", "ASSIGNED", "IN_TRANSIT", "OFF"}
\* The statuses of a slot that are written, all of which keep its place.
ActiveSlot == {"REQUESTED", "CONFIRMED"}
Quantities == 1 .. Ordered

Moves == {"LOADING", "LOADED", "READY_FOR_DISPATCH", "CANCELLED"}
Tracking == {"IN_TRANSIT", "OUT_FOR_DELIVERY", "DELIVERED"}
AllKinds == Moves \cup {"CREATE", "ASSIGN", "BILL", "EXECUTE", "TRACK", "DELIVER", "CONFIRM",
                        "EXCEPTION", "RESOLVE", "VEHICLE", "SLOT", "SLOT_CONFIRM", "SLOT_CANCEL"}

\* The order's row, and the row of a dispatch.
Order(status, dispatched, delivered) ==
  [status |-> status, dispatched |-> dispatched, delivered |-> delivered]
Row(status, qty, v) == [status |-> status, qty |-> qty, v |-> v]

\* A request: what it does to which row, and what it holds of its reads: a
\* status, a vehicle, and a quantity or sum.
Request(at, kind, d, s, was, v, n) ==
  [at |-> at, kind |-> kind, d |-> d, s |-> s, was |-> was, v |-> v, n |-> n]
Idle == Request("idle", "CREATE", NoDispatch, NoSlot, "NONE", NoVehicle, 0)

\* A slot: its status, and, while it is being booked, the status of the
\* dispatch as it was read.
Booking(status, d, v, driver, bay, window, was) ==
  [status |-> status, d |-> d, v |-> v, driver |-> driver, bay |-> bay, window |-> window,
   was |-> was]
NoBooking == Booking("NONE", NoDispatch, NoVehicle, FALSE, "none", "none", "NONE")

Init ==
  /\ po = Order("CONFIRMED", 0, 0)
  /\ disp = [d \in Dispatches |-> Row("NONE", 0, NoVehicle)]
  /\ bill = [d \in Dispatches |-> "NONE"]
  /\ ship = [d \in Dispatches |-> "NONE"]
  /\ dely = [d \in Dispatches |-> "NONE"]
  /\ truck = [v \in Vehicles |-> "AVAILABLE"]
  /\ slot = [s \in Slots |-> NoBooking]
  /\ req = [r \in Requests |-> Idle]
  /\ InventoryInit

TypeOK ==
  /\ po \in [status : OrderStatus, dispatched : Nat, delivered : Nat]
  /\ disp \in [Dispatches -> [status : DispatchStatus \cup {"NONE"},
                              qty : Quantities \cup {0}, v : Vehicles \cup {NoVehicle}]]
  /\ bill \in [Dispatches -> BillStatus]
  /\ ship \in [Dispatches -> ShipmentStatus \cup {"NONE"}]
  /\ dely \in [Dispatches -> DeliveryStatus \cup {"NONE"}]
  /\ truck \in [Vehicles -> VehicleStatus]
  /\ \A s \in Slots : slot[s].status \in ActiveSlot \cup {"NONE", "booking", "CANCELLED"}
  /\ \A r \in Requests : req[r].at \in {"idle", "held", "inside"} /\ req[r].kind \in AllKinds
  /\ InventoryTypeOK

\* What the instances keep to: quantities are numbers, the tables are finite,
\* and the null values are no rows.
LogisticsConstants ==
  /\ Ordered \in Nat
  /\ IsFiniteSet(Dispatches) /\ IsFiniteSet(Rows)
  /\ NoDispatch \notin Dispatches /\ NoVehicle \notin Vehicles /\ NoSlot \notin Slots

-----------------------------------------------------------------------------
(* Requests *)

Hold(r, kind, d, was, v, n) ==
  /\ kind \in Kinds
  /\ req[r].at = "idle"
  /\ req' = [req EXCEPT ![r] = Request("held", kind, d, NoSlot, was, v, n)]
  /\ UNCHANGED <<orderVars, truck, slot, stockVars>>

Held(r, kind) == req[r].at = "held" /\ req[r].kind = kind

\* The transaction went on to read the order, whose sum it keeps.
Enter(r, n) == req' = [req EXCEPT ![r] = Request("inside", @.kind, @.d, @.s, @.was, @.v, n)]
Inside(r, kind) == req[r].at = "inside" /\ req[r].kind = kind
Done(r) == req' = [req EXCEPT ![r] = Idle]

\* The transaction of a request on dispatch d has locked rows of it.
Locked(d) == \E r \in Requests : req[r].at = "inside" /\ req[r].d = d

\* The request ends with an error: its transaction finds what it refuses.
Fail(r) ==
  /\ Done(r)
  /\ UNCHANGED <<orderVars, truck, slot, stockVars>>

-----------------------------------------------------------------------------
(* Dispatches *)

\* create: the order is read, and the quantity compared with what is left of
\* it.  The payment gate is open (Payments), so the request may come any time.
\* Requests for the same d carry the same idempotency key.
CreateRead(r, d, n) ==
  /\ disp[d].status = "NONE"
  /\ po.status \in {"CONFIRMED", "READY_FOR_DISPATCH", "DISPATCHED"}
  /\ n <= Ordered - po.dispatched
  /\ InStock(n)
  /\ Hold(r, "CREATE", d, po.status, NoVehicle, n)

\* Mutant: the idempotency key is not unique.
CreateCommit_KeyReused(r) ==
  LET d == req[r].d
  IN  /\ Held(r, "CREATE")
      /\ disp' = [disp EXCEPT ![d] = Row("AWAITING_VEHICLE", req[r].n, NoVehicle)]
      /\ po' = IF req[r].was = "CONFIRMED"
               THEN Order("READY_FOR_DISPATCH", po.dispatched, po.delivered) ELSE po
      /\ Deduct(req[r].n)
      /\ Done(r)
      /\ UNCHANGED <<bill, ship, dely, truck, slot>>

\* Its transaction: the row, the order's status from what was read, the stock.
CreateCommit(r) ==
  LET d == req[r].d
  IN  /\ Held(r, "CREATE")
      /\ disp[d].status = "NONE"
      /\ disp' = [disp EXCEPT ![d] = Row("AWAITING_VEHICLE", req[r].n, NoVehicle)]
      /\ po' = IF req[r].was = "CONFIRMED"
               THEN Order("READY_FOR_DISPATCH", po.dispatched, po.delivered) ELSE po
      /\ Deduct(req[r].n)
      /\ Done(r)
      /\ UNCHANGED <<bill, ship, dely, truck, slot>>

\* The key was used since (the dispatch made with it is returned), or the
\* stock does not suffice any more.
CreateFail(r) ==
  /\ Held(r, "CREATE")
  /\ disp[req[r].d].status # "NONE" \/ ~InStock(req[r].n)
  /\ Fail(r)

\* assignVehicle: status, vehicle, and the other dispatches of the vehicle.
AssignRead(r, d, v) ==
  /\ disp[d].status \in {"AWAITING_VEHICLE", "VEHICLE_ASSIGNED", "AWAITING_EWAY_BILL"}
  /\ truck[v] \in {"AVAILABLE", "ASSIGNED"}
  /\ \A e \in Dispatches \ {d} : disp[e].v = v => disp[e].status \in Ended
  /\ Hold(r, "ASSIGN", d, disp[d].status, v, 0)

AssignCommit(r) ==
  LET d == req[r].d
  IN  /\ Held(r, "ASSIGN")
      /\ ~Locked(d)
      /\ truck' = [truck EXCEPT ![req[r].v] = "ASSIGNED"]
      /\ disp' = [disp EXCEPT ![d] = Row("AWAITING_EWAY_BILL", @.qty, req[r].v)]
      /\ Done(r)
      /\ UNCHANGED <<po, bill, ship, dely, slot, stockVars>>

\* Mutant: a dispatch that left may still be cancelled.
MayMove_LateCancel(from, to) ==
  \/ from = to
  \/ to = "LOADING" /\ from = "READY_FOR_DISPATCH"
  \/ to = "LOADED" /\ from \in {"READY_FOR_DISPATCH", "LOADING"}
  \/ to = "READY_FOR_DISPATCH" /\ from \in {"VEHICLE_ASSIGNED", "AWAITING_EWAY_BILL"}
  \/ to = "CANCELLED"

\* ALLOWED of DispatchStateService for the moves below; no status is refused
\* as its own successor.
MayMove(from, to) ==
  \/ from = to
  \/ to = "LOADING" /\ from = "READY_FOR_DISPATCH"
  \/ to = "LOADED" /\ from \in {"READY_FOR_DISPATCH", "LOADING"}
  \/ to = "READY_FOR_DISPATCH" /\ from \in {"VEHICLE_ASSIGNED", "AWAITING_EWAY_BILL"}
  \/ to = "CANCELLED" /\ from \in DispatchStatus \ {"DISPATCHED", "CANCELLED"}

\* The moves that a state check alone guards, and markReady.
MoveRead(r, d, to) ==
  /\ disp[d].status # "NONE"
  /\ MayMove(disp[d].status, to)
  /\ Hold(r, to, d, disp[d].status, NoVehicle, 0)

StartLoading(r, d) == MoveRead(r, d, "LOADING")
CompleteLoading(r, d) == MoveRead(r, d, "LOADED")
MarkReady(r, d) == bill[d] = "VALID" /\ MoveRead(r, d, "READY_FOR_DISPATCH")
Cancel(r, d) == MoveRead(r, d, "CANCELLED")

MoveCommit(r) ==
  LET d == req[r].d
  IN  /\ req[r].at = "held" /\ req[r].kind \in Moves
      /\ ~Locked(d)
      /\ disp' = [disp EXCEPT ![d] = Row(req[r].kind, @.qty, @.v)]
      /\ Done(r)
      /\ UNCHANGED <<po, bill, ship, dely, truck, slot, stockVars>>

-----------------------------------------------------------------------------
(* E-way bills: the latest of each dispatch *)

\* upsert reads the dispatch, stores the bill, and then, in an update of its
\* own, the status of the dispatch from what it read.
BillRead(r, d) ==
  /\ disp[d].status # "NONE"
  /\ Hold(r, "BILL", d, disp[d].status, disp[d].v, 0)

BillWrite(r, status) ==
  LET d == req[r].d
      ready == /\ status = "VALID"
               /\ req[r].v # NoVehicle
               /\ req[r].was \in {"AWAITING_EWAY_BILL", "VEHICLE_ASSIGNED"}
  IN  /\ Held(r, "BILL")
      /\ bill' = [bill EXCEPT ![d] = status]
      /\ req' = [req EXCEPT ![r] =
           IF ready THEN Request("held", "READY_FOR_DISPATCH", d, NoSlot, @.was, @.v, 0)
           ELSE Idle]
      /\ UNCHANGED <<po, disp, ship, dely, truck, slot, stockVars>>

BillSet(d, status) ==
  /\ "BILL" \in Kinds
  /\ bill[d] # "NONE"
  /\ bill' = [bill EXCEPT ![d] = status]
  /\ UNCHANGED <<po, disp, ship, dely, truck, slot, req, stockVars>>

\* validate and cancel of the administrator; and validUntil passes.
Validate(d) == bill[d] # "EXPIRED" /\ BillSet(d, "VALID")
CancelBill(d) == BillSet(d, "CANCELLED")
BillLapses(d) == bill[d] = "VALID" /\ BillSet(d, "EXPIRED")

-----------------------------------------------------------------------------
(* Shipments *)

\* executeDispatch: the checks before its transaction.
ExecuteRead(r, d) ==
  /\ disp[d].status \in {"READY_FOR_DISPATCH", "LOADED"}
  /\ disp[d].v # NoVehicle
  /\ bill[d] = "VALID"
  /\ ship[d] = "NONE"
  /\ Hold(r, "EXECUTE", d, disp[d].status, disp[d].v, 0)

\* Mutant: shipments.dispatch_id is not unique.
ExecuteBegin_NotUnique(r) ==
  /\ Held(r, "EXECUTE")
  /\ Enter(r, po.dispatched)
  /\ UNCHANGED <<orderVars, truck, slot, stockVars>>

\* The shipment is inserted, one for each dispatch, and the order read.
ExecuteBegin(r) ==
  /\ Held(r, "EXECUTE")
  /\ ~Locked(req[r].d)
  /\ ship[req[r].d] = "NONE"
  /\ Enter(r, po.dispatched)
  /\ UNCHANGED <<orderVars, truck, slot, stockVars>>

ExecuteFail(r) ==
  /\ Held(r, "EXECUTE")
  /\ ship[req[r].d] # "NONE"
  /\ Fail(r)

ExecuteCommit(r) ==
  LET d == req[r].d
  IN  /\ Inside(r, "EXECUTE")
      /\ ship' = [ship EXCEPT ![d] = "DISPATCHED"]
      /\ dely' = [dely EXCEPT ![d] = "SCHEDULED"]
      /\ disp' = [disp EXCEPT ![d] = Row("DISPATCHED", @.qty, @.v)]
      /\ po' = Order("DISPATCHED", req[r].n + disp[d].qty, po.delivered)
      /\ truck' = [truck EXCEPT ![req[r].v] = "IN_TRANSIT"]
      /\ Done(r)
      /\ UNCHANGED <<bill, slot, stockVars>>

\* addTrackingEvent: one step along TRACKING_CHAIN, or the same status again.
TrackRead(r, d, to) ==
  /\ \/ ship[d] = "DISPATCHED" /\ to = "IN_TRANSIT"
     \/ ship[d] = "IN_TRANSIT" /\ to = "OUT_FOR_DELIVERY"
     \/ ship[d] = "OUT_FOR_DELIVERY" /\ to \in {"OUT_FOR_DELIVERY", "DELIVERED"}
  /\ Hold(r, "TRACK", d, to, NoVehicle, 0)

TrackCommit(r) ==
  LET d == req[r].d
  IN  /\ Held(r, "TRACK")
      /\ ~Locked(d)
      /\ ship' = [ship EXCEPT ![d] = req[r].was]
      /\ dely' = IF req[r].was = "OUT_FOR_DELIVERY"
                 THEN [dely EXCEPT ![d] = "OUT_FOR_DELIVERY"] ELSE dely
      /\ Done(r)
      /\ UNCHANGED <<po, disp, bill, truck, slot, stockVars>>

-----------------------------------------------------------------------------
(* Deliveries *)

\* ALLOWED of DeliveryStateService for the statuses that are written.
MayDeliver(from, to) ==
  \/ from = to
  \/ to = "PARTIAL" /\ from \in {"SCHEDULED", "OUT_FOR_DELIVERY"}
  \/ to = "DELIVERED" /\ from \in {"SCHEDULED", "OUT_FOR_DELIVERY", "PARTIAL", "EXCEPTION"}
  \/ to = "EXCEPTION" /\ from \in {"SCHEDULED", "OUT_FOR_DELIVERY", "PARTIAL", "DELIVERED"}

\* markDelivered of a quantity; every status a shipment has may be followed
\* by DELIVERED.
DeliverRead(r, d, n) ==
  /\ ship[d] # "NONE"
  /\ n <= disp[d].qty
  /\ MayDeliver(dely[d], IF n < disp[d].qty THEN "PARTIAL" ELSE "DELIVERED")
  /\ Hold(r, "DELIVER", d, IF n < disp[d].qty THEN "PARTIAL" ELSE "DELIVERED", NoVehicle, n)

\* Its transaction updates the delivery and the shipment, reads the order ...
DeliverBegin(r) ==
  /\ Held(r, "DELIVER")
  /\ ~Locked(req[r].d)
  /\ po.delivered + req[r].n <= MaxDelivered
  /\ Enter(r, po.delivered + req[r].n)
  /\ UNCHANGED <<orderVars, truck, slot, stockVars>>

\* ... and stores the sum.
DeliverCommit(r) ==
  LET d == req[r].d
  IN  /\ Inside(r, "DELIVER")
      /\ dely' = [dely EXCEPT ![d] = req[r].was]
      /\ ship' = [ship EXCEPT ![d] = "DELIVERED"]
      /\ po' = Order("DELIVERED", po.dispatched, req[r].n)
      /\ Done(r)
      /\ UNCHANGED <<disp, bill, truck, slot, stockVars>>

\* confirm: the delivery is checked before, the shipment in the transaction.
ConfirmRead(r, d) ==
  /\ dely[d] \in {"DELIVERED", "PARTIAL"}
  /\ Hold(r, "CONFIRM", d, dely[d], NoVehicle, 0)

ConfirmCommit(r) ==
  LET d == req[r].d
  IN  /\ Held(r, "CONFIRM")
      /\ ~Locked(d)
      /\ ship[d] \in {"DELIVERED", "DELIVERY_CONFIRMED"}
      /\ dely' = [dely EXCEPT ![d] = "CONFIRMED"]
      /\ ship' = [ship EXCEPT ![d] = "DELIVERY_CONFIRMED"]
      /\ Done(r)
      /\ UNCHANGED <<po, disp, bill, truck, slot, stockVars>>

ConfirmFail(r) ==
  /\ Held(r, "CONFIRM")
  /\ ship[req[r].d] \notin {"DELIVERED", "DELIVERY_CONFIRMED"}
  /\ Fail(r)

\* markException and resolveException.
ExceptionRead(r, d) ==
  /\ MayDeliver(dely[d], "EXCEPTION")
  /\ Hold(r, "EXCEPTION", d, dely[d], NoVehicle, 0)

ExceptionCommit(r) ==
  LET d == req[r].d
  IN  /\ Held(r, "EXCEPTION")
      /\ ~Locked(d)
      /\ dely' = [dely EXCEPT ![d] = "EXCEPTION"]
      /\ ship' = [ship EXCEPT ![d] = "EXCEPTION"]
      /\ Done(r)
      /\ UNCHANGED <<po, disp, bill, truck, slot, stockVars>>

ResolveRead(r, d) ==
  /\ dely[d] = "EXCEPTION"
  /\ Hold(r, "RESOLVE", d, dely[d], NoVehicle, 0)

ResolveCommit(r) ==
  LET d == req[r].d
  IN  /\ Held(r, "RESOLVE")
      /\ ~Locked(d)
      /\ dely' = [dely EXCEPT ![d] = "SCHEDULED"]
      /\ Done(r)
      /\ UNCHANGED <<po, disp, bill, ship, truck, slot, stockVars>>

-----------------------------------------------------------------------------
(* Vehicles and their slots *)

\* The seller's form sets any status.
SetVehicle(v, status) ==
  /\ "VEHICLE" \in Kinds
  /\ truck' = [truck EXCEPT ![v] = status]
  /\ UNCHANGED <<orderVars, slot, req, stockVars>>

Active(s) == slot[s].status \in ActiveSlot

\* The update of the status of slot s.
Turn(s, status) ==
  slot' = [slot EXCEPT ![s] = Booking(status, @.d, @.v, @.driver, @.bay, @.window, @.was)]

\* Mutant: only slots that are still waiting for confirmation keep their place.
Fits_Requested(s, booking) ==
  \A o \in Slots \ {s} : slot[o].status = "REQUESTED" /\ slot[o].window = booking.window =>
    /\ slot[o].bay # booking.bay
    /\ slot[o].v = booking.v => booking.v = NoVehicle

\* The unique indexes over active slots: one for the bay and the window, one
\* for the vehicle and the window.
Fits(s, booking) ==
  \A o \in Slots \ {s} : Active(o) /\ slot[o].window = booking.window =>
    /\ slot[o].bay # booking.bay
    /\ slot[o].v = booking.v => booking.v = NoVehicle

\* create of a slot: its transaction reads and checks, without locks ...
SlotRead(s, d, v, driver, bay, window) ==
  LET booking == Booking("booking", d, v, driver, bay, window, disp[d].status)
  IN  /\ "SLOT" \in Kinds
      /\ slot[s].status = "NONE"
      /\ disp[d].status \notin Ended \cup {"LOADING", "LOADED"}
      /\ \A o \in Slots : Active(o) => slot[o].d # d
      /\ v # NoVehicle => truck[v] \in {"AVAILABLE", "ASSIGNED"}
      /\ Fits(s, booking)
      /\ slot' = [slot EXCEPT ![s] = booking]
      /\ UNCHANGED <<orderVars, truck, req, stockVars>>

\* ... and inserts the slot and updates the dispatch.
SlotCommit(s) ==
  LET d == slot[s].d
  IN  /\ slot[s].status = "booking"
      /\ Fits(s, slot[s])
      /\ ~Locked(d)
      /\ Turn(s, "REQUESTED")
      /\ disp' = IF slot[s].v = NoVehicle /\ ~slot[s].driver THEN disp
                 ELSE [disp EXCEPT ![d] =
                   Row(IF slot[s].was = "AWAITING_VEHICLE" THEN "VEHICLE_ASSIGNED" ELSE @.status,
                       @.qty,
                       IF slot[s].v = NoVehicle THEN @.v ELSE slot[s].v)]
      /\ UNCHANGED <<po, bill, ship, dely, truck, req, stockVars>>

\* A unique index refuses the slot; the repeated transaction finds the other.
SlotFail(s) ==
  /\ slot[s].status = "booking"
  /\ ~Fits(s, slot[s])
  /\ slot' = [slot EXCEPT ![s] = NoBooking]
  /\ UNCHANGED <<orderVars, truck, req, stockVars>>

\* confirm and cancel of a slot.
SlotAnswerRead(r, s, kind) ==
  /\ kind \in Kinds
  /\ req[r].at = "idle"
  /\ slot[s].status \in ActiveSlot
  /\ req' = [req EXCEPT ![r] = Request("held", kind, NoDispatch, s, "NONE", NoVehicle, 0)]
  /\ UNCHANGED <<orderVars, truck, slot, stockVars>>

\* The update by id may bring a slot back that was cancelled since; the
\* indexes hold for it, too.
SlotConfirm(r) ==
  LET s == req[r].s
  IN  /\ Held(r, "SLOT_CONFIRM")
      /\ Fits(s, slot[s])
      /\ Turn(s, "CONFIRMED")
      /\ Done(r)
      /\ UNCHANGED <<orderVars, truck, stockVars>>

SlotConfirmFail(r) ==
  /\ Held(r, "SLOT_CONFIRM")
  /\ ~Fits(req[r].s, slot[req[r].s])
  /\ Fail(r)

SlotCancel(r) ==
  /\ Held(r, "SLOT_CANCEL")
  /\ Turn(req[r].s, "CANCELLED")
  /\ Done(r)
  /\ UNCHANGED <<orderVars, truck, stockVars>>

-----------------------------------------------------------------------------
Read(r) ==
  \/ \E d \in Dispatches :
       \/ \E n \in Quantities : CreateRead(r, d, n) \/ DeliverRead(r, d, n)
       \/ \E v \in Vehicles : AssignRead(r, d, v)
       \/ StartLoading(r, d) \/ CompleteLoading(r, d) \/ MarkReady(r, d) \/ Cancel(r, d)
       \/ \E to \in Tracking : TrackRead(r, d, to)
       \/ BillRead(r, d)
       \/ ExecuteRead(r, d)
       \/ ConfirmRead(r, d)
       \/ ExceptionRead(r, d)
       \/ ResolveRead(r, d)
  \/ \E s \in Slots, kind \in {"SLOT_CONFIRM", "SLOT_CANCEL"} : SlotAnswerRead(r, s, kind)

Commit(r) ==
  \/ CreateCommit(r) \/ CreateFail(r)
  \/ AssignCommit(r)
  \/ MoveCommit(r)
  \/ \E status \in {"VALID", "EXPIRED"} : BillWrite(r, status)
  \/ ExecuteBegin(r) \/ ExecuteFail(r) \/ ExecuteCommit(r)
  \/ TrackCommit(r)
  \/ DeliverBegin(r) \/ DeliverCommit(r)
  \/ ConfirmCommit(r) \/ ConfirmFail(r)
  \/ ExceptionCommit(r)
  \/ ResolveCommit(r)
  \/ SlotConfirm(r) \/ SlotConfirmFail(r) \/ SlotCancel(r)

BookSlot(s) ==
  \/ \E d \in Dispatches, v \in Vehicles \cup {NoVehicle}, driver \in BOOLEAN,
        bay \in Bays, window \in Windows : SlotRead(s, d, v, driver, bay, window)
  \/ SlotCommit(s)
  \/ SlotFail(s)

Next ==
  \/ \E r \in Requests : Read(r) \/ Commit(r)
  \/ \E d \in Dispatches : Validate(d) \/ CancelBill(d) \/ BillLapses(d)
  \/ \E v \in Vehicles, status \in VehicleStatus : SetVehicle(v, status)
  \/ \E s \in Slots : BookSlot(s)
  \/ InventoryNext /\ UNCHANGED <<orderVars, truck, slot, req>>

Spec == Init /\ [][Next]_vars

-----------------------------------------------------------------------------
(* Properties *)

Shipped == {d \in Dispatches : ship[d] # "NONE"}
Carried(dispatches) == SumFunctionOnSet([d \in Dispatches |-> disp[d].qty], dispatches)

\* The quantity the order reports as dispatched never exceeds that of its
\* shipments: racing executions may lose one of two sums, but the unique
\* shipment keeps a dispatch from being counted twice.
DispatchedIsShipped == po.dispatched <= Carried(Shipped)

\* The stock that left the seller's rows is that of the order's dispatches
\* (cancelled ones included: cancel gives nothing back), also when a creation
\* is repeated with its key or two of them race for the last of the stock.
StockFollowsDispatches ==
  Rows # {} =>
    SumFunctionOnSet([i \in Rows |-> moved[i].sold], Rows)
      = Carried({d \in Dispatches : disp[d].status # "NONE"})

\* No loading bay, and no vehicle, has two active slots in one time window,
\* whatever bookings race and although a confirmation may bring back a slot
\* that was cancelled meanwhile.
SlotsAreDisjoint == \A s \in Slots : Active(s) => Fits(s, slot[s])

\* One request at a time (Requests has one member): dispatch, shipment,
\* delivery and order, which different services write, tell the same story.
OneStory ==
  /\ \A r \in Requests : req[r].at # "inside" => po.dispatched = Carried(Shipped)
  /\ \A d \in Dispatches :
       /\ ship[d] # "NONE" <=> disp[d].status = "DISPATCHED"
       /\ ship[d] # "NONE" <=> dely[d] # "NONE"
       /\ dely[d] = "CONFIRMED" <=> ship[d] = "DELIVERY_CONFIRMED"
       /\ dely[d] \in {"PARTIAL", "DELIVERED"} => ship[d] = "DELIVERED"
       /\ dely[d] = "EXCEPTION" => ship[d] = "EXCEPTION"
       /\ dely[d] = "OUT_FOR_DELIVERY" => ship[d] \in {"OUT_FOR_DELIVERY", "DELIVERED"}
=============================================================================
