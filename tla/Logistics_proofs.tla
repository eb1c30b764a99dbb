--------------------------- MODULE Logistics_proofs ---------------------------
(***************************************************************************)
(* The stock of a seller and the dispatches of an order, for any number of *)
(* rows, dispatches, vehicles, slots and concurrent requests.              *)
(***************************************************************************)
EXTENDS Logistics, SumLemmas

-----------------------------------------------------------------------------
(* The stock: a request that holds the lock of a row has read what the row  *)
(* still says, because nobody writes a row that is locked.                  *)

StockTyped ==
  /\ stock \in [Rows -> [available : Nat, reserved : Nat, sold : Nat]]
  /\ moved \in [Rows -> [reserved : Int, sold : Nat, adjusted : Int]]
  /\ overwritten \in [Rows -> SUBSET Columns]
  /\ locked \in [Rows -> Keepers \cup {NoKeeper}]
  /\ keep \in [Keepers -> [at : {"idle", "book", "adjust"}, row : Rows \cup {NoStockRow},
                           by : Int, read : Nat, held : Nat]]

LockedReads ==
  \A k \in Keepers :
    /\ keep[k].at = "book" =>
         /\ keep[k].row \in Rows
         /\ locked[keep[k].row] = k
         /\ keep[k].read = stock[keep[k].row].available
         /\ keep[k].held = stock[keep[k].row].reserved
         /\ keep[k].by <= keep[k].read /\ - keep[k].by <= keep[k].held
    /\ keep[k].at = "adjust" => keep[k].row \in Rows /\ keep[k].read + keep[k].by >= 0

StockInv == StockTyped /\ LockedReads /\ StockLedgered

\* One row of StockLedgered.
RowLedgered(i) ==
  /\ stock[i].sold = moved[i].sold
  /\ "reserved" \notin overwritten[i] => stock[i].reserved = moved[i].reserved
  /\ overwritten[i] = {} =>
       stock[i].available + stock[i].reserved + stock[i].sold = Stock + moved[i].adjusted

LEMMA RowsLedgered ==
  ASSUME StockTyped
  PROVE  StockLedgered <=> \A i \in Rows : RowLedgered(i)
  BY DEF StockTyped, StockLedgered, RowLedgered

LEMMA RowsLedgeredNext ==
  ASSUME StockTyped'
  PROVE  StockLedgered' <=> \A i \in Rows : RowLedgered(i)'
  BY DEF StockTyped, StockLedgered, RowLedgered

LEMMA StockStarts ==
  ASSUME InventoryInit
  PROVE  StockInv
  BY StockAssumption DEF InventoryInit, Entry, Movement, StockInv, StockTyped, LockedReads, StockLedgered, AtRest

LEMMA BookReadKeeps ==
  ASSUME StockInv, NEW k \in Keepers, NEW i \in Rows, NEW by \in Int, BookRead(k, i, by)
  PROVE  StockInv'
<1>1. StockTyped'
  BY DEF StockInv, StockTyped, BookRead
<1>2. LockedReads'
  BY NoneAssumption DEF StockInv, StockTyped, LockedReads, BookRead
<1>3. StockLedgered'
  BY DEF StockInv, StockTyped, StockLedgered, BookRead
<1>. QED  BY <1>1, <1>2, <1>3 DEF StockInv

LEMMA BookWriteKeeps ==
  ASSUME StockInv, NEW k \in Keepers, BookWrite(k)
  PROVE  StockInv'
<1>1. StockTyped'
  BY DEF StockInv, StockTyped, LockedReads, BookWrite, Entry, Movement, Rest, AtRest
<1>2. LockedReads'
  BY NoneAssumption DEF StockInv, StockTyped, LockedReads, BookWrite, Entry, Movement, Rest, AtRest
<1>3. StockLedgered'
  BY DEF StockInv, StockTyped, LockedReads, StockLedgered, BookWrite, Entry, Movement
<1>. QED  BY <1>1, <1>2, <1>3 DEF StockInv

LEMMA AdjustReadKeeps ==
  ASSUME StockInv, NEW k \in Keepers, NEW i \in Rows, NEW by \in Int, AdjustRead(k, i, by)
  PROVE  StockInv'
<1>1. StockTyped'
  BY DEF StockInv, StockTyped, AdjustRead
<1>2. LockedReads'
  BY NoneAssumption DEF StockInv, StockTyped, LockedReads, AdjustRead
<1>3. StockLedgered'
  BY DEF StockInv, StockTyped, StockLedgered, AdjustRead
<1>. QED  BY <1>1, <1>2, <1>3 DEF StockInv

LEMMA AdjustWriteKeeps ==
  ASSUME StockInv, NEW k \in Keepers, AdjustWrite(k)
  PROVE  StockInv'
<1>1. StockTyped'
  <2>1. overwritten' \in [Rows -> SUBSET Columns]
    BY DEF StockInv, StockTyped, AdjustWrite, Columns
  <2>. QED  BY <2>1 DEF StockInv, StockTyped, LockedReads, AdjustWrite, Entry, Movement, Rest, AtRest, Columns
<1>2. LockedReads'
  BY NoneAssumption DEF StockInv, StockTyped, LockedReads, AdjustWrite, Entry, Movement, Rest, AtRest
<1>3. StockLedgered'
  <2>1. ASSUME NEW j \in Rows PROVE RowLedgered(j)'
    <3>1. RowLedgered(j)
      BY RowsLedgered DEF StockInv
    <3>2. CASE j = keep[k].row
      <4>1. overwritten'[j] = overwritten[j] \cup IF keep[k].read = stock[j].available
                                                THEN {} ELSE {"available"}
        BY <3>2 DEF StockInv, StockTyped, AdjustWrite
      <4>2. /\ stock'[j] = Entry(keep[k].read + keep[k].by, stock[j].reserved, stock[j].sold)
            /\ moved'[j] = Movement(moved[j].reserved, moved[j].sold, moved[j].adjusted + keep[k].by)
        BY <3>2 DEF StockInv, StockTyped, AdjustWrite
      <4>3. overwritten[j] \subseteq overwritten'[j]
        BY <4>1
      <4>4. overwritten'[j] = {} => overwritten[j] = {} /\ keep[k].read = stock[j].available
        BY <4>1
      <4>5. /\ stock[j].available \in Int /\ stock[j].reserved \in Int /\ stock[j].sold \in Int
            /\ moved[j].adjusted \in Int /\ keep[k].by \in Int
        BY DEF StockInv, StockTyped
      <4>. QED  BY <3>1, <4>2, <4>3, <4>4, <4>5, StockAssumption DEF RowLedgered, Entry, Movement
    <3>3. CASE j # keep[k].row
      BY <3>1, <3>3 DEF StockInv, StockTyped, AdjustWrite, RowLedgered
    <3>. QED  BY <3>2, <3>3
  <2>. QED  BY <1>1, <2>1, RowsLedgeredNext
<1>. QED  BY <1>1, <1>2, <1>3 DEF StockInv

LEMMA SetQuantityKeeps ==
  ASSUME StockInv, NEW i \in Rows, NEW n \in Nat, SetQuantity(i, n)
  PROVE  StockInv'
<1>1. StockTyped'
  <2>1. overwritten' \in [Rows -> SUBSET Columns]
    BY DEF StockInv, StockTyped, SetQuantity, Columns
  <2>. QED  BY <2>1 DEF StockInv, StockTyped, SetQuantity, Entry, Movement, Columns
<1>2. LockedReads'
  BY NoneAssumption DEF StockInv, StockTyped, LockedReads, SetQuantity, Entry, Movement
<1>3. StockLedgered'
  <2>1. ASSUME NEW j \in Rows PROVE RowLedgered(j)'
    <3>1. RowLedgered(j)
      BY RowsLedgered DEF StockInv
    <3>2. /\ overwritten'[j] = IF j = i THEN overwritten[j] \cup {"available"} ELSE overwritten[j]
          /\ stock'[j] = IF j = i THEN Entry(n, stock[j].reserved, stock[j].sold) ELSE stock[j]
          /\ moved'[j] = moved[j]
      BY DEF StockInv, StockTyped, SetQuantity
    <3>. QED  BY <3>1, <3>2 DEF RowLedgered, Entry
  <2>. QED  BY <1>1, <2>1, RowsLedgeredNext
<1>. QED  BY <1>1, <1>2, <1>3 DEF StockInv

LEMMA SetListingKeeps ==
  ASSUME StockInv, NEW i \in Rows, NEW n \in Nat, NEW m \in Nat, SetListing(i, n, m)
  PROVE  StockInv'
<1>1. StockTyped'
  BY DEF StockInv, StockTyped, SetListing, Entry, Movement, Columns
<1>2. LockedReads'
  BY NoneAssumption DEF StockInv, StockTyped, LockedReads, SetListing, Entry, Movement
<1>3. StockLedgered'
  BY DEF StockInv, StockTyped, LockedReads, StockLedgered, SetListing, Entry, Movement, Columns
<1>. QED  BY <1>1, <1>2, <1>3 DEF StockInv

LEMMA DeductKeeps ==
  ASSUME StockInv, NEW n \in Nat, Deduct(n)
  PROVE  StockInv'
<1>1. CASE Rows = {} /\ UNCHANGED stockVars
  BY <1>1 DEF StockInv, StockTyped, LockedReads, StockLedgered, stockVars
<1>2. CASE Rows # {}
  <2>1. PICK take \in [Rows -> 0 .. n] :
          /\ \A i \in Rows : take[i] <= stock[i].available
          /\ stock' = [i \in Rows |-> Entry(stock[i].available - take[i], stock[i].reserved,
                                            stock[i].sold + take[i])]
          /\ moved' = [i \in Rows |-> Movement(moved[i].reserved, moved[i].sold + take[i],
                                               moved[i].adjusted)]
          /\ UNCHANGED <<overwritten, locked, keep>>
    BY <1>2 DEF Deduct
  <2>2. \A i \in Rows : locked[i] = NoKeeper
    BY <1>2 DEF Deduct
  <2>3. \A i \in Rows : take[i] \in Nat
    OBVIOUS
  <2>4. StockTyped'
    BY <2>1, <2>3 DEF StockInv, StockTyped, Entry, Movement
  <2>5. LockedReads'
    BY <2>1, <2>2, NoneAssumption DEF StockInv, StockTyped, LockedReads
  <2>6. StockLedgered'
    <3>1. ASSUME NEW j \in Rows PROVE RowLedgered(j)'
      <4>1. RowLedgered(j)
        BY RowsLedgered DEF StockInv
      <4>2. /\ stock'[j] = Entry(stock[j].available - take[j], stock[j].reserved,
                               stock[j].sold + take[j])
            /\ moved'[j] = Movement(moved[j].reserved, moved[j].sold + take[j], moved[j].adjusted)
            /\ overwritten'[j] = overwritten[j]
        BY <2>1
      <4>3. /\ stock[j].available \in Nat /\ stock[j].reserved \in Nat /\ stock[j].sold \in Nat
            /\ moved[j].adjusted \in Int /\ take[j] \in Nat /\ Stock \in Nat
        BY <2>3, StockAssumption DEF StockInv, StockTyped
      <4>. QED  BY <4>1, <4>2, <4>3 DEF RowLedgered, Entry, Movement
    <3>. QED  BY <2>4, <3>1, RowsLedgeredNext
  <2>. QED  BY <2>4, <2>5, <2>6 DEF StockInv
<1>. QED  BY <1>1, <1>2 DEF Deduct

LEMMA StockStepKeeps ==
  ASSUME StockInv, InventoryNext
  PROVE  StockInv'
<1>1. Amounts \subseteq Nat
  BY StockAssumption
<1>2. ASSUME NEW k \in Keepers, NEW i \in Rows, NEW n \in Amounts,
             Reserve(k, i, n) \/ Release(k, i, n) \/ AdjustRead(k, i, n) \/ AdjustRead(k, i, -n)
      PROVE  StockInv'
  <2>1. n \in Int /\ -n \in Int
    BY <1>1
  <2>. QED  BY <1>2, <2>1, BookReadKeeps, AdjustReadKeeps DEF Reserve, Release
<1>3. ASSUME NEW i \in Rows, NEW n \in Amounts \cup {0},
             SetQuantity(i, n) \/ \E m \in Amounts \cup {0} : SetListing(i, n, m)
      PROVE  StockInv'
  BY <1>1, <1>3, SetQuantityKeeps, SetListingKeeps
<1>. QED  BY <1>2, <1>3, BookWriteKeeps, AdjustWriteKeeps DEF InventoryNext

-----------------------------------------------------------------------------
(* The types of the tables and of the requests, and what a request in       *)
(* progress knows of its rows.                                              *)

Statuses == OrderStatus \cup DispatchStatus \cup ShipmentStatus \cup DeliveryStatus \cup {"NONE"}
SlotKinds == {"SLOT_CONFIRM", "SLOT_CANCEL"}

Typed ==
  /\ po \in [status : OrderStatus, dispatched : Nat, delivered : Nat]
  /\ disp \in [Dispatches -> [status : DispatchStatus \cup {"NONE"},
                              qty : Quantities \cup {0}, v : Vehicles \cup {NoVehicle}]]
  /\ bill \in [Dispatches -> BillStatus]
  /\ ship \in [Dispatches -> ShipmentStatus \cup {"NONE"}]
  /\ dely \in [Dispatches -> DeliveryStatus \cup {"NONE"}]
  /\ truck \in [Vehicles -> VehicleStatus]
  /\ slot \in [Slots -> [status : ActiveSlot \cup {"NONE", "booking", "CANCELLED"},
                         d : Dispatches \cup {NoDispatch}, v : Vehicles \cup {NoVehicle},
                         driver : BOOLEAN, bay : Bays \cup {"none"},
                         window : Windows \cup {"none"}, was : DispatchStatus \cup {"NONE"}]]
  /\ req \in [Requests -> [at : {"idle", "held", "inside"}, kind : AllKinds,
                           d : Dispatches \cup {NoDispatch}, s : Slots \cup {NoSlot},
                           was : Statuses, v : Vehicles \cup {NoVehicle}, n : Nat]]

\* The kinds of what a request may hold of its reads.
Knows(q) ==
  /\ q.kind \notin SlotKinds => q.d \in Dispatches
  /\ q.kind \in SlotKinds => q.s \in Slots
  /\ q.kind = "CREATE" => q.was \in OrderStatus /\ q.n \in Quantities
  /\ q.kind \in {"ASSIGN", "EXECUTE"} => q.v \in Vehicles
  /\ q.kind = "TRACK" => q.was \in Tracking
  /\ q.kind = "DELIVER" => q.was \in {"PARTIAL", "DELIVERED"}

\* A request that is not about a slot, or a slot that is being booked, or a
\* shipment, is of a dispatch that was created.
Works ==
  /\ \A r \in Requests : req[r].at # "idle" =>
       /\ Knows(req[r])
       /\ req[r].kind \notin SlotKinds \cup {"CREATE"} => disp[req[r].d].status # "NONE"
  /\ \A s \in Slots : slot[s].status = "booking" =>
       slot[s].d \in Dispatches /\ disp[slot[s].d].status # "NONE"
  /\ \A d \in Dispatches : ship[d] # "NONE" \/ dely[d] # "NONE" => disp[d].status # "NONE"

\* Two transactions never are inside with the rows of one dispatch, and the
\* one that executes it has found no shipment of it.
Locks ==
  /\ \A r \in Requests : req[r].at = "inside" =>
       /\ req[r].kind \in {"EXECUTE", "DELIVER"}
       /\ req[r].kind = "EXECUTE" => ship[req[r].d] = "NONE"
  /\ \A r, q \in Requests :
       req[r].at = "inside" /\ req[q].at = "inside" /\ req[r].d = req[q].d => r = q

Orderly == Typed /\ Works /\ Locks

LEMMA Starts ==
  ASSUME LogisticsConstants, Init
  PROVE  Orderly
<1>1. Typed
  BY DEF LogisticsConstants, Init, Typed, Order, Row, Request, Idle, Booking, NoBooking, AllKinds,
         OrderStatus, DispatchStatus, BillStatus, ShipmentStatus, DeliveryStatus, VehicleStatus,
         ActiveSlot, Statuses
<1>2. Works
  BY DEF Init, Works, Row, Request, Idle, Booking, NoBooking
<1>3. Locks
  BY DEF Init, Locks, Request, Idle
<1>. QED  BY <1>1, <1>2, <1>3 DEF Orderly

\* A request that reads knows of its dispatch what the row says.
LEMMA HoldKeeps ==
  ASSUME Orderly, NEW r \in Requests, NEW kind \in AllKinds \ (SlotKinds \cup {"SLOT", "VEHICLE"}),
         NEW d \in Dispatches, NEW was \in Statuses, NEW v \in Vehicles \cup {NoVehicle},
         NEW n \in Nat, Hold(r, kind, d, was, v, n),
         kind # "CREATE" => disp[d].status # "NONE",
         Knows(Request("held", kind, d, NoSlot, was, v, n))
  PROVE  Orderly'
<1>1. Typed'
  BY DEF Orderly, Typed, Hold, orderVars, Request
<1>2. Works'
  BY DEF Orderly, Typed, Works, Hold, orderVars, Request, Knows
<1>3. Locks'
  BY DEF Orderly, Typed, Locks, Hold, orderVars, Request
<1>. QED  BY <1>1, <1>2, <1>3 DEF Orderly

LEMMA FailKeeps ==
  ASSUME Orderly, NEW r \in Requests, Fail(r)
  PROVE  Orderly'
<1>1. Typed'
  BY DEF Orderly, Typed, Fail, Done, Idle, Request, orderVars, AllKinds, Statuses
<1>2. Works'
  BY DEF Orderly, Typed, Works, Fail, Done, Idle, Request, orderVars
<1>3. Locks'
  BY DEF Orderly, Typed, Locks, Fail, Done, Idle, Request, orderVars
<1>. QED  BY <1>1, <1>2, <1>3 DEF Orderly

\* Every read of a dispatch is one of a row that exists.
LEMMA DispatchReadKeeps ==
  ASSUME LogisticsConstants, Orderly, NEW r \in Requests, NEW d \in Dispatches,
         \/ \E n \in Quantities : CreateRead(r, d, n) \/ DeliverRead(r, d, n)
         \/ \E v \in Vehicles : AssignRead(r, d, v)
         \/ StartLoading(r, d) \/ CompleteLoading(r, d) \/ MarkReady(r, d) \/ Cancel(r, d)
         \/ \E to \in Tracking : TrackRead(r, d, to)
         \/ BillRead(r, d)
         \/ ExecuteRead(r, d)
         \/ ConfirmRead(r, d)
         \/ ExceptionRead(r, d)
         \/ ResolveRead(r, d)
  PROVE  Orderly'
<1>1. /\ disp[d].status \in Statuses /\ dely[d] \in Statuses /\ po.status \in OrderStatus
      /\ disp[d].v \in Vehicles \cup {NoVehicle} /\ NoVehicle \in Vehicles \cup {NoVehicle}
      /\ Quantities \subseteq Nat /\ OrderStatus \subseteq Statuses /\ 0 \in Nat
      /\ ship[d] # "NONE" \/ dely[d] # "NONE" => disp[d].status # "NONE"
  BY DEF LogisticsConstants, Orderly, Typed, Works, Statuses, Quantities
<1>2. ASSUME NEW n \in Quantities, CreateRead(r, d, n) PROVE Orderly'
  <2>1. Knows(Request("held", "CREATE", d, NoSlot, po.status, NoVehicle, n))
    BY <1>1 DEF Knows, Request, SlotKinds
  <2>2. "CREATE" \in AllKinds \ (SlotKinds \cup {"SLOT", "VEHICLE"})
    BY DEF AllKinds, SlotKinds
  <2>. QED  BY <1>1, <1>2, <2>1, <2>2, HoldKeeps DEF CreateRead
<1>3. ASSUME NEW n \in Quantities, DeliverRead(r, d, n) PROVE Orderly'
  <2> DEFINE was == IF n < disp[d].qty THEN "PARTIAL" ELSE "DELIVERED"
  <2>1. was \in {"PARTIAL", "DELIVERED"} /\ was \in Statuses
    BY DEF Statuses, DeliveryStatus
  <2>2. disp[d].status # "NONE" /\ Hold(r, "DELIVER", d, was, NoVehicle, n)
    BY <1>1, <1>3 DEF DeliverRead
  <2> HIDE DEF was
  <2>3. Knows(Request("held", "DELIVER", d, NoSlot, was, NoVehicle, n))
    BY <2>1 DEF Knows, Request, SlotKinds
  <2>4. "DELIVER" \in AllKinds \ (SlotKinds \cup {"SLOT", "VEHICLE"})
    BY DEF AllKinds, SlotKinds
  <2>. QED  BY <1>1, <2>1, <2>2, <2>3, <2>4, HoldKeeps
<1>4. ASSUME NEW v \in Vehicles, AssignRead(r, d, v) PROVE Orderly'
  <2>1. Knows(Request("held", "ASSIGN", d, NoSlot, disp[d].status, v, 0))
    BY DEF Knows, Request, SlotKinds
  <2>2. "ASSIGN" \in AllKinds \ (SlotKinds \cup {"SLOT", "VEHICLE"})
    BY DEF AllKinds, SlotKinds
  <2>3. disp[d].status # "NONE" /\ Hold(r, "ASSIGN", d, disp[d].status, v, 0)
    BY <1>4 DEF AssignRead
  <2>. QED  BY <1>1, <2>1, <2>2, <2>3, HoldKeeps
<1>5. ASSUME NEW to \in Moves, MoveRead(r, d, to) PROVE Orderly'
  <2>1. Knows(Request("held", to, d, NoSlot, disp[d].status, NoVehicle, 0))
    BY DEF Knows, Request, SlotKinds, Moves
  <2>2. to \in AllKinds \ (SlotKinds \cup {"SLOT", "VEHICLE"})
    BY DEF AllKinds, SlotKinds, Moves
  <2>. QED  BY <1>1, <1>5, <2>1, <2>2, HoldKeeps DEF MoveRead
<1>6. ASSUME NEW to \in Tracking, TrackRead(r, d, to) PROVE Orderly'
  <2>1. Knows(Request("held", "TRACK", d, NoSlot, to, NoVehicle, 0))
    BY DEF Knows, Request, SlotKinds
  <2>2. "TRACK" \in AllKinds \ (SlotKinds \cup {"SLOT", "VEHICLE"}) /\ to \in Statuses
    BY DEF AllKinds, SlotKinds, Tracking, Statuses, ShipmentStatus
  <2>3. disp[d].status # "NONE" /\ Hold(r, "TRACK", d, to, NoVehicle, 0)
    BY <1>1, <1>6 DEF TrackRead
  <2>. QED  BY <1>1, <2>1, <2>2, <2>3, HoldKeeps
<1>7. ASSUME BillRead(r, d) PROVE Orderly'
  <2>1. Knows(Request("held", "BILL", d, NoSlot, disp[d].status, disp[d].v, 0))
    BY DEF Knows, Request, SlotKinds
  <2>2. "BILL" \in AllKinds \ (SlotKinds \cup {"SLOT", "VEHICLE"})
    BY DEF AllKinds, SlotKinds
  <2>. QED  BY <1>1, <1>7, <2>1, <2>2, HoldKeeps DEF BillRead
<1>8. ASSUME ExecuteRead(r, d) PROVE Orderly'
  <2>1. Knows(Request("held", "EXECUTE", d, NoSlot, disp[d].status, disp[d].v, 0))
    BY <1>1, <1>8 DEF Knows, Request, SlotKinds, ExecuteRead
  <2>2. "EXECUTE" \in AllKinds \ (SlotKinds \cup {"SLOT", "VEHICLE"})
    BY DEF AllKinds, SlotKinds
  <2>3. disp[d].status # "NONE" /\ Hold(r, "EXECUTE", d, disp[d].status, disp[d].v, 0)
    BY <1>8 DEF ExecuteRead
  <2>. QED  BY <1>1, <2>1, <2>2, <2>3, HoldKeeps
<1>9. ASSUME NEW kind \in {"CONFIRM", "EXCEPTION", "RESOLVE"}, disp[d].status # "NONE",
             Hold(r, kind, d, dely[d], NoVehicle, 0)
      PROVE  Orderly'
  <2>1. Knows(Request("held", kind, d, NoSlot, dely[d], NoVehicle, 0))
    BY DEF Knows, Request, SlotKinds
  <2>2. kind \in AllKinds \ (SlotKinds \cup {"SLOT", "VEHICLE"})
    BY DEF AllKinds, SlotKinds
  <2>. QED  BY <1>1, <1>9, <2>1, <2>2, HoldKeeps
<1>10. MayDeliver(dely[d], "EXCEPTION") => dely[d] # "NONE"
  BY DEF MayDeliver
<1>. QED
  BY <1>1, <1>2, <1>3, <1>4, <1>5, <1>6, <1>7, <1>8, <1>9, <1>10
     DEF StartLoading, CompleteLoading, MarkReady, Cancel, ConfirmRead, ExceptionRead, ResolveRead,
         Moves

LEMMA CreateCommitKeeps ==
  ASSUME LogisticsConstants, Orderly, NEW r \in Requests, CreateCommit(r)
  PROVE  Orderly'
<1>1. Typed'
  BY DEF LogisticsConstants, Orderly, Typed, Works, Locks, Knows, CreateCommit, Held, Done, Idle, Request, Row, Order, Moves, Tracking,
         AllKinds, SlotKinds, Statuses, OrderStatus, DispatchStatus, BillStatus, ShipmentStatus,
         DeliveryStatus, VehicleStatus, Quantities
<1>2. Works'
  BY DEF LogisticsConstants, Orderly, Typed, Works, Knows, CreateCommit, Held, Done, Idle, Request, Row, Order, Moves, SlotKinds
<1>3. Locks'
  BY DEF Orderly, Typed, Works, Locks, Locked, Knows, CreateCommit, Held, Done, Idle, Request, Row, Order, SlotKinds
<1>. QED  BY <1>1, <1>2, <1>3 DEF Orderly

LEMMA AssignCommitKeeps ==
  ASSUME LogisticsConstants, Orderly, NEW r \in Requests, AssignCommit(r)
  PROVE  Orderly'
<1>1. Typed'
  BY DEF LogisticsConstants, Orderly, Typed, Works, Locks, Knows, AssignCommit, Held, Done, Idle, Request, Row, Order, Moves, Tracking,
         AllKinds, SlotKinds, Statuses, OrderStatus, DispatchStatus, BillStatus, ShipmentStatus,
         DeliveryStatus, VehicleStatus, Quantities
<1>2. Works'
  BY DEF LogisticsConstants, Orderly, Typed, Works, Knows, AssignCommit, Held, Done, Idle, Request, Row, Order, Moves, SlotKinds
<1>3. Locks'
  BY DEF Orderly, Typed, Works, Locks, Locked, Knows, AssignCommit, Held, Done, Idle, Request, Row, Order, SlotKinds
<1>. QED  BY <1>1, <1>2, <1>3 DEF Orderly

LEMMA MoveCommitKeeps ==
  ASSUME LogisticsConstants, Orderly, NEW r \in Requests, MoveCommit(r)
  PROVE  Orderly'
<1>1. Typed'
  BY DEF LogisticsConstants, Orderly, Typed, Works, Locks, Knows, MoveCommit, Held, Done, Idle, Request, Row, Order, Moves, Tracking,
         AllKinds, SlotKinds, Statuses, OrderStatus, DispatchStatus, BillStatus, ShipmentStatus,
         DeliveryStatus, VehicleStatus, Quantities
<1>2. Works'
  BY DEF LogisticsConstants, Orderly, Typed, Works, Knows, MoveCommit, Held, Done, Idle, Request, Row, Order, Moves, SlotKinds
<1>3. Locks'
  BY DEF Orderly, Typed, Works, Locks, Locked, Knows, MoveCommit, Held, Done, Idle, Request, Row, Order, SlotKinds
<1>. QED  BY <1>1, <1>2, <1>3 DEF Orderly

LEMMA BillWriteKeeps ==
  ASSUME LogisticsConstants, Orderly, NEW r \in Requests, NEW status \in {"VALID", "EXPIRED"}, BillWrite(r, status)
  PROVE  Orderly'
<1>1. Typed'
  BY DEF LogisticsConstants, Orderly, Typed, Works, Locks, Knows, BillWrite, Held, Done, Idle, Request, Row, Order, Moves, Tracking,
         AllKinds, SlotKinds, Statuses, OrderStatus, DispatchStatus, BillStatus, ShipmentStatus,
         DeliveryStatus, VehicleStatus, Quantities
<1>2. Works'
  BY DEF LogisticsConstants, Orderly, Typed, Works, Knows, BillWrite, Held, Done, Idle, Request, Row, Order, Moves, SlotKinds
<1>3. Locks'
  BY DEF Orderly, Typed, Works, Locks, Locked, Knows, BillWrite, Held, Done, Idle, Request, Row, Order, SlotKinds
<1>. QED  BY <1>1, <1>2, <1>3 DEF Orderly

LEMMA ExecuteBeginKeeps ==
  ASSUME LogisticsConstants, Orderly, NEW r \in Requests, ExecuteBegin(r)
  PROVE  Orderly'
<1>1. Typed'
  BY DEF LogisticsConstants, Orderly, Typed, Works, Locks, Knows, ExecuteBegin, Held, Enter, Request, orderVars, Moves, Tracking,
         AllKinds, SlotKinds, Statuses, OrderStatus, DispatchStatus, BillStatus, ShipmentStatus,
         DeliveryStatus, VehicleStatus, Quantities
<1>2. Works'
  BY DEF LogisticsConstants, Orderly, Typed, Works, Knows, ExecuteBegin, Held, Enter, Request, orderVars, Moves, SlotKinds
<1>3. Locks'
  BY DEF Orderly, Typed, Works, Locks, Locked, Knows, ExecuteBegin, Held, Enter, Request, orderVars, SlotKinds
<1>. QED  BY <1>1, <1>2, <1>3 DEF Orderly

LEMMA ExecuteCommitKeeps ==
  ASSUME LogisticsConstants, Orderly, NEW r \in Requests, ExecuteCommit(r)
  PROVE  Orderly'
<1>1. Typed'
  BY DEF LogisticsConstants, Orderly, Typed, Works, Locks, Knows, ExecuteCommit, Inside, Done, Idle, Request, Row, Order, Moves, Tracking,
         AllKinds, SlotKinds, Statuses, OrderStatus, DispatchStatus, BillStatus, ShipmentStatus,
         DeliveryStatus, VehicleStatus, Quantities
<1>2. Works'
  BY DEF LogisticsConstants, Orderly, Typed, Works, Knows, ExecuteCommit, Inside, Done, Idle, Request, Row, Order, Moves, SlotKinds
<1>3. Locks'
  BY DEF Orderly, Typed, Works, Locks, Locked, Knows, ExecuteCommit, Inside, Done, Idle, Request, Row, Order, SlotKinds
<1>. QED  BY <1>1, <1>2, <1>3 DEF Orderly

LEMMA TrackCommitKeeps ==
  ASSUME LogisticsConstants, Orderly, NEW r \in Requests, TrackCommit(r)
  PROVE  Orderly'
<1>1. Typed'
  BY DEF LogisticsConstants, Orderly, Typed, Works, Locks, Knows, TrackCommit, Held, Done, Idle, Request, Row, Order, Moves, Tracking,
         AllKinds, SlotKinds, Statuses, OrderStatus, DispatchStatus, BillStatus, ShipmentStatus,
         DeliveryStatus, VehicleStatus, Quantities
<1>2. Works'
  BY DEF LogisticsConstants, Orderly, Typed, Works, Knows, TrackCommit, Held, Done, Idle, Request, Row, Order, Moves, SlotKinds
<1>3. Locks'
  BY DEF Orderly, Typed, Works, Locks, Locked, Knows, TrackCommit, Held, Done, Idle, Request, Row, Order, SlotKinds
<1>. QED  BY <1>1, <1>2, <1>3 DEF Orderly

LEMMA DeliverBeginKeeps ==
  ASSUME LogisticsConstants, Orderly, NEW r \in Requests, DeliverBegin(r)
  PROVE  Orderly'
<1>1. Typed'
  BY DEF LogisticsConstants, Orderly, Typed, Works, Locks, Knows, DeliverBegin, Held, Enter, Request, orderVars, Moves, Tracking,
         AllKinds, SlotKinds, Statuses, OrderStatus, DispatchStatus, BillStatus, ShipmentStatus,
         DeliveryStatus, VehicleStatus, Quantities
<1>2. Works'
  BY DEF LogisticsConstants, Orderly, Typed, Works, Knows, DeliverBegin, Held, Enter, Request, orderVars, Moves, SlotKinds
<1>3. Locks'
  BY DEF Orderly, Typed, Works, Locks, Locked, Knows, DeliverBegin, Held, Enter, Request, orderVars, SlotKinds
<1>. QED  BY <1>1, <1>2, <1>3 DEF Orderly

LEMMA DeliverCommitKeeps ==
  ASSUME LogisticsConstants, Orderly, NEW r \in Requests, DeliverCommit(r)
  PROVE  Orderly'
<1>1. Typed'
  BY DEF LogisticsConstants, Orderly, Typed, Works, Locks, Knows, DeliverCommit, Inside, Done, Idle, Request, Row, Order, Moves, Tracking,
         AllKinds, SlotKinds, Statuses, OrderStatus, DispatchStatus, BillStatus, ShipmentStatus,
         DeliveryStatus, VehicleStatus, Quantities
<1>2. Works'
  BY DEF LogisticsConstants, Orderly, Typed, Works, Knows, DeliverCommit, Inside, Done, Idle, Request, Row, Order, Moves, SlotKinds
<1>3. Locks'
  BY DEF Orderly, Typed, Works, Locks, Locked, Knows, DeliverCommit, Inside, Done, Idle, Request, Row, Order, SlotKinds
<1>. QED  BY <1>1, <1>2, <1>3 DEF Orderly

LEMMA ConfirmCommitKeeps ==
  ASSUME LogisticsConstants, Orderly, NEW r \in Requests, ConfirmCommit(r)
  PROVE  Orderly'
<1>1. Typed'
  BY DEF LogisticsConstants, Orderly, Typed, Works, Locks, Knows, ConfirmCommit, Held, Done, Idle, Request, Row, Order, Moves, Tracking,
         AllKinds, SlotKinds, Statuses, OrderStatus, DispatchStatus, BillStatus, ShipmentStatus,
         DeliveryStatus, VehicleStatus, Quantities
<1>2. Works'
  BY DEF LogisticsConstants, Orderly, Typed, Works, Knows, ConfirmCommit, Held, Done, Idle, Request, Row, Order, Moves, SlotKinds
<1>3. Locks'
  BY DEF Orderly, Typed, Works, Locks, Locked, Knows, ConfirmCommit, Held, Done, Idle, Request, Row, Order, SlotKinds
<1>. QED  BY <1>1, <1>2, <1>3 DEF Orderly

LEMMA ExceptionCommitKeeps ==
  ASSUME LogisticsConstants, Orderly, NEW r \in Requests, ExceptionCommit(r)
  PROVE  Orderly'
<1>1. Typed'
  BY DEF LogisticsConstants, Orderly, Typed, Works, Locks, Knows, ExceptionCommit, Held, Done, Idle, Request, Row, Order, Moves, Tracking,
         AllKinds, SlotKinds, Statuses, OrderStatus, DispatchStatus, BillStatus, ShipmentStatus,
         DeliveryStatus, VehicleStatus, Quantities
<1>2. Works'
  BY DEF LogisticsConstants, Orderly, Typed, Works, Knows, ExceptionCommit, Held, Done, Idle, Request, Row, Order, Moves, SlotKinds
<1>3. Locks'
  BY DEF Orderly, Typed, Works, Locks, Locked, Knows, ExceptionCommit, Held, Done, Idle, Request, Row, Order, SlotKinds
<1>. QED  BY <1>1, <1>2, <1>3 DEF Orderly

LEMMA ResolveCommitKeeps ==
  ASSUME LogisticsConstants, Orderly, NEW r \in Requests, ResolveCommit(r)
  PROVE  Orderly'
<1>1. Typed'
  BY DEF LogisticsConstants, Orderly, Typed, Works, Locks, Knows, ResolveCommit, Held, Done, Idle, Request, Row, Order, Moves, Tracking,
         AllKinds, SlotKinds, Statuses, OrderStatus, DispatchStatus, BillStatus, ShipmentStatus,
         DeliveryStatus, VehicleStatus, Quantities
<1>2. Works'
  BY DEF LogisticsConstants, Orderly, Typed, Works, Knows, ResolveCommit, Held, Done, Idle, Request, Row, Order, Moves, SlotKinds
<1>3. Locks'
  BY DEF Orderly, Typed, Works, Locks, Locked, Knows, ResolveCommit, Held, Done, Idle, Request, Row, Order, SlotKinds
<1>. QED  BY <1>1, <1>2, <1>3 DEF Orderly

\* Only the bills, or only the vehicles, change.
LEMMA BillSetKeeps ==
  ASSUME Orderly, NEW d \in Dispatches, NEW status \in BillStatus, BillSet(d, status)
  PROVE  Orderly'
<1>1. Typed'
  BY DEF Orderly, Typed, BillSet
<1>2. Works' /\ Locks'
  BY DEF Orderly, Works, Locks, Knows, BillSet
<1>. QED  BY <1>1, <1>2 DEF Orderly

LEMMA SetVehicleKeeps ==
  ASSUME Orderly, NEW v \in Vehicles, NEW status \in VehicleStatus, SetVehicle(v, status)
  PROVE  Orderly'
<1>1. Typed'
  BY DEF Orderly, Typed, SetVehicle, orderVars
<1>2. Works' /\ Locks'
  BY DEF Orderly, Works, Locks, Knows, SetVehicle, orderVars
<1>. QED  BY <1>1, <1>2 DEF Orderly

LEMMA SlotReadKeeps ==
  ASSUME Orderly, NEW s \in Slots, NEW d \in Dispatches, NEW v \in Vehicles \cup {NoVehicle},
         NEW driver \in BOOLEAN, NEW bay \in Bays, NEW window \in Windows,
         SlotRead(s, d, v, driver, bay, window)
  PROVE  Orderly'
<1>1. slot' = [slot EXCEPT ![s] = Booking("booking", d, v, driver, bay, window, disp[d].status)]
      /\ UNCHANGED <<po, disp, bill, ship, dely, truck, req>> /\ disp[d].status # "NONE"
  BY DEF SlotRead, orderVars, Ended
<1>2. Typed'
  BY <1>1 DEF Orderly, Typed, Booking
<1>3. Works'
  BY <1>1 DEF Orderly, Typed, Works, Knows, Booking
<1>4. Locks'
  BY <1>1 DEF Orderly, Locks
<1>. QED  BY <1>2, <1>3, <1>4 DEF Orderly

LEMMA SlotCommitKeeps ==
  ASSUME Orderly, NEW s \in Slots, SlotCommit(s)
  PROVE  Orderly'
<1>1. /\ slot[s].d \in Dispatches /\ disp[slot[s].d].status # "NONE"
      /\ Turn(s, "REQUESTED") /\ UNCHANGED <<po, bill, ship, dely, truck, req>>
  BY DEF Orderly, Works, SlotCommit
<1>2. PICK status \in DispatchStatus, v \in Vehicles \cup {NoVehicle} :
        disp' = [disp EXCEPT ![slot[s].d] = Row(status, @.qty, v)]
  <2> DEFINE d == slot[s].d
  <2>1. disp[d] = Row(disp[d].status, disp[d].qty, disp[d].v)
    BY <1>1 DEF Orderly, Typed, Row
  <2>2. disp[d].status \in DispatchStatus /\ disp[d].v \in Vehicles \cup {NoVehicle}
        /\ "VEHICLE_ASSIGNED" \in DispatchStatus /\ slot[s].v \in Vehicles \cup {NoVehicle}
    BY <1>1 DEF Orderly, Typed, DispatchStatus
  <2>3. disp' = disp => disp' = [disp EXCEPT ![d] = Row(disp[d].status, @.qty, disp[d].v)]
    BY <1>1, <2>1 DEF Orderly, Typed
  <2>4. disp' # disp => disp' = [disp EXCEPT ![d] =
          Row(IF slot[s].was = "AWAITING_VEHICLE" THEN "VEHICLE_ASSIGNED" ELSE disp[d].status,
              @.qty, IF slot[s].v = NoVehicle THEN disp[d].v ELSE slot[s].v)]
    BY <1>1 DEF SlotCommit
  <2>5. CASE disp' = disp
    BY <2>2, <2>3, <2>5
  <2>6. CASE disp' # disp
    BY <2>2, <2>4, <2>6
  <2>. QED  BY <2>5, <2>6
<1>3. Typed'
  BY <1>1, <1>2 DEF Orderly, Typed, Turn, Booking, Row, ActiveSlot
<1>4. Works'
  BY <1>1, <1>2 DEF Orderly, Typed, Works, Knows, Turn, Booking, Row, DispatchStatus
<1>5. Locks'
  BY <1>1 DEF Orderly, Locks
<1>. QED  BY <1>3, <1>4, <1>5 DEF Orderly

LEMMA SlotFailKeeps ==
  ASSUME Orderly, NEW s \in Slots, SlotFail(s)
  PROVE  Orderly'
<1>1. Typed'
  BY DEF Orderly, Typed, SlotFail, NoBooking, Booking, orderVars
<1>2. Works' /\ Locks'
  BY DEF Orderly, Typed, Works, Locks, Knows, SlotFail, NoBooking, Booking, orderVars
<1>. QED  BY <1>1, <1>2 DEF Orderly

LEMMA SlotAnswerReadKeeps ==
  ASSUME Orderly, NEW r \in Requests, NEW s \in Slots, NEW kind \in SlotKinds,
         SlotAnswerRead(r, s, kind)
  PROVE  Orderly'
<1>1. Typed'
  BY DEF Orderly, Typed, SlotAnswerRead, Request, orderVars, SlotKinds, AllKinds, Statuses
<1>2. Works' /\ Locks'
  BY DEF Orderly, Typed, Works, Locks, Knows, SlotAnswerRead, Request, orderVars, SlotKinds
<1>. QED  BY <1>1, <1>2 DEF Orderly

\* The answer of a slot touches the slot alone.
LEMMA AnswerKeeps ==
  ASSUME Orderly, NEW r \in Requests, SlotConfirm(r) \/ SlotCancel(r)
  PROVE  Orderly'
<1>1. PICK status \in {"CONFIRMED", "CANCELLED"} : Turn(req[r].s, status)
  BY DEF SlotConfirm, SlotCancel
<1>2. Done(r) /\ UNCHANGED <<po, disp, bill, ship, dely, truck>>
  BY DEF SlotConfirm, SlotCancel, orderVars
<1>3. Typed'
  BY <1>1, <1>2 DEF Orderly, Typed, Turn, Booking, Done, Idle, Request, ActiveSlot, AllKinds, Statuses
<1>4. Works' /\ Locks'
  BY <1>1, <1>2 DEF Orderly, Typed, Works, Locks, Knows, Turn, Booking, Done, Idle, Request
<1>. QED  BY <1>3, <1>4 DEF Orderly

\* The stock pages, and steps of something else, leave the order alone.
LEMMA UnchangedKeeps ==
  ASSUME Orderly, UNCHANGED <<orderVars, truck, slot, req>>
  PROVE  Orderly'
  BY DEF Orderly, Typed, Works, Locks, Knows, orderVars

LEMMA CommitKeeps ==
  ASSUME LogisticsConstants, Orderly, NEW r \in Requests, Commit(r)
  PROVE  Orderly'
<1>1. CreateFail(r) \/ ExecuteFail(r) \/ ConfirmFail(r) \/ SlotConfirmFail(r) => Fail(r)
  BY DEF CreateFail, ExecuteFail, ConfirmFail, SlotConfirmFail
<1>. QED
  BY <1>1, FailKeeps, CreateCommitKeeps, AssignCommitKeeps, MoveCommitKeeps, BillWriteKeeps,
     ExecuteBeginKeeps, ExecuteCommitKeeps, TrackCommitKeeps, DeliverBeginKeeps, DeliverCommitKeeps,
     ConfirmCommitKeeps, ExceptionCommitKeeps, ResolveCommitKeeps, AnswerKeeps DEF Commit

LEMMA StepKeeps ==
  ASSUME LogisticsConstants, Orderly, Next
  PROVE  Orderly'
<1>1. ASSUME NEW r \in Requests, Read(r) PROVE Orderly'
  BY <1>1, DispatchReadKeeps, SlotAnswerReadKeeps DEF Read, SlotKinds
<1>2. ASSUME NEW r \in Requests, Commit(r) PROVE Orderly'
  BY <1>2, CommitKeeps
<1>3. ASSUME NEW d \in Dispatches, Validate(d) \/ CancelBill(d) \/ BillLapses(d) PROVE Orderly'
  BY <1>3, BillSetKeeps DEF Validate, CancelBill, BillLapses, BillStatus
<1>4. ASSUME NEW s \in Slots, BookSlot(s) PROVE Orderly'
  BY <1>4, SlotReadKeeps, SlotCommitKeeps, SlotFailKeeps DEF BookSlot
<1>. QED  BY <1>1, <1>2, <1>3, <1>4, SetVehicleKeeps, UnchangedKeeps DEF Next

-----------------------------------------------------------------------------
(* What is counted: the stock that the dispatches took, and the quantity    *)
(* that the order reports as dispatched.                                    *)

Created == {d \in Dispatches : disp[d].status # "NONE"}
Sold == SumFunctionOnSet([i \in Rows |-> moved[i].sold], Rows)

Counted ==
  /\ StockFollowsDispatches
  /\ DispatchedIsShipped
  /\ \A r \in Requests : req[r].at = "inside" /\ req[r].kind = "EXECUTE" =>
       req[r].n <= Carried(Shipped)

\* A step that creates no dispatch, takes no stock and loses no shipment, and
\* takes no sum of the order.
Quiet ==
  /\ \A d \in Dispatches :
       /\ disp'[d].qty = disp[d].qty
       /\ disp'[d].status = "NONE" <=> disp[d].status = "NONE"
       /\ ship[d] # "NONE" => ship'[d] # "NONE"
  /\ po'.dispatched = po.dispatched
  /\ \A i \in Rows : moved'[i].sold = moved[i].sold
  /\ \A r \in Requests : req'[r].at = "inside" /\ req'[r].kind = "EXECUTE" =>
       req[r].at = "inside" /\ req[r].kind = "EXECUTE" /\ req'[r].n = req[r].n

\* Each quantity is a natural number, and so is each sum of them.
LEMMA CarriedIsNat ==
  ASSUME LogisticsConstants, Typed, NEW S \in SUBSET Dispatches
  PROVE  /\ \A d \in Dispatches : disp[d].qty \in Nat
         /\ IsFiniteSet(S) /\ Carried(S) \in Nat
<1> DEFINE qty == [d \in Dispatches |-> disp[d].qty]
<1>1. \A d \in Dispatches : disp[d].qty \in Nat /\ qty[d] \in Nat
  BY DEF LogisticsConstants, Typed, Quantities
<1>2. IsFiniteSet(Dispatches) /\ IsFiniteSet(S)
  BY FS_Subset DEF LogisticsConstants
<1>3. SumFunctionOnSet(qty, S) \in Nat
  <2> HIDE DEF qty
  <2>. QED  BY <1>1, <1>2, SumMonotonic
<1>. QED  BY <1>1, <1>2, <1>3 DEF Carried

\* The same dispatches carry the same, and more dispatches carry no less.
LEMMA CarriedNext ==
  ASSUME LogisticsConstants, Typed, Typed', NEW S \in SUBSET Dispatches,
         NEW T \in SUBSET Dispatches, S \subseteq T,
         \A d \in S : disp'[d].qty = disp[d].qty
  PROVE  /\ Carried(S) <= SumFunctionOnSet([d \in Dispatches |-> disp'[d].qty], T)
         /\ S = T => Carried(S) = SumFunctionOnSet([d \in Dispatches |-> disp'[d].qty], T)
<1> DEFINE qty == [d \in Dispatches |-> disp[d].qty]
           next == [d \in Dispatches |-> disp'[d].qty]
<1>1. IsFiniteSet(S) /\ IsFiniteSet(T)
  BY FS_Subset DEF LogisticsConstants
<1>2. \A d \in Dispatches : next[d] \in Nat
  BY DEF LogisticsConstants, Typed, Quantities
<1>3. \A d \in S : qty[d] = next[d]
  OBVIOUS
<1>4. SumFunctionOnSet(qty, S) = SumFunctionOnSet(next, S)
  <2> HIDE DEF qty, next
  <2>. QED  BY <1>1, <1>3, SumCongruent
<1>5. SumFunctionOnSet(next, S) <= SumFunctionOnSet(next, T)
  <2> HIDE DEF next
  <2>. QED  BY <1>1, <1>2, SumMonotonic
<1>. QED  BY <1>4, <1>5 DEF Carried

LEMMA QuietCounts ==
  ASSUME LogisticsConstants, Typed, Typed', Counted, Quiet
  PROVE  Counted'
<1>1. Shipped \in SUBSET Dispatches /\ Shipped' \in SUBSET Dispatches /\ Shipped \subseteq Shipped'
  BY DEF Shipped, Quiet
<1>2. Carried(Shipped) <= Carried(Shipped)'
  <2>1. Carried(Shipped)' = SumFunctionOnSet([d \in Dispatches |-> disp'[d].qty], Shipped')
    BY DEF Carried
  <2>. QED  BY <1>1, <2>1, CarriedNext DEF Quiet
<1>3. Carried(Shipped) \in Nat /\ Carried(Shipped)' \in Nat
  <2>1. Carried(Shipped) \in Nat
    BY <1>1, CarriedIsNat DEF Counted
  <2>2. SumFunctionOnSet([d \in Dispatches |-> disp'[d].qty], Shipped') \in Nat
    <3> DEFINE next == [d \in Dispatches |-> disp'[d].qty]
    <3>1. \A d \in Dispatches : next[d] \in Nat
      BY DEF LogisticsConstants, Typed, Quantities
    <3>2. IsFiniteSet(Dispatches)
      BY DEF LogisticsConstants
    <3>3. ASSUME NEW T \in SUBSET Dispatches PROVE SumFunctionOnSet(next, T) \in Nat
      <4> HIDE DEF next
      <4>. QED  BY <3>1, <3>2, SumMonotonic
    <3>. QED  BY <1>1, <3>3
  <2>. QED  BY <2>1, <2>2 DEF Carried
<1>4. DispatchedIsShipped'
  <2>1. po.dispatched \in Nat /\ po.dispatched <= Carried(Shipped)
    BY DEF Typed, Counted, DispatchedIsShipped
  <2>2. po'.dispatched = po.dispatched
    BY DEF Quiet
  <2>. QED  BY <1>2, <1>3, <2>1, <2>2 DEF DispatchedIsShipped
<1>5. ASSUME NEW r \in Requests, req'[r].at = "inside", req'[r].kind = "EXECUTE"
      PROVE  req'[r].n <= Carried(Shipped)'
  <2>1. req'[r].n = req[r].n /\ req[r].n <= Carried(Shipped) /\ req[r].n \in Nat
    BY <1>5 DEF Quiet, Counted, Typed
  <2>. QED  BY <1>2, <1>3, <2>1
<1>6. StockFollowsDispatches'
  <2>1. Created = Created' /\ Created \in SUBSET Dispatches
    BY DEF Created, Quiet
  <2>2. Carried(Created)' = SumFunctionOnSet([d \in Dispatches |-> disp'[d].qty], Created')
    BY DEF Carried
  <2>3. Carried(Created) = Carried(Created)'
    BY <2>1, <2>2, CarriedNext DEF Quiet, Created
  <2>4. [i \in Rows |-> moved[i].sold] = [i \in Rows |-> moved'[i].sold]
    BY DEF Quiet
  <2>5. Sold = Sold'
    BY <2>4 DEF Sold
  <2>6. Rows # {} => Sold = Carried(Created)
    BY DEF Counted, StockFollowsDispatches, Sold, Created
  <2>. QED  BY <2>3, <2>5, <2>6 DEF StockFollowsDispatches, Sold, Created
<1>. QED  BY <1>4, <1>5, <1>6 DEF Counted

\* The steps that are quiet.
LEMMA ReadIsQuiet ==
  ASSUME Orderly, NEW r \in Requests, Read(r)
  PROVE  Quiet
<1>1. ASSUME NEW kind, NEW d, NEW was, NEW v, NEW n, Hold(r, kind, d, was, v, n) PROVE Quiet
  BY <1>1 DEF Orderly, Typed, Quiet, Hold, Request, orderVars, stockVars
<1>2. ASSUME NEW s, NEW kind, SlotAnswerRead(r, s, kind) PROVE Quiet
  BY <1>2 DEF Orderly, Typed, Quiet, SlotAnswerRead, Request, orderVars, stockVars
<1>. QED
  BY <1>1, <1>2 DEF Read, CreateRead, DeliverRead, AssignRead, StartLoading, CompleteLoading,
     MarkReady, Cancel, MoveRead, TrackRead, BillRead, ExecuteRead, ConfirmRead, ExceptionRead,
     ResolveRead

LEMMA FailIsQuiet ==
  ASSUME Orderly, NEW r \in Requests, Fail(r)
  PROVE  Quiet
  BY DEF Orderly, Typed, Quiet, Fail, Done, Idle, Request, orderVars, stockVars

LEMMA AssignIsQuiet ==
  ASSUME Orderly, NEW r \in Requests, AssignCommit(r)
  PROVE  Quiet
  BY DEF Orderly, Typed, Works, Knows, SlotKinds, Quiet, AssignCommit, Held, Done, Idle, Request, Row, stockVars

LEMMA MoveIsQuiet ==
  ASSUME Orderly, NEW r \in Requests, MoveCommit(r)
  PROVE  Quiet
  BY DEF Orderly, Typed, Works, Knows, SlotKinds, Moves, Quiet, MoveCommit, Done, Idle, Request, Row, stockVars

LEMMA BillIsQuiet ==
  ASSUME Orderly, NEW r \in Requests, NEW status, BillWrite(r, status)
  PROVE  Quiet
  BY DEF Orderly, Typed, Quiet, BillWrite, Held, Idle, Request, stockVars

LEMMA TrackIsQuiet ==
  ASSUME Orderly, NEW r \in Requests, TrackCommit(r)
  PROVE  Quiet
  BY ZenonT(60) DEF Orderly, Typed, Works, Knows, SlotKinds, Tracking, Quiet, TrackCommit, Held,
     Done, Idle, Request, stockVars

LEMMA DeliverIsQuiet ==
  ASSUME Orderly, NEW r \in Requests, DeliverBegin(r) \/ DeliverCommit(r)
  PROVE  Quiet
<1>1. CASE DeliverBegin(r)
  BY <1>1 DEF Orderly, Typed, Quiet, DeliverBegin, Held, Enter, Request, orderVars, stockVars
<1>2. CASE DeliverCommit(r)
  BY <1>2 DEF Orderly, Typed, Quiet, DeliverCommit, Inside, Done, Idle, Request, Order, stockVars
<1>. QED  BY <1>1, <1>2

LEMMA DeliveryIsQuiet ==
  ASSUME Orderly, NEW r \in Requests, ConfirmCommit(r) \/ ExceptionCommit(r) \/ ResolveCommit(r)
  PROVE  Quiet
<1>1. CASE ConfirmCommit(r)
  BY <1>1 DEF Orderly, Typed, Quiet, ConfirmCommit, Held, Done, Idle, Request, stockVars
<1>2. CASE ExceptionCommit(r)
  BY <1>2 DEF Orderly, Typed, Quiet, ExceptionCommit, Held, Done, Idle, Request, stockVars
<1>3. CASE ResolveCommit(r)
  BY <1>3 DEF Orderly, Typed, Quiet, ResolveCommit, Held, Done, Idle, Request, stockVars
<1>. QED  BY <1>1, <1>2, <1>3

LEMMA AnswerIsQuiet ==
  ASSUME Orderly, NEW r \in Requests, SlotConfirm(r) \/ SlotCancel(r)
  PROVE  Quiet
  BY DEF Orderly, Typed, Quiet, SlotConfirm, SlotCancel, Done, Idle, Request, orderVars, stockVars

LEMMA OthersAreQuiet ==
  ASSUME \/ \E d \in Dispatches : Validate(d) \/ CancelBill(d) \/ BillLapses(d)
         \/ \E v \in Vehicles, status \in VehicleStatus : SetVehicle(v, status)
  PROVE  Quiet
  BY DEF Quiet, Validate, CancelBill, BillLapses, BillSet, SetVehicle, orderVars, stockVars

LEMMA BookingIsQuiet ==
  ASSUME Orderly, NEW s \in Slots, BookSlot(s)
  PROVE  Quiet
<1>1. CASE SlotCommit(s)
  <2>1. UNCHANGED <<po, ship, req, moved>> /\ slot[s].d \in Dispatches /\ disp[slot[s].d].status # "NONE"
    BY <1>1 DEF Orderly, Works, SlotCommit, stockVars
  <2>2. ASSUME NEW d \in Dispatches
        PROVE  disp'[d].qty = disp[d].qty /\ (disp'[d].status = "NONE" <=> disp[d].status = "NONE")
    <3>1. CASE disp' = disp
      BY <3>1
    <3>2. CASE disp' # disp
      BY <1>1, <2>1, <3>2 DEF Orderly, Typed, SlotCommit, Row
    <3>. QED  BY <3>1, <3>2
  <2>. QED  BY <2>1, <2>2 DEF Quiet
<1>2. CASE UNCHANGED <<orderVars, truck, req, stockVars>>
  BY <1>2 DEF Quiet, orderVars, stockVars
<1>. QED  BY <1>1, <1>2 DEF BookSlot, SlotRead, SlotFail

LEMMA StockIsQuiet ==
  ASSUME StockInv, InventoryNext, UNCHANGED <<orderVars, truck, slot, req>>
  PROVE  Quiet
<1>1. ASSUME NEW i \in Rows PROVE moved'[i].sold = moved[i].sold
  <2>1. ASSUME NEW k \in Keepers, BookWrite(k) \/ AdjustWrite(k) PROVE moved'[i].sold = moved[i].sold
    BY <2>1 DEF StockInv, StockTyped, BookWrite, AdjustWrite, Movement
  <2>2. ASSUME moved' = moved PROVE moved'[i].sold = moved[i].sold
    BY <2>2
  <2>. QED  BY <2>1, <2>2 DEF InventoryNext, Reserve, Release, BookRead, AdjustRead, SetQuantity, SetListing
<1>. QED  BY <1>1 DEF Quiet, orderVars

\* A new dispatch takes from the stock what it carries.
LEMMA CreateCounts ==
  ASSUME LogisticsConstants, Orderly, Orderly', StockTyped, Counted, NEW r \in Requests,
         CreateCommit(r)
  PROVE  Counted'
<1> DEFINE d == req[r].d
           n == req[r].n
           qty == [e \in Dispatches |-> disp[e].qty]
           next == [e \in Dispatches |-> disp'[e].qty]
           sold == [i \in Rows |-> moved[i].sold]
           sold2 == [i \in Rows |-> moved'[i].sold]
<1>1. d \in Dispatches /\ n \in Quantities /\ n \in Nat
  BY DEF Orderly, Typed, Works, Knows, SlotKinds, CreateCommit, Held
<1>2. /\ disp[d].status = "NONE" /\ disp' = [disp EXCEPT ![d] = Row("AWAITING_VEHICLE", n, NoVehicle)]
      /\ ship' = ship /\ po'.dispatched = po.dispatched /\ Deduct(n)
      /\ req' = [req EXCEPT ![r] = Idle]
  BY DEF CreateCommit, Held, Order, Done
<1>3. ship[d] = "NONE"
  BY <1>1, <1>2 DEF Orderly, Works
<1>4. Shipped' = Shipped /\ d \notin Shipped /\ Shipped \in SUBSET Dispatches
  BY <1>2, <1>3 DEF Shipped
<1>5. \A e \in Dispatches \ {d} : disp'[e] = disp[e]
  BY <1>2 DEF Orderly, Typed
<1>6. disp'[d].qty = n /\ disp'[d].status # "NONE"
  BY <1>1, <1>2 DEF Orderly, Typed, Row
<1>7. Carried(Shipped)' = Carried(Shipped)
  <2>1. Carried(Shipped)' = SumFunctionOnSet(next, Shipped')
    BY DEF Carried
  <2>. QED  BY <1>4, <1>5, <2>1, CarriedNext DEF Orderly
<1>8. DispatchedIsShipped'
  BY <1>2, <1>7 DEF Counted, DispatchedIsShipped
<1>9. ASSUME NEW q \in Requests, req'[q].at = "inside", req'[q].kind = "EXECUTE"
      PROVE  req'[q].n <= Carried(Shipped)'
  <2>1. q # r /\ req'[q] = req[q]
    BY <1>2, <1>9 DEF Orderly, Typed, Idle, Request
  <2>. QED  BY <1>7, <1>9, <2>1 DEF Counted
<1>10. Rows # {} => Sold' = Sold + n
  <2>1. SUFFICES ASSUME Rows # {} PROVE Sold' = Sold + n
    OBVIOUS
  <2>2. PICK take \in [Rows -> 0 .. n] :
          /\ SumFunctionOnSet(take, Rows) = n
          /\ moved' = [i \in Rows |-> Movement(moved[i].reserved, moved[i].sold + take[i],
                                               moved[i].adjusted)]
    BY <1>2, <2>1 DEF Deduct
  <2>3. \A i \in Rows : sold[i] \in Int /\ take[i] \in Int /\ sold2[i] = sold[i] + take[i]
    BY <1>1, <2>2 DEF StockTyped, Movement
  <2>4. IsFiniteSet(Rows)
    BY DEF LogisticsConstants
  <2>5. SumFunctionOnSet(sold2, Rows) = SumFunctionOnSet(sold, Rows) + SumFunctionOnSet(take, Rows)
    <3> HIDE DEF sold, sold2
    <3>. QED  BY <2>3, <2>4, SumOfSums
  <2>. QED  BY <2>2, <2>5 DEF Sold
<1>11. Created' = Created \cup {d} /\ d \notin Created /\ Created \in SUBSET Dispatches
  BY <1>1, <1>2, <1>5, <1>6 DEF Created
<1>12. Carried(Created)' = Carried(Created) + n
  <2>1. Carried(Created)' = SumFunctionOnSet(next, Created \cup {d})
    BY <1>11 DEF Carried
  <2>2. Carried(Created) = SumFunctionOnSet(next, Created)
    BY <1>5, <1>11, CarriedNext DEF Orderly
  <2>3. IsFiniteSet(Created) /\ Carried(Created) \in Nat
    BY <1>11, CarriedIsNat DEF Orderly
  <2>4. \A e \in Created \cup {d} : next[e] \in Int
    BY <1>1, <1>11 DEF LogisticsConstants, Orderly, Typed, Quantities
  <2>5. SumFunctionOnSet(next, Created \cup {d}) = next[d] + SumFunctionOnSet(next, Created)
    <3> HIDE DEF next, d
    <3>. QED  BY <1>11, <2>3, <2>4, SumAdd
  <2>6. next[d] = n
    BY <1>1, <1>6
  <2> HIDE DEF next, d, n
  <2>. QED  BY <1>1, <2>1, <2>2, <2>3, <2>5, <2>6
<1>13. StockFollowsDispatches'
  <2>1. Rows # {} => Sold = Carried(Created)
    BY DEF Counted, StockFollowsDispatches, Sold, Created
  <2>. QED  BY <1>10, <1>12, <2>1 DEF StockFollowsDispatches, Sold, Created
<1>. QED  BY <1>8, <1>9, <1>13 DEF Counted

\* An execution reads the order's sum, which is covered by the shipments ...
LEMMA ExecuteBeginCounts ==
  ASSUME LogisticsConstants, Orderly, Counted, NEW r \in Requests, ExecuteBegin(r)
  PROVE  Counted'
<1>1. UNCHANGED <<po, disp, ship, moved>>
      /\ req' = [req EXCEPT ![r] = Request("inside", @.kind, @.d, @.s, @.was, @.v, po.dispatched)]
  BY DEF ExecuteBegin, Enter, orderVars, stockVars
<1>2. Carried(Shipped)' = Carried(Shipped) /\ StockFollowsDispatches' /\ DispatchedIsShipped'
  BY <1>1 DEF Carried, Shipped, Counted, StockFollowsDispatches, DispatchedIsShipped
<1>3. ASSUME NEW q \in Requests, req'[q].at = "inside", req'[q].kind = "EXECUTE"
      PROVE  req'[q].n <= Carried(Shipped)'
  <2>1. CASE q = r
    <3>1. req'[q].n = po.dispatched
      BY <1>1, <2>1 DEF Orderly, Typed, Request
    <3>. QED  BY <1>2, <3>1 DEF Counted, DispatchedIsShipped
  <2>2. CASE q # r
    BY <1>1, <1>2, <1>3, <2>2 DEF Orderly, Typed, Counted
  <2>. QED  BY <2>1, <2>2
<1>. QED  BY <1>2, <1>3 DEF Counted

\* ... and adds the quantity of its own dispatch, which had none before.
LEMMA ExecutionShips ==
  ASSUME LogisticsConstants, Orderly, Orderly', NEW r \in Requests, ExecuteCommit(r)
  PROVE  /\ \A e \in Dispatches : disp'[e].qty = disp[e].qty
                                  /\ (disp'[e].status = "NONE" <=> disp[e].status = "NONE")
         /\ disp[req[r].d].qty \in Nat /\ Carried(Shipped) \in Nat
         /\ Carried(Shipped)' = Carried(Shipped) + disp[req[r].d].qty
<1> DEFINE d == req[r].d
           next == [e \in Dispatches |-> disp'[e].qty]
<1>1. d \in Dispatches /\ ship[d] = "NONE" /\ disp[d].status # "NONE"
  BY Zenon DEF Orderly, Typed, Works, Knows, SlotKinds, Locks, ExecuteCommit, Inside
<1>2. /\ disp' = [disp EXCEPT ![d] = Row("DISPATCHED", @.qty, @.v)]
      /\ ship' = [ship EXCEPT ![d] = "DISPATCHED"]
  BY DEF ExecuteCommit
<1>3. \A e \in Dispatches : disp'[e].qty = disp[e].qty
                            /\ (disp'[e].status = "NONE" <=> disp[e].status = "NONE")
  BY <1>1, <1>2 DEF Orderly, Typed, Row
<1>4. Shipped' = Shipped \cup {d} /\ d \notin Shipped /\ Shipped \in SUBSET Dispatches
  BY <1>1, <1>2 DEF Orderly, Typed, Shipped
<1>5. disp[d].qty \in Nat /\ Carried(Shipped) \in Nat /\ IsFiniteSet(Shipped)
  BY <1>1, <1>4, CarriedIsNat DEF Orderly
<1>6. Carried(Shipped)' = Carried(Shipped) + disp[d].qty
  <2>1. Carried(Shipped)' = SumFunctionOnSet(next, Shipped \cup {d})
    BY <1>4 DEF Carried
  <2>2. Carried(Shipped) = SumFunctionOnSet(next, Shipped)
    BY <1>3, <1>4, CarriedNext DEF Orderly
  <2>3. \A e \in Shipped \cup {d} : next[e] \in Int
    BY <1>1, <1>4 DEF LogisticsConstants, Orderly, Typed, Quantities
  <2>4. SumFunctionOnSet(next, Shipped \cup {d}) = next[d] + SumFunctionOnSet(next, Shipped)
    <3> HIDE DEF next, d
    <3>. QED  BY <1>4, <1>5, <2>3, SumAdd
  <2>5. next[d] = disp[d].qty
    BY <1>1, <1>3
  <2>6. Carried(Shipped)' = disp[d].qty + Carried(Shipped)
    <3> HIDE DEF next, d
    <3>. QED  BY <2>1, <2>2, <2>4, <2>5, Zenon
  <2>7. \A x, y \in Nat : x + y = y + x
    OBVIOUS
  <2> HIDE DEF next, d
  <2>. QED  BY <1>5, <2>6, <2>7, Zenon
<1>. QED  BY <1>3, <1>5, <1>6

LEMMA ExecuteCommitCounts ==
  ASSUME LogisticsConstants, Orderly, Orderly', Counted, NEW r \in Requests, ExecuteCommit(r)
  PROVE  Counted'
<1> DEFINE d == req[r].d
           next == [e \in Dispatches |-> disp'[e].qty]
<1>1. req[r].n <= Carried(Shipped) /\ req[r].n \in Nat
  BY DEF Orderly, Typed, Counted, ExecuteCommit, Inside
<1>2. /\ po'.dispatched = req[r].n + disp[d].qty
      /\ moved' = moved
      /\ req' = [req EXCEPT ![r] = Idle]
  BY DEF ExecuteCommit, Order, Done, stockVars
<1>3. \A e \in Dispatches : disp'[e].qty = disp[e].qty
                            /\ (disp'[e].status = "NONE" <=> disp[e].status = "NONE")
  BY ExecutionShips
<1>5. disp[d].qty \in Nat /\ Carried(Shipped) \in Nat
  BY ExecutionShips
<1>6. Carried(Shipped)' = Carried(Shipped) + disp[d].qty
  BY ExecutionShips
<1>7. DispatchedIsShipped'
  BY <1>1, <1>2, <1>5, <1>6 DEF DispatchedIsShipped
<1>8. ASSUME NEW q \in Requests, req'[q].at = "inside", req'[q].kind = "EXECUTE"
      PROVE  req'[q].n <= Carried(Shipped)'
  <2>1. q # r /\ req'[q] = req[q]
    BY <1>2, <1>8 DEF Orderly, Typed, Idle, Request
  <2>2. req[q].n <= Carried(Shipped) /\ req[q].n \in Nat
    BY <1>8, <2>1 DEF Counted, Orderly, Typed
  <2>. QED  BY <1>5, <1>6, <2>1, <2>2
<1>9. StockFollowsDispatches'
  <2>1. Created' = Created /\ Created \in SUBSET Dispatches
    BY <1>3 DEF Created
  <2>2. Carried(Created)' = SumFunctionOnSet(next, Created')
    BY DEF Carried
  <2>3. Carried(Created)' = Carried(Created)
    BY <1>3, <2>1, <2>2, CarriedNext DEF Orderly
  <2>. QED  BY <1>2, <2>3 DEF Counted, StockFollowsDispatches, Created
<1>. QED  BY <1>7, <1>8, <1>9 DEF Counted

-----------------------------------------------------------------------------
(* The slots: the unique indexes are what keeps them apart.                 *)

\* Two bookings do not meet in one window, whichever of them one looks from.
LEMMA FitsBothWays ==
  ASSUME NEW s \in Slots, NEW o \in Slots, s # o, Fits(s, slot[s]), Active(o)
  PROVE  slot[s].window = slot[o].window =>
           /\ slot[s].bay # slot[o].bay
           /\ slot[s].v = slot[o].v => slot[o].v = NoVehicle
  BY DEF Fits

\* A slot that fits becomes active, or one stops being so.
LEMMA TurnKeepsApart ==
  ASSUME Typed, SlotsAreDisjoint, NEW s \in Slots, NEW status, Turn(s, status),
         status \in ActiveSlot => Fits(s, slot[s])
  PROVE  SlotsAreDisjoint'
<1>1. \A o \in Slots :
        /\ slot'[o].window = slot[o].window /\ slot'[o].bay = slot[o].bay /\ slot'[o].v = slot[o].v
        /\ o # s => slot'[o].status = slot[o].status
        /\ o = s => slot'[o].status = status
  BY DEF Typed, Turn, Booking
<1>2. ASSUME NEW a \in Slots, NEW b \in Slots, a # b, slot'[a].status \in ActiveSlot,
             slot'[b].status \in ActiveSlot, slot'[a].window = slot'[b].window
      PROVE  slot'[b].bay # slot'[a].bay /\ (slot'[b].v = slot'[a].v => slot'[a].v = NoVehicle)
  <2>1. slot[a].window = slot[b].window
    BY <1>1, <1>2
  <2>2. CASE a = s
    <3>1. Fits(a, slot[a]) /\ Active(b)
      BY <1>1, <1>2, <2>2 DEF Active
    <3>. QED  BY <1>1, <1>2, <2>1, <3>1 DEF Fits
  <2>3. CASE b = s
    <3>1. Fits(b, slot[b]) /\ Active(a)
      BY <1>1, <1>2, <2>3 DEF Active
    <3>. QED  BY <1>1, <1>2, <2>1, <3>1, FitsBothWays
  <2>4. CASE a # s /\ b # s
    <3>1. Active(a) /\ Active(b) /\ Fits(a, slot[a])
      BY <1>1, <1>2, <2>4 DEF Active, SlotsAreDisjoint
    <3>. QED  BY <1>1, <1>2, <2>1, <3>1 DEF Fits
  <2>. QED  BY <2>2, <2>3, <2>4
<1>. QED  BY <1>2 DEF SlotsAreDisjoint, Fits, Active

\* A booking that only begins, or fails, has no place yet.
LEMMA InactiveKeepsApart ==
  ASSUME Typed, SlotsAreDisjoint, NEW s \in Slots, NEW booking, booking.status \notin ActiveSlot,
         slot' = [slot EXCEPT ![s] = booking]
  PROVE  SlotsAreDisjoint'
<1>1. \A o \in Slots : slot'[o].status \in ActiveSlot =>
        slot'[o] = slot[o] /\ slot[o].status \in ActiveSlot
  BY DEF Typed
<1>. QED  BY <1>1 DEF SlotsAreDisjoint, Fits, Active

LEMMA StaysApart ==
  ASSUME SlotsAreDisjoint, UNCHANGED slot
  PROVE  SlotsAreDisjoint'
  BY DEF SlotsAreDisjoint, Fits, Active

LEMMA StepKeepsApart ==
  ASSUME Orderly, SlotsAreDisjoint, Next
  PROVE  SlotsAreDisjoint'
<1>1. ASSUME NEW r \in Requests, SlotConfirm(r) PROVE SlotsAreDisjoint'
  <2>1. req[r].s \in Slots
    BY <1>1 DEF Orderly, Works, Knows, SlotKinds, SlotConfirm, Held
  <2>. QED  BY <1>1, <2>1, TurnKeepsApart DEF SlotConfirm, Orderly
<1>2. ASSUME NEW r \in Requests, SlotCancel(r) PROVE SlotsAreDisjoint'
  <2>1. req[r].s \in Slots /\ "CANCELLED" \notin ActiveSlot
    BY <1>2 DEF Orderly, Works, Knows, SlotKinds, SlotCancel, Held, ActiveSlot
  <2>. QED  BY <1>2, <2>1, TurnKeepsApart DEF SlotCancel, Orderly
<1>3. ASSUME NEW s \in Slots, BookSlot(s) PROVE SlotsAreDisjoint'
  <2>1. CASE SlotCommit(s)
    BY <2>1, TurnKeepsApart DEF SlotCommit, Orderly
  <2>2. ASSUME slot' = [slot EXCEPT ![s] = NoBooking] PROVE SlotsAreDisjoint'
    BY <2>2, InactiveKeepsApart DEF Orderly, NoBooking, Booking, ActiveSlot
  <2>3. ASSUME NEW d, NEW v, NEW driver, NEW bay, NEW window, SlotRead(s, d, v, driver, bay, window)
        PROVE  SlotsAreDisjoint'
    BY <2>3, InactiveKeepsApart DEF Orderly, SlotRead, Booking, ActiveSlot
  <2>. QED  BY <1>3, <2>1, <2>2, <2>3 DEF BookSlot, SlotFail
<1>4. ASSUME NEW r \in Requests, Read(r) PROVE UNCHANGED slot
  BY <1>4 DEF Read, CreateRead, DeliverRead, AssignRead, StartLoading, CompleteLoading,
     MarkReady, Cancel, MoveRead, TrackRead, BillRead, ExecuteRead, ConfirmRead, ExceptionRead,
     ResolveRead, SlotAnswerRead, Hold
<1>5. ASSUME NEW r \in Requests, Commit(r), ~SlotConfirm(r), ~SlotCancel(r) PROVE UNCHANGED slot
  BY <1>5 DEF Commit, CreateCommit, CreateFail, AssignCommit, MoveCommit, BillWrite, ExecuteBegin,
     ExecuteFail, ExecuteCommit, TrackCommit, DeliverBegin, DeliverCommit, ConfirmCommit,
     ConfirmFail, ExceptionCommit, ResolveCommit, SlotConfirmFail, Fail
<1>6. ASSUME \/ \E d \in Dispatches : Validate(d) \/ CancelBill(d) \/ BillLapses(d)
             \/ \E v \in Vehicles, status \in VehicleStatus : SetVehicle(v, status)
             \/ UNCHANGED slot
      PROVE  UNCHANGED slot
  BY <1>6 DEF Validate, CancelBill, BillLapses, BillSet, SetVehicle
<1>7. \/ \E r \in Requests : Read(r) \/ (Commit(r) /\ ~SlotConfirm(r) /\ ~SlotCancel(r))
      \/ \E r \in Requests : SlotConfirm(r) \/ SlotCancel(r)
      \/ \E s \in Slots : BookSlot(s)
      \/ \E d \in Dispatches : Validate(d) \/ CancelBill(d) \/ BillLapses(d)
      \/ \E v \in Vehicles, status \in VehicleStatus : SetVehicle(v, status)
      \/ UNCHANGED slot
  BY DEF Next
<1>. QED  BY <1>1, <1>2, <1>3, <1>4, <1>5, <1>6, <1>7, StaysApart

-----------------------------------------------------------------------------
(* One request at a time: what it holds of its reads is still so, and the   *)
(* rows that different services write tell one story.                       *)

OneRequest == (\A r, q \in Requests : r = q) /\ Slots = {}

Tale(d) ==
  /\ ship[d] # "NONE" <=> disp[d].status = "DISPATCHED"
  /\ ship[d] # "NONE" <=> dely[d] # "NONE"
  /\ dely[d] = "CONFIRMED" <=> ship[d] = "DELIVERY_CONFIRMED"
  /\ dely[d] \in {"PARTIAL", "DELIVERED"} => ship[d] = "DELIVERED"
  /\ dely[d] = "EXCEPTION" => ship[d] = "EXCEPTION"
  /\ dely[d] = "OUT_FOR_DELIVERY" => ship[d] \in {"OUT_FOR_DELIVERY", "DELIVERED"}

\* What the rows of dispatch d still say when request r comes to write them.
Fresh(r, d) ==
  /\ req[r].kind \in Moves \cup {"ASSIGN"} => disp[d].status # "DISPATCHED"
  /\ req[r].kind = "BILL" => disp[d].status = req[r].was
  /\ req[r].kind = "EXECUTE" => ship[d] = "NONE" /\ (req[r].at = "inside" => req[r].n = po.dispatched)
  /\ req[r].kind = "TRACK" =>
       \/ ship[d] = "DISPATCHED" /\ req[r].was = "IN_TRANSIT"
       \/ ship[d] = "IN_TRANSIT" /\ req[r].was = "OUT_FOR_DELIVERY"
       \/ ship[d] = "OUT_FOR_DELIVERY" /\ req[r].was \in {"OUT_FOR_DELIVERY", "DELIVERED"}
  /\ req[r].kind \in {"DELIVER", "CONFIRM", "EXCEPTION"} => ship[d] # "NONE"
  /\ req[r].kind = "RESOLVE" => dely[d] = "EXCEPTION"

Story ==
  /\ \A d \in Dispatches : Tale(d)
  /\ \A r \in Requests : req[r].at # "idle" => Fresh(r, req[r].d)
  /\ po.dispatched = Carried(Shipped)

\* A step that ships nothing new reports nothing new.
LEMMA SameReport ==
  ASSUME LogisticsConstants, Orderly, Orderly', po.dispatched = Carried(Shipped),
         po'.dispatched = po.dispatched, Shipped' = Shipped,
         \A d \in Dispatches : ship[d] # "NONE" => disp'[d].qty = disp[d].qty
  PROVE  (po.dispatched = Carried(Shipped))'
<1>1. Shipped \in SUBSET Dispatches
  BY DEF Shipped
<1>2. Carried(Shipped)' = SumFunctionOnSet([d \in Dispatches |-> disp'[d].qty], Shipped')
  BY DEF Carried
<1>3. Carried(Shipped) = SumFunctionOnSet([d \in Dispatches |-> disp'[d].qty], Shipped)
  BY <1>1, CarriedNext DEF Orderly, Shipped
<1>. QED  BY <1>2, <1>3

\* A read holds what it has read.
LEMMA ReadTells ==
  ASSUME LogisticsConstants, OneRequest, Orderly, Story, NEW r \in Requests, Read(r)
  PROVE  Story'
<1>1. ASSUME NEW kind, NEW d \in Dispatches, NEW was, NEW v, NEW n, Hold(r, kind, d, was, v, n),
             \/ kind \in Moves \cup {"ASSIGN"} /\ disp[d].status # "DISPATCHED"
             \/ kind = "BILL" /\ disp[d].status = was
             \/ kind = "EXECUTE" /\ ship[d] = "NONE"
             \/ /\ kind = "TRACK"
                /\ \/ ship[d] = "DISPATCHED" /\ was = "IN_TRANSIT"
                   \/ ship[d] = "IN_TRANSIT" /\ was = "OUT_FOR_DELIVERY"
                   \/ ship[d] = "OUT_FOR_DELIVERY" /\ was \in {"OUT_FOR_DELIVERY", "DELIVERED"}
             \/ kind \in {"DELIVER", "CONFIRM", "EXCEPTION"} /\ ship[d] # "NONE"
             \/ kind = "RESOLVE" /\ dely[d] = "EXCEPTION"
             \/ kind = "CREATE"
      PROVE  Story'
  <2>1. UNCHANGED orderVars /\ req' = [req EXCEPT ![r] = Request("held", kind, d, NoSlot, was, v, n)]
    BY <1>1 DEF Hold
  <2>2. \A q \in Requests : q = r
    BY DEF OneRequest
  <2>3. Fresh(r, d)'
    BY <1>1, <2>1 DEF Orderly, Typed, Request, Fresh, orderVars, Moves
  <2>4. \A q \in Requests : req'[q].d = d
    BY <2>1, <2>2 DEF Orderly, Typed, Request
  <2>5. (\A e \in Dispatches : Tale(e))' /\ (po.dispatched = Carried(Shipped))'
    BY <2>1 DEF Story, Tale, Carried, Shipped, orderVars
  <2>. QED  BY <2>2, <2>3, <2>4, <2>5 DEF Story
<1>2. \A s \in Slots : FALSE
  BY DEF OneRequest
<1>3. \A d \in Dispatches : Tale(d)
  BY DEF Story
<1>4. ASSUME NEW d \in Dispatches, NEW n, CreateRead(r, d, n) PROVE Story'
  BY <1>1, <1>4 DEF CreateRead
<1>5. ASSUME NEW d \in Dispatches, NEW n, DeliverRead(r, d, n) PROVE Story'
  BY <1>1, <1>5 DEF DeliverRead
<1>6. ASSUME NEW d \in Dispatches, NEW v, AssignRead(r, d, v) PROVE Story'
  BY <1>1, <1>6 DEF AssignRead
<1>7. ASSUME NEW d \in Dispatches, NEW to \in Moves, MoveRead(r, d, to) PROVE Story'
  <2>1. disp[d].status # "DISPATCHED"
    BY <1>7 DEF MoveRead, MayMove, Moves
  <2>. QED  BY <1>1, <1>7, <2>1 DEF MoveRead
<1>8. ASSUME NEW d \in Dispatches, NEW to \in Tracking, TrackRead(r, d, to) PROVE Story'
  <2>. DEFINE fresh ==
         \/ ship[d] = "DISPATCHED" /\ to = "IN_TRANSIT"
         \/ ship[d] = "IN_TRANSIT" /\ to = "OUT_FOR_DELIVERY"
         \/ ship[d] = "OUT_FOR_DELIVERY" /\ to \in {"OUT_FOR_DELIVERY", "DELIVERED"}
  <2>1. fresh /\ Hold(r, "TRACK", d, to, NoVehicle, 0)
    BY <1>8 DEF TrackRead
  <2>. QED  BY <1>1, <2>1
<1>9. ASSUME NEW d \in Dispatches, BillRead(r, d) PROVE Story'
  BY <1>1, <1>9 DEF BillRead
<1>10. ASSUME NEW d \in Dispatches, ExecuteRead(r, d) PROVE Story'
  BY <1>1, <1>10 DEF ExecuteRead
<1>11. ASSUME NEW d \in Dispatches, ConfirmRead(r, d) PROVE Story'
  <2>1. ship[d] # "NONE"
    BY <1>3, <1>11 DEF Tale, ConfirmRead
  <2>. QED  BY <1>1, <1>11, <2>1 DEF ConfirmRead
<1>12. ASSUME NEW d \in Dispatches, ExceptionRead(r, d) PROVE Story'
  <2>1. ship[d] # "NONE"
    BY <1>3, <1>12 DEF Tale, ExceptionRead, MayDeliver
  <2>. QED  BY <1>1, <1>12, <2>1 DEF ExceptionRead
<1>13. ASSUME NEW d \in Dispatches, ResolveRead(r, d) PROVE Story'
  BY <1>1, <1>13 DEF ResolveRead
<1>. QED
  BY <1>2, <1>4, <1>5, <1>6, <1>7, <1>8, <1>9, <1>10, <1>11, <1>12, <1>13
  DEF Read, StartLoading, CompleteLoading, MarkReady, Cancel, Moves

\* The request ends, its dispatch with a tale of its own.
LEMMA EndTells ==
  ASSUME LogisticsConstants, OneRequest, Orderly, Orderly', Story, NEW r \in Requests, Done(r),
         NEW d \in Dispatches, Tale(d)', po'.dispatched = po.dispatched,
         \A e \in Dispatches \ {d} : disp'[e] = disp[e] /\ ship'[e] = ship[e] /\ dely'[e] = dely[e],
         ship'[d] # "NONE" <=> ship[d] # "NONE",
         ship[d] # "NONE" => disp'[d].qty = disp[d].qty
  PROVE  Story'
<1>1. \A q \in Requests : req'[q].at = "idle"
  BY DEF OneRequest, Orderly, Typed, Done, Idle, Request
<1>2. \A e \in Dispatches : Tale(e)'
  BY DEF Story, Tale
<1>3. Shipped' = Shipped
  BY DEF Shipped
<1>4. (po.dispatched = Carried(Shipped))'
  BY <1>3, SameReport DEF Story
<1>. QED  BY <1>1, <1>2, <1>4 DEF Story

LEMMA CommitTells ==
  ASSUME LogisticsConstants, OneRequest, Orderly, Orderly', Story, NEW r \in Requests,
         Commit(r), ~ExecuteBegin(r), ~ExecuteCommit(r), ~DeliverBegin(r),
         \A status \in {"VALID", "EXPIRED"} : ~BillWrite(r, status)
  PROVE  Story'
<1>0. PICK d : d = req[r].d
  OBVIOUS
<1>1. ASSUME Fail(r) PROVE Story'
  BY <1>0, <1>1 DEF OneRequest, Orderly, Typed, Story, Tale, Carried, Shipped, Fail, Done, Idle, Request,
     orderVars
<1>2. CreateFail(r) \/ ExecuteFail(r) \/ ConfirmFail(r) \/ SlotConfirmFail(r) => Fail(r)
  BY <1>0 DEF CreateFail, ExecuteFail, ConfirmFail, SlotConfirmFail
<1>3. ~SlotConfirm(r) /\ ~SlotCancel(r)
  BY <1>0 DEF OneRequest, Orderly, Works, Knows, SlotKinds, SlotConfirm, SlotCancel, Held
<1>4. req[r].at # "idle" /\ req[r].kind \notin SlotKinds => d \in Dispatches /\ Tale(d) /\ Fresh(r, d)
  BY <1>0 DEF Orderly, Works, Knows, Story
<1>5. ASSUME CreateCommit(r) PROVE Story'
  <2>1. d \in Dispatches /\ Tale(d)
    BY <1>0, <1>4, <1>5 DEF CreateCommit, Held, SlotKinds
  <2>2. Tale(d)' /\ po'.dispatched = po.dispatched /\ ship' = ship /\ ship[d] = "NONE" /\ Done(r)
    BY <1>0, <1>5, <2>1 DEF CreateCommit, Tale, Orderly, Typed, Row, Order
  <2>3. \A e \in Dispatches \ {d} : disp'[e] = disp[e] /\ ship'[e] = ship[e] /\ dely'[e] = dely[e]
    BY <1>0, <1>5 DEF CreateCommit, Orderly, Typed
  <2>. QED  BY <1>0, <2>1, <2>2, <2>3, EndTells
<1>6. ASSUME AssignCommit(r) \/ MoveCommit(r) PROVE Story'
  <2>1. d \in Dispatches /\ Tale(d) /\ Fresh(r, d)
    BY <1>0, <1>4, <1>6 DEF AssignCommit, MoveCommit, Held, SlotKinds, Moves
  <2>2. PICK status \in Moves \cup {"AWAITING_EWAY_BILL"}, v \in Vehicles \cup {NoVehicle} :
          disp' = [disp EXCEPT ![d] = Row(status, @.qty, v)]
    BY <1>0, <1>6, <2>1 DEF AssignCommit, MoveCommit, Orderly, Typed
  <2>3. UNCHANGED <<po, ship, dely>> /\ Done(r) /\ disp[d].status # "DISPATCHED"
    BY <1>0, <1>6, <2>1 DEF AssignCommit, MoveCommit, Fresh, Held
  <2>4. Tale(d)' /\ disp'[d].qty = disp[d].qty
    BY <1>0, <2>1, <2>2, <2>3 DEF Tale, Moves, Orderly, Typed, Row
  <2>5. \A e \in Dispatches \ {d} : disp'[e] = disp[e] /\ ship'[e] = ship[e] /\ dely'[e] = dely[e]
    BY <1>0, <2>2, <2>3 DEF Orderly, Typed
  <2>. QED  BY <1>0, <2>1, <2>3, <2>4, <2>5, EndTells
<1>7. ASSUME TrackCommit(r) PROVE Story'
  <2>1. d \in Dispatches /\ Tale(d) /\ Fresh(r, d) /\ req[r].was \in Tracking
    BY <1>0, <1>4, <1>7 DEF TrackCommit, Held, SlotKinds, Orderly, Works, Knows
  <2>2. UNCHANGED <<po, disp>> /\ Done(r)
    BY <1>0, <1>7 DEF TrackCommit
  <2>3. Tale(d)' /\ ship[d] # "NONE" /\ ship'[d] # "NONE"
    BY <1>0, <1>7, <2>1 DEF TrackCommit, Held, Tale, Fresh, Tracking, Orderly, Typed
  <2>4. \A e \in Dispatches \ {d} : disp'[e] = disp[e] /\ ship'[e] = ship[e] /\ dely'[e] = dely[e]
    BY <1>0, <1>7 DEF TrackCommit, Orderly, Typed
  <2>. QED  BY <1>0, <2>1, <2>2, <2>3, <2>4, EndTells
<1>8. ASSUME DeliverCommit(r) \/ ConfirmCommit(r) \/ ExceptionCommit(r) \/ ResolveCommit(r)
      PROVE  Story'
  <2>1. d \in Dispatches /\ Tale(d) /\ Fresh(r, d)
        /\ (req[r].kind = "DELIVER" => req[r].was \in {"PARTIAL", "DELIVERED"})
    BY <1>0, <1>4, <1>8 DEF DeliverCommit, ConfirmCommit, ExceptionCommit, ResolveCommit, Held, Inside,
       SlotKinds, Orderly, Works, Knows
  <2>2. disp' = disp /\ po'.dispatched = po.dispatched /\ Done(r)
    BY <1>0, <1>8 DEF DeliverCommit, ConfirmCommit, ExceptionCommit, ResolveCommit, Order
  <2>3. Tale(d)' /\ ship[d] # "NONE" /\ ship'[d] # "NONE"
    BY <1>0, <1>8, <2>1 DEF DeliverCommit, ConfirmCommit, ExceptionCommit, ResolveCommit, Held, Inside,
       Tale, Fresh, Orderly, Typed
  <2>4. \A e \in Dispatches \ {d} : disp'[e] = disp[e] /\ ship'[e] = ship[e] /\ dely'[e] = dely[e]
    BY <1>0, <1>8 DEF DeliverCommit, ConfirmCommit, ExceptionCommit, ResolveCommit, Orderly, Typed
  <2>. QED  BY <1>0, <2>1, <2>2, <2>3, <2>4, EndTells
<1>. QED  BY <1>0, <1>1, <1>2, <1>3, <1>5, <1>6, <1>7, <1>8 DEF Commit

\* The transactions that go on, and the bill that is written before its
\* dispatch.
LEMMA GoOnTells ==
  ASSUME LogisticsConstants, OneRequest, Orderly, Orderly', Story, NEW r \in Requests,
         \/ ExecuteBegin(r) \/ DeliverBegin(r)
         \/ \E status \in {"VALID", "EXPIRED"} : BillWrite(r, status)
  PROVE  Story'
<1> DEFINE d == req[r].d
<1>1. UNCHANGED <<po, disp, ship, dely>>
  BY DEF ExecuteBegin, DeliverBegin, BillWrite, orderVars
<1>2. (\A e \in Dispatches : Tale(e))' /\ (po.dispatched = Carried(Shipped))'
  BY <1>1 DEF Story, Tale, Carried, Shipped
<1>3. \A q \in Requests : q = r
  BY DEF OneRequest
<1>4. d \in Dispatches /\ Fresh(r, d) /\ req[r].at = "held"
  BY DEF ExecuteBegin, DeliverBegin, BillWrite, Held, SlotKinds, Orderly, Works, Knows, Story
<1>5. CASE ExecuteBegin(r) \/ DeliverBegin(r)
  <2>1. req'[r].d = d /\ Fresh(r, d)'
    BY <1>1, <1>4, <1>5 DEF ExecuteBegin, DeliverBegin, Held, Enter, Request, Fresh, Moves, Orderly, Typed
  <2>. QED  BY <1>2, <1>3, <2>1 DEF Story
<1>6. CASE \E status \in {"VALID", "EXPIRED"} : BillWrite(r, status)
  <2>1. req'[r].at = "idle" \/ (req'[r].d = d /\ Fresh(r, d)')
    BY <1>1, <1>4, <1>6 DEF BillWrite, Held, Request, Idle, Fresh, Moves, Orderly, Typed
  <2>. QED  BY <1>2, <1>3, <2>1 DEF Story
<1>. QED  BY <1>5, <1>6

LEMMA ExecutionTells ==
  ASSUME LogisticsConstants, OneRequest, Orderly, Orderly', Story, NEW r \in Requests,
         ExecuteCommit(r)
  PROVE  Story'
<1>0. PICK d : d = req[r].d
  OBVIOUS
<1>1. d \in Dispatches /\ Tale(d) /\ req[r].n = po.dispatched
  BY <1>0 DEF ExecuteCommit, Inside, SlotKinds, Orderly, Works, Knows, Story, Fresh
<1>2. \A q \in Requests : req'[q].at = "idle"
  BY <1>0 DEF OneRequest, Orderly, Typed, ExecuteCommit, Done, Idle, Request
<1>3. Tale(d)'
  BY <1>0, <1>1 DEF ExecuteCommit, Tale, Orderly, Typed, Row
<1>4. \A e \in Dispatches \ {d} : disp'[e] = disp[e] /\ ship'[e] = ship[e] /\ dely'[e] = dely[e]
  BY <1>0 DEF ExecuteCommit, Orderly, Typed
<1>5. \A e \in Dispatches : Tale(e)'
  BY <1>0, <1>3, <1>4 DEF Story, Tale
<1>6. po'.dispatched = po.dispatched + disp[d].qty
  BY <1>0, <1>1 DEF ExecuteCommit, Order
<1>7. (po.dispatched = Carried(Shipped))'
  BY <1>0, <1>6, ExecutionShips DEF Story
<1>. QED  BY <1>0, <1>2, <1>5, <1>7 DEF Story

LEMMA StepTells ==
  ASSUME LogisticsConstants, OneRequest, Orderly, Orderly', Story, [Next]_vars
  PROVE  Story'
<1>1. ASSUME UNCHANGED <<po, disp, ship, dely, req>> PROVE Story'
  BY <1>1 DEF Story, Tale, Fresh, Carried, Shipped
<1>2. ASSUME NEW r \in Requests, Commit(r) PROVE Story'
  BY <1>2, CommitTells, GoOnTells, ExecutionTells
<1>3. \A s \in Slots : FALSE
  BY DEF OneRequest
<1>. QED
  BY <1>1, <1>2, <1>3, ReadTells DEF Next, vars, orderVars, Validate, CancelBill, BillLapses, BillSet,
     SetVehicle

-----------------------------------------------------------------------------
(* The theorems *)

IInv == Orderly /\ StockInv /\ Counted /\ SlotsAreDisjoint

LEMMA InitInv ==
  ASSUME LogisticsConstants, Init
  PROVE  IInv
<1>1. Orderly /\ StockInv
  BY Starts, StockStarts DEF Init
<1>2. Shipped = {} /\ Created = {} /\ po.dispatched = 0
  BY DEF Init, Shipped, Created, Order, Row
<1>3. Carried({}) = 0
  BY SumOfNone DEF Carried
<1>4. Rows # {} => Sold = 0
  <2> DEFINE sold == [i \in Rows |-> moved[i].sold]
  <2>1. \A i \in Rows : sold[i] = 0 /\ sold[i] = sold[i] + sold[i]
    BY DEF Init, InventoryInit, Movement
  <2>2. IsFiniteSet(Rows)
    BY DEF LogisticsConstants
  <2>3. SumFunctionOnSet(sold, Rows) = SumFunctionOnSet(sold, Rows) + SumFunctionOnSet(sold, Rows)
    <3> HIDE DEF sold
    <3>. QED  BY <2>1, <2>2, SumOfSums
  <2>4. SumFunctionOnSet(sold, Rows) \in Int
    <3> HIDE DEF sold
    <3>. QED  BY <2>1, <2>2, SumIsInt
  <2> HIDE DEF sold
  <2>5. \A x \in Int : x = x + x => x = 0
    OBVIOUS
  <2>6. SumFunctionOnSet(sold, Rows) = 0
    BY <2>3, <2>4, <2>5, Zenon
  <2>. QED  BY <2>6 DEF Sold, sold
<1>5. Counted
  <2>1. StockFollowsDispatches
    BY <1>2, <1>3, <1>4, Zenon DEF StockFollowsDispatches, Sold, Created
  <2>2. DispatchedIsShipped
    BY <1>2, <1>3 DEF DispatchedIsShipped
  <2>3. \A r \in Requests : req[r].at # "inside"
    BY DEF Init, Request, Idle
  <2>. QED  BY <2>1, <2>2, <2>3 DEF Counted
<1>6. SlotsAreDisjoint
  BY DEF Init, SlotsAreDisjoint, Active, NoBooking, Booking, ActiveSlot
<1>. QED  BY <1>1, <1>5, <1>6 DEF IInv

LEMMA UnchangedStock ==
  ASSUME StockInv, UNCHANGED stockVars
  PROVE  StockInv'
  BY DEF StockInv, StockTyped, LockedReads, StockLedgered, stockVars

\* The stock moves with its own pages, or with a dispatch that is created.
LEMMA WhoMovesStock ==
  ASSUME Orderly, Next
  PROVE  \/ UNCHANGED stockVars
         \/ InventoryNext
         \/ \E n \in Nat : Deduct(n)
<1>1. ASSUME NEW r \in Requests, CreateCommit(r) PROVE \E n \in Nat : Deduct(n)
  BY <1>1 DEF CreateCommit, Orderly, Typed
<1>2. ASSUME NEW r \in Requests, Read(r) PROVE UNCHANGED stockVars
  BY <1>2 DEF Read, CreateRead, DeliverRead, AssignRead, StartLoading, CompleteLoading,
     MarkReady, Cancel, MoveRead, TrackRead, BillRead, ExecuteRead, ConfirmRead, ExceptionRead,
     ResolveRead, SlotAnswerRead, Hold
<1>3. ASSUME NEW r \in Requests, Commit(r), ~CreateCommit(r) PROVE UNCHANGED stockVars
  BY <1>3 DEF Commit, CreateFail, AssignCommit, MoveCommit, BillWrite, ExecuteBegin,
     ExecuteFail, ExecuteCommit, TrackCommit, DeliverBegin, DeliverCommit, ConfirmCommit,
     ConfirmFail, ExceptionCommit, ResolveCommit, SlotConfirm, SlotConfirmFail, SlotCancel, Fail
<1>4. ASSUME \/ \E d \in Dispatches : Validate(d) \/ CancelBill(d) \/ BillLapses(d)
             \/ \E v \in Vehicles, status \in VehicleStatus : SetVehicle(v, status)
             \/ \E s \in Slots : BookSlot(s)
      PROVE  UNCHANGED stockVars
  BY <1>4 DEF Validate, CancelBill, BillLapses, BillSet, SetVehicle, BookSlot, SlotRead, SlotCommit,
     SlotFail
<1>. QED  BY <1>1, <1>2, <1>3, <1>4 DEF Next

LEMMA StepKeepsStock ==
  ASSUME LogisticsConstants, Orderly, StockInv, Next
  PROVE  StockInv'
BY WhoMovesStock, UnchangedStock, StockStepKeeps, DeductKeeps

LEMMA StepCounts ==
  ASSUME LogisticsConstants, Orderly, Orderly', StockInv, Counted, Next
  PROVE  Counted'
<1>1. ASSUME NEW r \in Requests, Commit(r), ~CreateCommit(r), ~ExecuteBegin(r), ~ExecuteCommit(r)
      PROVE  Quiet
  <2>1. CreateFail(r) \/ ExecuteFail(r) \/ ConfirmFail(r) \/ SlotConfirmFail(r) => Fail(r)
    BY DEF CreateFail, ExecuteFail, ConfirmFail, SlotConfirmFail
  <2>. QED
    BY <1>1, <2>1, FailIsQuiet, AssignIsQuiet, MoveIsQuiet, BillIsQuiet, TrackIsQuiet,
       DeliverIsQuiet, DeliveryIsQuiet, AnswerIsQuiet DEF Commit
<1>2. Quiet => Counted'
  BY QuietCounts DEF Orderly
<1>3. StockTyped
  BY DEF StockInv
<1>. QED
  BY <1>1, <1>2, <1>3, ReadIsQuiet, OthersAreQuiet, BookingIsQuiet, StockIsQuiet, CreateCounts,
     ExecuteBeginCounts, ExecuteCommitCounts DEF Next

LEMMA StepInv ==
  ASSUME LogisticsConstants, IInv, [Next]_vars
  PROVE  IInv'
<1>1. CASE Next
  BY <1>1, StepKeeps, StepKeepsStock, StepCounts, StepKeepsApart DEF IInv
<1>2. CASE UNCHANGED vars
  <2>1. Orderly' /\ StockInv' /\ SlotsAreDisjoint'
    BY <1>2, UnchangedKeeps, UnchangedStock, StaysApart DEF IInv, vars, orderVars, stockVars
  <2>2. Quiet
    BY <1>2 DEF Quiet, vars
  <2>3. Counted'
    BY <2>1, <2>2, QuietCounts DEF IInv, Orderly
  <2>. QED  BY <2>1, <2>3 DEF IInv
<1>. QED  BY <1>1, <1>2

LEMMA InvAlways ==
  ASSUME LogisticsConstants
  PROVE  Spec => []IInv
<1>1. Init => IInv
  BY InitInv
<1>2. IInv /\ [Next]_vars => IInv'
  BY StepInv
<1>. QED  BY <1>1, <1>2, PTL DEF Spec

\* Every row and every request of the logistics is well typed, and a request
\* in progress, a slot being booked and a shipment are of a dispatch that was
\* created; transactions inside never share a dispatch (dispatches.service.ts,
\* vehicle-slots.service.ts, deliveries.service.ts).
THEOREM LogisticsOrderly ==
  ASSUME LogisticsConstants
  PROVE  Spec => []Orderly
<1>1. IInv => Orderly
  BY DEF IInv
<1>. QED  BY <1>1, InvAlways, PTL

\* However many pages of the seller and dispatches work on the rows at once, a
\* row sold what its dispatches took, holds back what was reserved, and has
\* the rest available, unless a form overwrote it or an adjustment stored a
\* stale sum (inventory.service.ts; dispatches.service.ts,
\* applyInventoryDispatch).
THEOREM StockIsLedgered ==
  ASSUME LogisticsConstants
  PROVE  Spec => []StockLedgered
<1>1. IInv => StockLedgered
  BY DEF IInv, StockInv
<1>. QED  BY <1>1, InvAlways, PTL

\* The stock that left any number of rows is that of the dispatches made for
\* the order, whatever creations race or are repeated.
THEOREM StockIsDispatched ==
  ASSUME LogisticsConstants
  PROVE  Spec => []StockFollowsDispatches
<1>1. IInv => StockFollowsDispatches
  BY DEF IInv, Counted
<1>. QED  BY <1>1, InvAlways, PTL

\* Racing executions of any number of dispatches never report more as
\* dispatched than their shipments carry.
THEOREM DispatchedIsCarried ==
  ASSUME LogisticsConstants
  PROVE  Spec => []DispatchedIsShipped
<1>1. IInv => DispatchedIsShipped
  BY DEF IInv, Counted
<1>. QED  BY <1>1, InvAlways, PTL

\* No bay and no vehicle has two active slots in one window, for any number of
\* slots, bays, windows and racing answers (vehicle-slots.service.ts and the
\* unique indexes of its migration).
THEOREM SlotsStayApart ==
  ASSUME LogisticsConstants
  PROVE  Spec => []SlotsAreDisjoint
<1>1. IInv => SlotsAreDisjoint
  BY DEF IInv
<1>. QED  BY <1>1, InvAlways, PTL

\* When one request of the order runs at a time, and no loading slot is being
\* booked beside it, dispatch, shipment, delivery and order, which four
\* services write, tell the same story for any number of dispatches.
THEOREM StoriesAgree ==
  ASSUME LogisticsConstants, OneRequest
  PROVE  Spec => []OneStory
<1>1. Init => Story
  <2> SUFFICES ASSUME Init PROVE Story
    OBVIOUS
  <2>1. Shipped = {} /\ po.dispatched = 0
    BY DEF Init, Shipped, Order
  <2>2. Carried({}) = 0
    BY SumOfNone DEF Carried
  <2>3. \A d \in Dispatches : Tale(d)
    BY DEF Init, Tale, Row
  <2>4. \A r \in Requests : req[r].at = "idle"
    BY DEF Init, Request, Idle
  <2>. QED  BY <2>1, <2>2, <2>3, <2>4 DEF Story
<1>2. IInv /\ IInv' /\ Story /\ [Next]_vars => Story'
  BY StepTells DEF IInv
<1>3. Story => OneStory
  BY DEF Story, Tale, OneStory
<1>. QED  BY <1>1, <1>2, <1>3, InvAlways, PTL DEF Spec

-----------------------------------------------------------------------------
(* The types, with the bounds of the model.                                 *)

\* A page moves a row by no more than the bound of what a row holds.
SmallMoves == \A k \in Keepers : keep[k].by \in Quantity

LEMMA StepKeepsMoves ==
  ASSUME MaxStock \in Nat, Amounts \subseteq 0 .. MaxStock, Orderly, StockTyped, SmallMoves, [Next]_vars
  PROVE  SmallMoves'
<1>1. ASSUME UNCHANGED keep PROVE SmallMoves'
  BY <1>1 DEF SmallMoves
<1>2. ASSUME NEW k \in Keepers, NEW e, e.by \in Quantity, keep' = [keep EXCEPT ![k] = e]
      PROVE  SmallMoves'
  BY <1>2 DEF SmallMoves, StockTyped
<1>3. ASSUME NEW k \in Keepers, NEW i \in Rows, NEW by \in Quantity, BookRead(k, i, by) \/ AdjustRead(k, i, by)
      PROVE  SmallMoves'
  <2>1. \E e : e.by = by /\ keep' = [keep EXCEPT ![k] = e]
    BY <1>3 DEF BookRead, AdjustRead
  <2>. QED  BY <1>2, <2>1
<1>4. \A n \in Amounts : n \in Quantity /\ -n \in Quantity
  BY DEF Quantity
<1>5. ASSUME NEW k \in Keepers, BookWrite(k) \/ AdjustWrite(k) PROVE SmallMoves'
  <2>1. AtRest.by \in Quantity /\ keep' = [keep EXCEPT ![k] = AtRest]
    BY <1>5 DEF BookWrite, AdjustWrite, Rest, AtRest, Quantity
  <2>. QED  BY <1>2, <2>1
<1>6. ASSUME InventoryNext PROVE SmallMoves'
  <2>1. ASSUME NEW k \in Keepers, NEW i \in Rows, NEW n \in Amounts,
               Reserve(k, i, n) \/ Release(k, i, n) \/ AdjustRead(k, i, n) \/ AdjustRead(k, i, -n)
        PROVE  SmallMoves'
    BY <1>3, <1>4, <2>1 DEF Reserve, Release
  <2>2. ASSUME NEW i \in Rows, NEW n, SetQuantity(i, n) \/ \E m \in Amounts \cup {0} : SetListing(i, n, m)
        PROVE  SmallMoves'
    BY <1>1, <2>2 DEF SetQuantity, SetListing
  <2>. QED  BY <1>5, <1>6, <2>1, <2>2 DEF InventoryNext
<1>7. CASE Next
  BY <1>1, <1>6, <1>7, WhoMovesStock DEF Deduct, stockVars
<1>8. CASE UNCHANGED vars
  BY <1>1, <1>8 DEF vars
<1>. QED  BY <1>7, <1>8

\* The order, its dispatches, bills, shipments, deliveries, vehicles and slots
\* stay what their columns can hold, and so does the stock: no row's available,
\* reserved or sold quantity gets negative, whatever reads are stale when they
\* are written (inventory.service.ts, dispatches.service.ts).
THEOREM LogisticsIsTyped ==
  ASSUME LogisticsConstants, MaxStock \in Nat, Amounts \subseteq 0 .. MaxStock
  PROVE  Spec => []TypeOK
<1>1. Init => SmallMoves
  BY DEF Init, InventoryInit, SmallMoves, AtRest, Quantity
<1>2. IInv /\ SmallMoves /\ [Next]_vars => SmallMoves'
  BY StepKeepsMoves DEF IInv, StockInv
<1>3. IInv /\ SmallMoves => TypeOK
  <2> SUFFICES ASSUME IInv, SmallMoves PROVE TypeOK
    OBVIOUS
  <2>1. StockTyped /\ Typed
    BY DEF IInv, StockInv, Orderly
  <2>2. ASSUME NEW k \in Keepers
        PROVE  keep[k] \in [at : {"idle", "book", "adjust"}, row : Rows \cup {NoStockRow},
                            by : Quantity, read : Nat, held : Nat]
    BY <2>1 DEF StockTyped, SmallMoves
  <2>3. InventoryTypeOK
    BY <2>1, <2>2 DEF StockTyped, InventoryTypeOK
  <2>4. \A s \in Slots : slot[s].status \in ActiveSlot \cup {"NONE", "booking", "CANCELLED"}
    BY <2>1 DEF Typed
  <2>5. \A r \in Requests : req[r].at \in {"idle", "held", "inside"} /\ req[r].kind \in AllKinds
    BY <2>1 DEF Typed
  <2>. QED  BY <2>1, <2>3, <2>4, <2>5 DEF Typed, TypeOK
<1>. QED  BY <1>1, <1>2, <1>3, InvAlways, PTL DEF Spec
=============================================================================
