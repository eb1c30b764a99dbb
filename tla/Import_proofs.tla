----------------------------- MODULE Import_proofs -----------------------------
(***************************************************************************)
(* Import trade, for any number of listings, negotiations, shipments and   *)
(* concurrent requests: what is shipped of a deal, and the deal that a     *)
(* negotiation ends in.                                                    *)
(***************************************************************************)
EXTENDS ImportShipments, SumLemmas, SequenceTheorems

CONSTANTS Sells, Buys, Negotiations, Primary, Counterpart, Opener, MaxRounds, Kinds,
          NoListing, NoNegotiation

VARIABLES listing, gone, neg

\* The negotiations, with a deal for each of them: `deal', `req' and
\* `Requests' stand here for those of ImportTrading.
Trade == INSTANCE ImportTrading

-----------------------------------------------------------------------------
(* Shipments: the lock of the deal keeps the sum a booking has read, and a  *)
(* shipment that still has the version a tracking event read has not        *)
(* reached a final status since.                                            *)

ShipRow == [status : ShipmentStatus \cup {"NONE"}, qty : Nat]
ShipRequest ==
  [at : {"idle", "booking", "tracking", "editing", "proving", "setting"},
   s : Shipments \cup {NoShipment}, to : ShipmentStatus \cup DealStatus,
   fresh : BOOLEAN, sum : Nat]

Final == {"DELIVERED", "CANCELLED"}

Knows(c) ==
  /\ c.at = "booking" => c.s \in Shipments /\ ship[c.s].status = "NONE" /\ c.sum = Allocated
  /\ c.at = "tracking" =>
       /\ c.s \in Shipments /\ ship[c.s].status # "NONE"
       /\ c.fresh => ship[c.s].status \notin Final
       /\ c.to \in ShipmentStatus
  /\ c.at = "proving" => c.to \in {"FULFILLED", "PARTIALLY_FULFILLED"}
  /\ c.at = "setting" => \/ c.to = "CANCELLED"
                         \/ c.to = "FULFILLED" /\ Delivered = Quantity
                         \/ c.to = "PARTIALLY_FULFILLED" /\ Delivered > 0

ShipTyped ==
  /\ deal \in DealStatus
  /\ ship \in [Shipments -> ShipRow]
  /\ req \in [Requests -> ShipRequest]

ShipInv ==
  /\ ShipTyped
  /\ \A r \in Requests : Knows(req[r])
  /\ \A r, q \in Requests : req[r].at = "booking" /\ req[q].at = "booking" => r = q
  /\ FulfilmentIsDelivered

\* What a row counts in a sum over the rows with a status.
Counts(row, statuses) == IF row.status \in statuses THEN row.qty ELSE 0
Weights(rows, statuses) == [s \in Shipments |-> Counts(rows[s], statuses)]

LEMMA SumsAreNat ==
  ASSUME ShipmentConstants, NEW rows \in [Shipments -> ShipRow], NEW statuses
  PROVE  SumOf(rows, statuses) \in Nat /\ SumOf(rows, statuses) = SumFunctionOnSet(Weights(rows, statuses), Shipments)
<1>1. SumOf(rows, statuses) = SumFunctionOnSet(Weights(rows, statuses), Shipments)
  BY DEF SumOf, Weights, Counts
<1>2. \A s \in Shipments : Weights(rows, statuses)[s] \in Nat
  BY DEF Weights, Counts, ShipRow
<1> HIDE DEF Weights
<1>3. SumFunctionOnSet(Weights(rows, statuses), Shipments) \in Nat
  <2>1. Shipments \in SUBSET Shipments /\ IsFiniteSet(Shipments)
    BY DEF ShipmentConstants
  <2>. QED  BY <1>2, <2>1, SumMonotonic
<1>. QED  BY <1>1, <1>3

\* A changed row changes a sum by what it counts.
LEMMA SumMoved ==
  ASSUME ShipmentConstants, NEW rows \in [Shipments -> ShipRow], NEW statuses,
         NEW s \in Shipments, NEW row \in ShipRow
  PROVE  SumOf([rows EXCEPT ![s] = row], statuses)
           = SumOf(rows, statuses) - Counts(rows[s], statuses) + Counts(row, statuses)
<1> DEFINE now == [rows EXCEPT ![s] = row]
           v == Weights(now, statuses)
           w == Weights(rows, statuses)
<1>1. now \in [Shipments -> ShipRow] /\ now[s] = row /\ \A x \in Shipments \ {s} : now[x] = rows[x]
  OBVIOUS
<1> HIDE DEF now
<1>2. \A x \in Shipments : v[x] \in Int /\ w[x] \in Int
  BY <1>1 DEF Weights, Counts, ShipRow
<1>3. v[s] = Counts(row, statuses) /\ w[s] = Counts(rows[s], statuses)
      /\ \A x \in Shipments \ {s} : v[x] = w[x]
  BY <1>1 DEF Weights
<1>4. SumOf(now, statuses) = SumFunctionOnSet(v, Shipments)
      /\ SumOf(rows, statuses) = SumFunctionOnSet(w, Shipments)
  BY <1>1, SumsAreNat
<1> HIDE DEF v, w
<1>5. IsFiniteSet(Shipments)
  BY DEF ShipmentConstants
<1>6. SumFunctionOnSet(v, Shipments) = SumFunctionOnSet(w, Shipments) - w[s] + v[s]
  BY <1>2, <1>3, <1>5, SumChange
<1>. QED  BY <1>3, <1>4, <1>6 DEF now

\* What was delivered was allocated.
LEMMA DeliveredIsAllocated ==
  ASSUME ShipmentConstants, NEW rows \in [Shipments -> ShipRow]
  PROVE  SumOf(rows, {"DELIVERED"}) <= SumOf(rows, ShipmentStatus \ {"CANCELLED"})
<1> DEFINE u == Weights(rows, ShipmentStatus \ {"CANCELLED"})
           v == Weights(rows, {"DELIVERED"})
           w == Weights(rows, ShipmentStatus \ {"CANCELLED", "DELIVERED"})
<1>1. \A x \in Shipments : v[x] \in Int /\ w[x] \in Int /\ u[x] = v[x] + w[x]
  BY DEF Weights, Counts, ShipRow, ShipmentStatus
<1>2. /\ SumOf(rows, ShipmentStatus \ {"CANCELLED"}) = SumFunctionOnSet(u, Shipments)
      /\ SumOf(rows, {"DELIVERED"}) = SumFunctionOnSet(v, Shipments)
      /\ SumFunctionOnSet(w, Shipments) \in Nat /\ SumFunctionOnSet(v, Shipments) \in Nat
  BY SumsAreNat
<1> HIDE DEF u, v, w
<1>3. IsFiniteSet(Shipments)
  BY DEF ShipmentConstants
<1>4. SumFunctionOnSet(u, Shipments) = SumFunctionOnSet(v, Shipments) + SumFunctionOnSet(w, Shipments)
  BY <1>1, <1>3, SumOfSums
<1>. QED  BY <1>2, <1>4

LEMMA ShipSums ==
  ASSUME ShipmentConstants, ShipTyped
  PROVE  Delivered \in Nat /\ Allocated \in Nat /\ Delivered <= Allocated /\ Quantity \in Nat
  BY SumsAreNat, DeliveredIsAllocated DEF Delivered, Allocated, ShipTyped, ShipmentConstants

LEMMA ShipIdle == Idle \in ShipRequest /\ Idle.at = "idle" /\ Knows(Idle)
  BY DEF Idle, Request, ShipRequest, ShipmentStatus, Knows

\* A request goes on, and the deal and its shipments stay.
LEMMA ShipReads ==
  ASSUME ShipInv, NEW r \in Requests, NEW c \in ShipRequest, Knows(c),
         c.at = "booking" => DealFree(r),
         UNCHANGED <<deal, ship>>, req' = [req EXCEPT ![r] = c]
  PROVE  ShipInv'
<1>1. Delivered' = Delivered /\ Allocated' = Allocated
  BY DEF Delivered, Allocated, SumOf
<1>2. FulfilmentIsDelivered'
  BY <1>1 DEF FulfilmentIsDelivered, ShipInv
<1>3. ShipTyped'
  BY DEF ShipInv, ShipTyped
<1>4. \A q \in Requests : req'[q] = IF q = r THEN c ELSE req[q]
  BY DEF ShipInv, ShipTyped
<1>5. \A q \in Requests : Knows(req[q])'
  BY <1>1, <1>4 DEF ShipInv, Knows
<1>6. \A p, q \in Requests : req'[p].at = "booking" /\ req'[q].at = "booking" => p = q
  BY <1>4 DEF ShipInv, DealFree
<1>. QED  BY <1>2, <1>3, <1>5, <1>6 DEF ShipInv

\* A booking finds the sum it has read, because it holds the deal.
LEMMA BookingKeeps ==
  ASSUME ShipmentConstants, ShipInv, NEW r \in Requests, NEW qty \in 1 .. Quantity,
         CreateCommit(r, qty)
  PROVE  ShipInv'
<1> DEFINE s == req[r].s
           row == Row("BOOKED", qty)
<1>1. /\ req[r].at = "booking" /\ qty <= Quantity - req[r].sum
      /\ ship' = [ship EXCEPT ![s] = row] /\ req' = [req EXCEPT ![r] = Idle] /\ deal' = deal
  BY DEF CreateCommit
<1>2. s \in Shipments /\ ship[s].status = "NONE" /\ req[r].sum = Allocated
  BY <1>1 DEF ShipInv, Knows
<1>3. row \in ShipRow /\ row.status = "BOOKED" /\ row.qty = qty /\ qty \in Nat
  BY DEF Row, ShipRow, ShipmentStatus, ShipmentConstants
<1>4. ShipTyped'
  <2>1. ship' \in [Shipments -> ShipRow]
    BY <1>1, <1>2, <1>3 DEF ShipInv, ShipTyped
  <2>. QED  BY <1>1, <2>1, ShipIdle DEF ShipInv, ShipTyped
<1>5. Delivered' = Delivered /\ Allocated' = Allocated + qty
  <2>1. /\ Counts(ship[s], {"DELIVERED"}) = 0 /\ Counts(ship[s], ShipmentStatus \ {"CANCELLED"}) = 0
        /\ Counts(row, {"DELIVERED"}) = 0 /\ Counts(row, ShipmentStatus \ {"CANCELLED"}) = qty
    BY <1>2, <1>3 DEF Counts, ShipmentStatus, Recoverable
  <2>2. ship \in [Shipments -> ShipRow]
    BY DEF ShipInv, ShipTyped
  <2>3. Delivered \in Nat /\ Allocated \in Nat
    BY ShipSums DEF ShipInv
  <2> HIDE DEF s, row
  <2>4. SumOf(ship', {"DELIVERED"}) = Delivered
    <3>1. SumOf(ship', {"DELIVERED"})
            = SumOf(ship, {"DELIVERED"}) - Counts(ship[s], {"DELIVERED"}) + Counts(row, {"DELIVERED"})
      BY <1>1, <1>2, <1>3, <2>2, SumMoved
    <3>. QED  BY <2>1, <2>3, <3>1 DEF Delivered
  <2>5. SumOf(ship', ShipmentStatus \ {"CANCELLED"}) = Allocated + qty
    <3>1. SumOf(ship', ShipmentStatus \ {"CANCELLED"})
            = SumOf(ship, ShipmentStatus \ {"CANCELLED"})
              - Counts(ship[s], ShipmentStatus \ {"CANCELLED"}) + Counts(row, ShipmentStatus \ {"CANCELLED"})
      BY <1>1, <1>2, <1>3, <2>2, SumMoved
    <3>. QED  BY <1>3, <2>1, <2>3, <3>1 DEF Allocated
  <2>. QED  BY <2>4, <2>5 DEF Delivered, Allocated
<1>6. FulfilmentIsDelivered'
  <2>1. Allocated + qty <= Quantity
    BY <1>1, <1>2, <1>3, ShipSums DEF ShipInv
  <2>. QED  BY <1>1, <1>5, <2>1 DEF ShipInv, FulfilmentIsDelivered
<1>7. \A q \in Requests : q # r => req'[q] = req[q] /\ req[q].at # "booking"
  BY <1>1 DEF ShipInv, ShipTyped
<1>8. req'[r] = Idle
  BY <1>1 DEF ShipInv, ShipTyped
<1>9. \A x \in Shipments : ship[x].status # "NONE" => ship'[x] = ship[x]
  BY <1>1, <1>2 DEF ShipInv, ShipTyped
<1>10. \A q \in Requests : Knows(req[q])'
  BY <1>5, <1>7, <1>8, <1>9, ShipIdle DEF ShipInv, Knows
<1>11. \A p, q \in Requests : req'[p].at = "booking" /\ req'[q].at = "booking" => p = q
  BY <1>7, <1>8, ShipIdle
<1>. QED  BY <1>4, <1>6, <1>10, <1>11 DEF ShipInv

\* DoneWith: one request ends, and the others may see their version gone.
LEMMA ShipDone ==
  ASSUME ShipTyped, NEW r \in Requests, NEW s, DoneWith(r, s)
  PROVE  /\ req' \in [Requests -> ShipRequest] /\ req'[r] = Idle
         /\ \A q \in Requests \ {r} :
              /\ req'[q].at = req[q].at /\ req'[q].s = req[q].s /\ req'[q].to = req[q].to
              /\ req'[q].sum = req[q].sum
              /\ req'[q].fresh <=> req[q].fresh /\ req[q].s # s
<1>1. ASSUME NEW q \in Requests \ {r}
      PROVE  /\ req'[q] \in ShipRequest
             /\ req'[q].at = req[q].at /\ req'[q].s = req[q].s /\ req'[q].to = req[q].to
             /\ req'[q].sum = req[q].sum
             /\ req'[q].fresh <=> req[q].fresh /\ req[q].s # s
  <2> DEFINE fresh == req[q].fresh /\ req[q].s # s
  <2>1. req'[q] = Request(req[q].at, req[q].s, req[q].to, fresh, req[q].sum)
    BY DEF DoneWith
  <2>2. req[q] \in ShipRequest /\ fresh \in BOOLEAN
    BY DEF ShipTyped
  <2>3. fresh <=> req[q].fresh /\ req[q].s # s
    OBVIOUS
  <2> HIDE DEF fresh
  <2>4. req'[q] \in ShipRequest /\ req'[q].fresh = fresh
    BY <2>1, <2>2 DEF Request, ShipRequest
  <2>. QED  BY <2>1, <2>3, <2>4 DEF Request
<1>2. req'[r] = Idle /\ DOMAIN req' = Requests /\ req' = [q \in Requests |-> req'[q]]
  BY DEF DoneWith
<1>3. \A q \in Requests : req'[q] \in ShipRequest
  BY <1>1, <1>2, ShipIdle
<1>. QED  BY <1>1, <1>2, <1>3

\* A tracking event moves a shipment that has not reached a final status, and
\* no booking is under way.
LEMMA TrackingKeeps ==
  ASSUME ShipmentConstants, ShipInv, NEW r \in Requests, EventCommit(r)
  PROVE  ShipInv'
<1> DEFINE s == req[r].s
           row == Row(req[r].to, ship[s].qty)
           now == [ship EXCEPT ![s] = row]
<1>1. /\ req[r].at = "tracking" /\ DealFree(r) /\ req[r].fresh
      /\ ship' = now /\ DoneWith(r, s)
      /\ deal' = IF req[r].to \in {"DELIVERED", "CANCELLED"}
                 THEN FulfilmentStatus(SumOf(now, {"DELIVERED"})) ELSE deal
  BY DEF EventCommit
<1>2. /\ s \in Shipments /\ ship[s].status # "NONE" /\ ship[s].status \notin Final
      /\ req[r].to \in ShipmentStatus /\ ship[s] \in ShipRow
      /\ ship \in [Shipments -> ShipRow]
  BY <1>1 DEF ShipInv, ShipTyped, Knows
<1>3. row \in ShipRow /\ row.status = req[r].to /\ row.qty = ship[s].qty
  BY <1>2 DEF Row, ShipRow
<1>4. now \in [Shipments -> ShipRow] /\ now[s] = row /\ \A x \in Shipments : x # s => now[x] = ship[x]
  BY <1>2, <1>3
<1>5. /\ Delivered' = Delivered + Counts(row, {"DELIVERED"})
      /\ Delivered' = SumOf(now, {"DELIVERED"})
      /\ Allocated' = Allocated - Counts(ship[s], ShipmentStatus \ {"CANCELLED"})
                        + Counts(row, ShipmentStatus \ {"CANCELLED"})
  <2>1. Counts(ship[s], {"DELIVERED"}) = 0
    BY <1>2 DEF Counts, Final
  <2>2. Delivered \in Nat
    BY ShipSums DEF ShipInv
  <2> HIDE DEF s, row
  <2>3. SumOf(now, {"DELIVERED"})
          = SumOf(ship, {"DELIVERED"}) - Counts(ship[s], {"DELIVERED"}) + Counts(row, {"DELIVERED"})
    BY <1>2, <1>3, SumMoved
  <2>4. SumOf(now, ShipmentStatus \ {"CANCELLED"})
          = SumOf(ship, ShipmentStatus \ {"CANCELLED"})
            - Counts(ship[s], ShipmentStatus \ {"CANCELLED"}) + Counts(row, ShipmentStatus \ {"CANCELLED"})
    BY <1>2, <1>3, SumMoved
  <2> HIDE DEF now
  <2>5. Delivered' = SumOf(now, {"DELIVERED"}) /\ Allocated' = SumOf(now, ShipmentStatus \ {"CANCELLED"})
    BY <1>1 DEF Delivered, Allocated
  <2>. QED  BY <2>1, <2>2, <2>3, <2>4, <2>5 DEF Delivered, Allocated
<1>6. /\ Counts(row, {"DELIVERED"}) \in Nat
      /\ Counts(row, ShipmentStatus \ {"CANCELLED"}) <= Counts(ship[s], ShipmentStatus \ {"CANCELLED"})
      /\ Counts(ship[s], ShipmentStatus \ {"CANCELLED"}) \in Nat
      /\ Counts(row, ShipmentStatus \ {"CANCELLED"}) \in Nat
  <2>1. ship[s].status \in ShipmentStatus \ {"CANCELLED"} /\ ship[s].qty \in Nat
    BY <1>2 DEF ShipRow, Final
  <2>. QED  BY <1>3, <2>1 DEF Counts
<1>7. /\ Delivered \in Nat /\ Allocated \in Nat /\ Quantity \in Nat /\ Allocated <= Quantity
      /\ Delivered' \in Nat /\ Allocated' \in Nat /\ Delivered <= Delivered'
      /\ Delivered' <= Allocated' /\ Allocated' <= Quantity
  <2>1. Delivered \in Nat /\ Allocated \in Nat /\ Quantity \in Nat /\ Allocated <= Quantity
    BY ShipSums DEF ShipInv, FulfilmentIsDelivered
  <2>2. SumOf(now, {"DELIVERED"}) \in Nat /\ SumOf(now, ShipmentStatus \ {"CANCELLED"}) \in Nat
        /\ SumOf(now, {"DELIVERED"}) <= SumOf(now, ShipmentStatus \ {"CANCELLED"})
    BY <1>4, SumsAreNat, DeliveredIsAllocated
  <2> HIDE DEF now
  <2>3. Delivered' = SumOf(now, {"DELIVERED"}) /\ Allocated' = SumOf(now, ShipmentStatus \ {"CANCELLED"})
    BY <1>1 DEF Delivered, Allocated
  <2> HIDE DEF s, row
  <2>. QED  BY <1>5, <1>6, <2>1, <2>2, <2>3
<1> HIDE DEF now, row, s
<1>8. deal' \in DealStatus /\ FulfilmentIsDelivered'
  <2>1. deal' = deal \/ deal' = FulfilmentStatus(Delivered')
    BY <1>1, <1>5
  <2>2. deal \in DealStatus /\ FulfilmentIsDelivered
    BY DEF ShipInv, ShipTyped
  <2>3. CASE deal' = deal
    BY <1>7, <2>2, <2>3 DEF FulfilmentIsDelivered
  <2>4. CASE deal' = FulfilmentStatus(Delivered') /\ deal' # deal
    BY <1>7, <2>2, <2>4 DEF FulfilmentIsDelivered, FulfilmentStatus, DealStatus
  <2>. QED  BY <2>1, <2>3, <2>4
<1>9. req' \in [Requests -> ShipRequest] /\ req'[r] = Idle
      /\ \A q \in Requests \ {r} :
           /\ req'[q].at = req[q].at /\ req'[q].s = req[q].s /\ req'[q].to = req[q].to
           /\ req'[q].sum = req[q].sum
           /\ req'[q].fresh <=> req[q].fresh /\ req[q].s # s
  BY <1>1, ShipDone DEF ShipInv
<1>10. \A q \in Requests : req'[q].at # "booking"
  BY <1>1, <1>9, ShipIdle DEF DealFree
<1>11. ASSUME NEW q \in Requests \ {r} PROVE Knows(req[q])'
  <2>1. Knows(req[q])
    BY DEF ShipInv
  <2>2. ASSUME req[q].at = "tracking"
        PROVE  /\ req[q].s \in Shipments /\ ship'[req[q].s].status # "NONE"
               /\ req'[q].fresh => ship'[req[q].s].status \notin Final
               /\ req[q].to \in ShipmentStatus
    <3>1. row.status # "NONE"
      BY <1>2, <1>3 DEF ShipmentStatus, Recoverable
    <3>2. req[q].s \in Shipments /\ ship[req[q].s].status # "NONE" /\ req[q].to \in ShipmentStatus
          /\ (req[q].fresh => ship[req[q].s].status \notin Final)
      BY <2>1, <2>2 DEF Knows
    <3>3. ship'[s] = row /\ \A x \in Shipments : x # s => ship'[x] = ship[x]
      BY <1>1, <1>4
    <3>. QED  BY <1>9, <3>1, <3>2, <3>3
  <2>3. req[q].at = "setting" => \/ req[q].to = "CANCELLED"
                                 \/ req[q].to = "FULFILLED" /\ Delivered' = Quantity
                                 \/ req[q].to = "PARTIALLY_FULFILLED" /\ Delivered' > 0
    BY <1>7, <2>1 DEF Knows
  <2>. QED  BY <1>9, <1>10, <2>1, <2>2, <2>3 DEF Knows
<1>12. Knows(req[r])'
  BY <1>9, ShipIdle DEF Knows
<1>13. ship' \in [Shipments -> ShipRow]
  BY <1>1, <1>4
<1>. QED  BY <1>8, <1>9, <1>10, <1>11, <1>12, <1>13 DEF ShipInv, ShipTyped

\* An update of details only takes the version from the others.
LEMMA DetailsKeep ==
  ASSUME ShipInv, NEW r \in Requests, DetailsCommit(r)
  PROVE  ShipInv'
<1>1. req' \in [Requests -> ShipRequest] /\ req'[r] = Idle
      /\ \A q \in Requests \ {r} :
           /\ req'[q].at = req[q].at /\ req'[q].s = req[q].s /\ req'[q].to = req[q].to
           /\ req'[q].sum = req[q].sum
           /\ req'[q].fresh => req[q].fresh
  BY ShipDone DEF ShipInv, DetailsCommit
<1>2. UNCHANGED <<deal, ship>> /\ Delivered' = Delivered /\ Allocated' = Allocated
  BY DEF DetailsCommit, Delivered, Allocated, SumOf
<1>3. FulfilmentIsDelivered'
  BY <1>2 DEF ShipInv, FulfilmentIsDelivered
<1>4. ASSUME NEW q \in Requests \ {r} PROVE Knows(req[q])'
  BY <1>1, <1>2 DEF ShipInv, Knows
<1>5. Knows(req[r])'
  BY <1>1, ShipIdle DEF Knows
<1>. QED  BY <1>1, <1>2, <1>3, <1>4, <1>5, ShipIdle DEF ShipInv, ShipTyped

\* The administrator's status is what the deliveries say: they only grow.
LEMMA SettingKeeps ==
  ASSUME ShipmentConstants, ShipInv, NEW r \in Requests, SetDealCommit(r)
  PROVE  ShipInv'
<1>1. /\ req[r].at = "setting" /\ deal' = req[r].to /\ ship' = ship
      /\ req' = [req EXCEPT ![r] = Idle]
  BY DEF SetDealCommit
<1>2. Delivered' = Delivered /\ Allocated' = Allocated
  BY <1>1 DEF Delivered, Allocated, SumOf
<1>3. deal' \in DealStatus /\ FulfilmentIsDelivered'
  BY <1>1, <1>2 DEF ShipInv, Knows, FulfilmentIsDelivered, DealStatus
<1>4. \A q \in Requests : req'[q] = IF q = r THEN Idle ELSE req[q]
  BY <1>1 DEF ShipInv, ShipTyped
<1>5. \A q \in Requests : Knows(req[q])'
  BY <1>1, <1>2, <1>4, ShipIdle DEF ShipInv, Knows
<1>. QED  BY <1>1, <1>3, <1>4, <1>5, ShipIdle DEF ShipInv, ShipTyped

LEMMA ShipStep ==
  ASSUME ShipmentConstants, ShipInv, [Next]_vars
  PROVE  ShipInv'
<1>1. ASSUME NEW r \in Requests, NEW s \in Shipments, CreateRead(r, s)
      PROVE  ShipInv'
  <2> DEFINE c == Request("booking", s, "BOOKED", TRUE, Allocated)
  <2>1. Allocated \in Nat
    BY ShipSums DEF ShipInv
  <2>2. c \in ShipRequest
    BY <2>1 DEF Request, ShipRequest, ShipmentStatus
  <2>3. Knows(c)
    BY <1>1 DEF CreateRead, Knows, Request
  <2>4. DealFree(r) /\ UNCHANGED <<deal, ship>> /\ req' = [req EXCEPT ![r] = c]
    BY <1>1 DEF CreateRead, Start
  <2> HIDE DEF c
  <2>. QED  BY <2>2, <2>3, <2>4, ShipReads
<1>2. ASSUME NEW r \in Requests, CreateRefused(r) \/ Conflict(r)
      PROVE  ShipInv'
  BY <1>2, ShipIdle, ShipReads DEF CreateRefused, Conflict
<1>3. ASSUME NEW r \in Requests, NEW s \in Shipments, NEW to \in ShipmentStatus, EventRead(r, s, to)
      PROVE  ShipInv'
  <2> DEFINE c == Request("tracking", s, to, TRUE, 0)
  <2>1. c \in ShipRequest /\ c.at = "tracking"
    BY DEF Request, ShipRequest
  <2>2. ship[s].status # "NONE" /\ ship[s].status \notin Final
    <3>1. ~Terminal(ship[s].status) /\ ship[s].status # "NONE"
      BY <1>3 DEF EventRead
    <3>. QED  BY <3>1 DEF Terminal, Transitions, Final, ShipmentStatus
  <2>3. Knows(c)
    BY <2>2 DEF Knows, Request
  <2>4. UNCHANGED <<deal, ship>> /\ req' = [req EXCEPT ![r] = c]
    BY <1>3 DEF EventRead, Start
  <2> HIDE DEF c
  <2>. QED  BY <2>1, <2>3, <2>4, ShipReads
<1>4. ASSUME NEW r \in Requests, NEW s \in Shipments, DetailsRead(r, s)
      PROVE  ShipInv'
  <2> DEFINE c == Request("editing", s, "BOOKED", TRUE, 0)
  <2>1. c \in ShipRequest /\ c.at = "editing"
    BY DEF Request, ShipRequest, ShipmentStatus
  <2>2. Knows(c)
    BY DEF Knows, Request
  <2>3. UNCHANGED <<deal, ship>> /\ req' = [req EXCEPT ![r] = c]
    BY <1>4 DEF DetailsRead, Start
  <2> HIDE DEF c
  <2>. QED  BY <2>1, <2>2, <2>3, ShipReads
<1>5. ASSUME NEW r \in Requests, NEW to \in DealStatus, SetDealRead(r, to)
      PROVE  ShipInv'
  <2> DEFINE at == IF to = "CANCELLED" THEN "setting" ELSE "proving"
             c == Request(at, NoShipment, to, TRUE, 0)
  <2>1. to # "CONFIRMED"
    BY <1>5 DEF SetDealRead, DealStatus, ShipInv, ShipTyped
  <2>2. c \in ShipRequest /\ c.at # "booking"
    BY DEF Request, ShipRequest
  <2>3. Knows(c)
    BY <2>1 DEF Knows, Request, DealStatus
  <2>4. UNCHANGED <<deal, ship>> /\ req' = [req EXCEPT ![r] = c]
    BY <1>5 DEF SetDealRead, Start
  <2> HIDE DEF c
  <2>. QED  BY <2>2, <2>3, <2>4, ShipReads
<1>6. ASSUME NEW r \in Requests, SetDealProve(r)
      PROVE  ShipInv'
  <2> DEFINE c == Request("setting", NoShipment, req[r].to, TRUE, 0)
             proved == IF req[r].to = "FULFILLED" THEN Delivered >= Quantity
                       ELSE 0 < Delivered /\ Delivered < Quantity
  <2>1. /\ req[r].at = "proving" /\ UNCHANGED <<deal, ship>>
        /\ req' = [req EXCEPT ![r] = IF proved THEN c ELSE Idle]
    BY <1>6 DEF SetDealProve
  <2>2. req[r].to \in {"FULFILLED", "PARTIALLY_FULFILLED"}
    BY <2>1 DEF ShipInv, Knows
  <2>3. c \in ShipRequest /\ c.at = "setting" /\ c.to = req[r].to
    BY <2>2 DEF Request, ShipRequest, DealStatus
  <2>4. proved => Knows(c)
    <3>1. Delivered \in Nat /\ Delivered <= Quantity /\ Quantity \in Nat
      BY ShipSums DEF ShipInv, FulfilmentIsDelivered
    <3> HIDE DEF c
    <3>. QED  BY <2>2, <2>3, <3>1 DEF Knows
  <2> HIDE DEF c, proved
  <2>. QED  BY <2>1, <2>3, <2>4, ShipIdle, ShipReads
<1>7. CASE UNCHANGED vars
  <2>1. Delivered' = Delivered /\ Allocated' = Allocated
    BY <1>7 DEF vars, Delivered, Allocated, SumOf
  <2>. QED  BY <1>7, <2>1 DEF vars, ShipInv, ShipTyped, Knows, FulfilmentIsDelivered
<1>. QED
  BY <1>1, <1>2, <1>3, <1>4, <1>5, <1>6, <1>7, BookingKeeps, TrackingKeeps, DetailsKeep, SettingKeeps
  DEF Next

LEMMA ShipAlways ==
  ASSUME ShipmentConstants
  PROVE  Spec => []ShipInv
<1>1. Init => ShipInv
  <2> SUFFICES ASSUME Init PROVE ShipInv
    OBVIOUS
  <2>1. \A s \in Shipments : ship[s] \in ShipRow /\ ship[s].status = "NONE"
    BY DEF Init, Row, ShipRow
  <2>2. ShipTyped /\ \A r \in Requests : req[r] = Idle
    BY <2>1, ShipIdle DEF Init, ShipTyped, DealStatus
  <2>3. Allocated = 0
    <3>1. IsFiniteSet(Shipments)
      BY DEF ShipmentConstants
    <3> DEFINE w == Weights(ship, ShipmentStatus \ {"CANCELLED"})
               z == [s \in Shipments |-> 0]
               S == SumFunctionOnSet(w, Shipments)
    <3>2. \A x \in Shipments : w[x] = 0
      BY <2>1 DEF Weights, Counts, ShipmentStatus, Recoverable
    <3>3. Allocated = S /\ S \in Nat
      BY <2>2, SumsAreNat DEF Allocated, ShipTyped
    <3> HIDE DEF w
    <3>4. S = S + S
      <4>1. \A x \in Shipments : w[x] \in Int /\ w[x] = w[x] + w[x]
        BY <3>2
      <4>. QED  BY <3>1, <4>1, SumOfSums
    <3> HIDE DEF S
    <3>. QED  BY <3>3, <3>4
  <2>4. FulfilmentIsDelivered
    BY <2>3 DEF FulfilmentIsDelivered, Init, ShipmentConstants
  <2>. QED  BY <2>2, <2>4, ShipIdle DEF ShipInv
<1>. QED  BY <1>1, ShipStep, PTL DEF Spec

\* However many bookings, tracking events and administrators race, a deal
\* never ships more than its quantity, and is reported fulfilled, or partly,
\* only on what was delivered (import-shipments.service.ts, setDealStatus).
THEOREM DealsShipWhatIsAgreed ==
  ASSUME ShipmentConstants
  PROVE  Spec => []FulfilmentIsDelivered
<1>1. ShipInv => FulfilmentIsDelivered
  BY DEF ShipInv
<1>. QED  BY <1>1, ShipAlways, PTL

\* No shipment is larger than the deal.
Loads == \A s \in Shipments : ship[s].qty \in 0 .. Quantity

LEMMA LoadsKept ==
  ASSUME ShipmentConstants, ShipInv, Loads, [Next]_vars
  PROVE  Loads'
<1>1. ASSUME UNCHANGED ship PROVE Loads'
  BY <1>1 DEF Loads
<1>2. ASSUME NEW r \in Requests, NEW qty \in 1 .. Quantity, CreateCommit(r, qty) PROVE Loads'
  BY <1>2 DEF CreateCommit, Loads, Row, ShipInv, ShipTyped, ShipmentConstants
<1>3. ASSUME NEW r \in Requests, EventCommit(r) PROVE Loads'
  <2>1. \A s \in Shipments : ship'[s].qty = ship[s].qty
    BY <1>3 DEF EventCommit, Row, ShipInv, ShipTyped
  <2>. QED  BY <2>1 DEF Loads
<1>4. ASSUME NEW r \in Requests,
             \/ \E s \in Shipments :
                  CreateRead(r, s) \/ DetailsRead(r, s) \/ \E to \in ShipmentStatus : EventRead(r, s, to)
             \/ CreateRefused(r) \/ DetailsCommit(r) \/ Conflict(r) \/ SetDealProve(r) \/ SetDealCommit(r)
             \/ \E to \in DealStatus : SetDealRead(r, to)
      PROVE  UNCHANGED ship
  BY <1>4 DEF CreateRead, DetailsRead, EventRead, CreateRefused, DetailsCommit, Conflict, SetDealProve,
              SetDealCommit, SetDealRead
<1>5. CASE UNCHANGED vars
  BY <1>1, <1>5 DEF vars
<1>. QED  BY <1>1, <1>2, <1>3, <1>4, <1>5 DEF Next

\* The deal, its shipments and the requests on them stay what their columns
\* can hold, and no shipment, a cancelled one included, is of more than the
\* deal's quantity (import-shipments.service.ts).
THEOREM ShipmentsAreTyped ==
  ASSUME ShipmentConstants
  PROVE  Spec => []TypeOK
<1>1. Init => Loads
  BY DEF Init, Loads, Row, ShipmentConstants
<1>2. ShipInv /\ Loads => TypeOK
  <2> SUFFICES ASSUME ShipInv, Loads PROVE TypeOK
    OBVIOUS
  <2>1. deal \in DealStatus /\ ship \in [Shipments -> ShipRow] /\ req \in [Requests -> ShipRequest]
    BY DEF ShipInv, ShipTyped
  <2>2. \A s \in Shipments : ship[s] \in [status : ShipmentStatus \cup {"NONE"}, qty : 0 .. Quantity]
    BY <2>1 DEF ShipRow, Loads
  <2>3. ship \in [Shipments -> [status : ShipmentStatus \cup {"NONE"}, qty : 0 .. Quantity]]
    BY <2>1, <2>2
  <2>4. ASSUME NEW r \in Requests
        PROVE  /\ req[r].at \in {"idle", "booking", "tracking", "editing", "proving", "setting"}
               /\ req[r].s \in Shipments \cup {NoShipment} /\ req[r].to \in ShipmentStatus \cup DealStatus
    BY <2>1 DEF ShipRequest
  <2>. QED  BY <2>1, <2>3, <2>4 DEF TypeOK
<1>. QED  BY <1>1, <1>2, LoadsKept, ShipAlways, PTL DEF Spec

-----------------------------------------------------------------------------
(* Negotiations: what a transaction checked of a negotiation stays true     *)
(* while it holds its lock, and an acceptance holds the lock of the listing *)
(* that the end of the listing needs to look for negotiations.              *)

ListingKinds == {"CANCELLED", "EXPIRED", "SWEEP", "REMOVE"}
DealKinds == {"CONFIRM", "CANCEL_DEAL"}

\* What a request in progress may count on.
Holds(c) ==
  /\ c.party \in Trade!Parties
  /\ c.at # "idle" /\ c.kind \notin ListingKinds => c.n \in Negotiations /\ c.l = Primary[c.n]
  /\ c.at # "idle" /\ c.kind \in ListingKinds => c.l # NoListing
  /\ c.at # "idle" /\ c.kind \in DealKinds => deal[c.n].status # "NONE"
  /\ c.at = "inside" => c.kind = "ACCEPT"
  /\ c.at \in {"inside", "moving"} /\ c.kind = "ACCEPT" => Trade!L(c.l) \in c.rows
  /\ c.at = "moving" =>
       /\ c.kind \in {"COUNTER", "ACCEPT"} \cup DealKinds
       /\ c.kind \in {"COUNTER", "ACCEPT"} =>
            Trade!N(c.n) \in c.rows /\ Trade!MyTurn(c.n, c.party)
       /\ c.kind \in DealKinds => Trade!D(c.n) \in c.rows
       /\ c.kind = "CONFIRM" => deal[c.n].status = "PENDING_CONFIRMATION"
  /\ c.at = "ending" =>
       /\ c.kind \in {"CANCELLED", "EXPIRED", "SWEEP"}
       /\ c.closing \in SUBSET Negotiations
       /\ Trade!L(c.l) \in c.rows
       /\ \A n \in c.closing : /\ c.l \in {Primary[n], Counterpart[n]} /\ neg[n].status # "NONE"
                               /\ Counterpart[n] = NoListing => neg[n].status # "AGREED"

\* The deal of a negotiation has the terms of the last offer, and there is
\* none while the negotiation is open.
Terms(n) ==
  /\ neg[n].last \in Trade!Parties
  /\ deal[n].status # "NONE" =>
       /\ neg[n].status \notin {"NONE", "OPEN"}
       /\ deal[n].round = neg[n].round
       /\ deal[n].by \in Trade!Parties /\ deal[n].confirmed # {deal[n].by}

TradeInv ==
  /\ DOMAIN req = Requests /\ DOMAIN neg = Negotiations /\ DOMAIN deal = Negotiations
  /\ \A r \in Requests : Holds(req[r])
  /\ \A r, q \in Requests : r # q => req[r].rows \cap req[q].rows = {}
  /\ \A n \in Negotiations : Terms(n)

LEMMA TradeIdle == Holds(Trade!Idle) /\ Trade!Idle.at = "idle" /\ Trade!Idle.rows = {}
  BY DEF Holds, Trade!Idle, Trade!Request, Trade!Parties

\* Rows of one table are told apart by their key.
LEMMA RowsDiffer ==
  ASSUME NEW x, NEW y
  PROVE  /\ Trade!L(x) = Trade!L(y) => x = y
         /\ Trade!N(x) = Trade!N(y) => x = y
  BY DEF Trade!L, Trade!N

\* A request goes on; it has only locked what nobody holds.
LEMMA RequestKeeps ==
  ASSUME TradeInv, NEW r \in Requests, NEW c, Holds(c), UNCHANGED <<neg, deal>>,
         \A row \in c.rows : row \in req[r].rows \/ Trade!Free(r, row),
         req' = [req EXCEPT ![r] = c]
  PROVE  TradeInv'
<1>1. \A q \in Requests : req'[q] = IF q = r THEN c ELSE req[q]
  BY DEF TradeInv
<1>2. \A q \in Requests : Holds(req[q])'
  BY <1>1 DEF TradeInv, Holds, Trade!MyTurn
<1>3. \A q \in Requests : q # r => c.rows \cap req[q].rows = {}
  BY DEF TradeInv, Trade!Free
<1>4. \A p, q \in Requests : p # q => req'[p].rows \cap req'[q].rows = {}
  BY <1>1, <1>3 DEF TradeInv
<1>5. \A n \in Negotiations : Terms(n)'
  BY DEF TradeInv, Terms
<1>. QED  BY <1>2, <1>4, <1>5 DEF TradeInv

\* A request ends and writes what the others do not count on.
LEMMA EndKeeps ==
  ASSUME TradeInv, NEW r \in Requests, req' = [req EXCEPT ![r] = Trade!Idle],
         DOMAIN neg' = Negotiations, DOMAIN deal' = Negotiations,
         \A q \in Requests \ {r} : Holds(req[q])',
         \A n \in Negotiations : Terms(n)'
  PROVE  TradeInv'
<1>1. \A q \in Requests : req'[q] = IF q = r THEN Trade!Idle ELSE req[q]
  BY DEF TradeInv
<1>2. Holds(req[r])'
  <2>1. req'[r].party \in Trade!Parties /\ req'[r].at = "idle"
    BY <1>1, TradeIdle DEF Holds
  <2>. QED  BY <2>1 DEF Holds
<1>3. \A p, q \in Requests : p # q => req'[p].rows \cap req'[q].rows = {}
  BY <1>1, TradeIdle DEF TradeInv
<1>. QED  BY <1>2, <1>3 DEF TradeInv

\* A new offer, in a negotiation that the request holds.
LEMMA CounterKeeps ==
  ASSUME TradeInv, NEW r \in Requests, Trade!CounterCommit(r)
  PROVE  TradeInv' /\ Trade!AgreedStep
<1> DEFINE c == req[r]
           m == Trade!Negotiation(neg[c.n].status, c.party, neg[c.n].round + 1, FALSE)
<1>1. /\ c.at = "moving" /\ c.kind = "COUNTER" /\ deal' = deal
      /\ neg' = [neg EXCEPT ![c.n] = m] /\ req' = [req EXCEPT ![r] = Trade!Idle]
  BY DEF Trade!CounterCommit, Trade!Commits, Trade!Done
<1>2. /\ c.n \in Negotiations /\ Trade!N(c.n) \in c.rows /\ neg[c.n].status = "OPEN"
      /\ c.party \in Trade!Parties
  BY <1>1 DEF TradeInv, Holds, ListingKinds, Trade!MyTurn
<1>3. m.status = "OPEN" /\ m.last = c.party
  BY <1>2 DEF Trade!Negotiation
<1> HIDE DEF m
<1>4. neg'[c.n] = m /\ \A n \in Negotiations : n # c.n => neg'[n] = neg[n]
  BY <1>1, <1>2 DEF TradeInv
<1>5. ASSUME NEW q \in Requests \ {r} PROVE Holds(req[q])'
  <2>1. req'[q] = req[q] /\ Holds(req[q]) /\ Trade!N(c.n) \notin req[q].rows
    BY <1>1, <1>2 DEF TradeInv
  <2>. QED  BY <1>1, <1>2, <1>3, <1>4, <2>1 DEF Holds, Trade!MyTurn, DealKinds, ListingKinds
<1>6. \A n \in Negotiations : Terms(n)'
  BY <1>1, <1>2, <1>3, <1>4 DEF TradeInv, Terms
<1>7. Trade!AgreedStep
  BY <1>2, <1>3, <1>4 DEF Trade!AgreedStep
<1>. QED  BY <1>1, <1>5, <1>6, <1>7, EndKeeps DEF TradeInv

\* The deal takes the terms of the offer, which nobody could change since the
\* negotiation was locked; the lock of the listing keeps its end away.
LEMMA AcceptKeeps ==
  ASSUME Trade!TradeConstants, TradeInv, NEW r \in Requests, Trade!AcceptCommit(r)
  PROVE  TradeInv' /\ Trade!AgreedStep
<1> DEFINE c == req[r]
           m == Trade!Negotiation("AGREED", c.party, neg[c.n].round, neg[c.n].overdue)
           d == Trade!Deal("PENDING_CONFIRMATION", {c.party}, neg[c.n].round, neg[c.n].last)
<1>1. /\ c.at = "moving" /\ c.kind = "ACCEPT"
      /\ neg' = [neg EXCEPT ![c.n] = m] /\ deal' = [deal EXCEPT ![c.n] = d]
      /\ req' = [req EXCEPT ![r] = Trade!Idle]
  BY DEF Trade!AcceptCommit, Trade!Commits, Trade!Done
<1>2. /\ c.n \in Negotiations /\ Trade!N(c.n) \in c.rows /\ neg[c.n].status = "OPEN"
      /\ neg[c.n].last # c.party /\ c.party \in Trade!Parties /\ neg[c.n].last \in Trade!Parties
      /\ c.l = Primary[c.n] /\ Trade!L(c.l) \in c.rows
  BY <1>1 DEF TradeInv, Holds, ListingKinds, Trade!MyTurn, Terms
<1>3. /\ m.status = "AGREED" /\ m.last = c.party /\ m.round = neg[c.n].round
      /\ d.status # "NONE" /\ d.round = neg[c.n].round /\ d.by = neg[c.n].last
      /\ d.confirmed = {c.party}
  BY DEF Trade!Negotiation, Trade!Deal
<1> HIDE DEF m, d
<1>4. /\ neg'[c.n] = m /\ \A n \in Negotiations : n # c.n => neg'[n] = neg[n]
      /\ deal'[c.n] = d /\ \A n \in Negotiations : n # c.n => deal'[n] = deal[n]
  BY <1>1, <1>2 DEF TradeInv
<1>5. ASSUME NEW q \in Requests \ {r} PROVE Holds(req[q])'
  <2>1. req'[q] = req[q] /\ Holds(req[q]) /\ Trade!N(c.n) \notin req[q].rows
        /\ Trade!L(c.l) \notin req[q].rows
    BY <1>1, <1>2 DEF TradeInv
  <2>2. req[q].at = "moving" /\ req[q].kind \in {"COUNTER", "ACCEPT"} => req[q].n # c.n
    BY <2>1 DEF Holds
  <2>3. req[q].at = "ending" => \A n \in req[q].closing :
          Counterpart[n] = NoListing => neg'[n].status # "AGREED"
    BY <1>2, <1>4, <2>1 DEF Holds, ListingKinds
  <2>4. req[q].at # "idle" /\ req[q].kind \in DealKinds => deal'[req[q].n].status # "NONE"
    BY <1>3, <1>4, <2>1 DEF Holds, DealKinds, ListingKinds
  <2>5. req[q].at = "moving" /\ req[q].kind \in {"COUNTER", "ACCEPT"} =>
          neg'[req[q].n] = neg[req[q].n]
    BY <1>4, <2>1, <2>2 DEF Holds, ListingKinds
  <2>6. req[q].at = "moving" /\ req[q].kind = "CONFIRM" =>
          deal'[req[q].n].status = "PENDING_CONFIRMATION"
    <3>1. deal[c.n].status = "NONE"
      BY <1>2 DEF TradeInv, Terms
    <3>. QED  BY <1>4, <2>1, <3>1 DEF Holds, DealKinds, ListingKinds
  <2>7. \A n \in Negotiations : neg[n].status # "NONE" => neg'[n].status # "NONE"
    BY <1>3, <1>4
  <2>. QED  BY <2>1, <2>3, <2>4, <2>5, <2>6, <2>7 DEF Holds, Trade!MyTurn
<1>6. \A n \in Negotiations : Terms(n)'
  <2>1. ASSUME NEW n \in Negotiations, n = c.n PROVE Terms(n)'
    BY <1>2, <1>3, <1>4, <2>1 DEF Terms
  <2>2. ASSUME NEW n \in Negotiations, n # c.n PROVE Terms(n)'
    BY <1>4, <2>2 DEF TradeInv, Terms
  <2>. QED  BY <2>1, <2>2
<1>7. Trade!AgreedStep
  BY <1>3, <1>4 DEF Trade!AgreedStep
<1>8. DOMAIN neg' = Negotiations /\ DOMAIN deal' = Negotiations
  BY <1>1 DEF TradeInv
<1>. QED  BY <1>1, <1>5, <1>6, <1>7, <1>8, EndKeeps

\* A negotiation that nobody holds leaves OPEN, or becomes it, without a deal.
LEMMA NegotiationKeeps ==
  ASSUME TradeInv, NEW n \in Negotiations, NEW m,
         \A q \in Requests : Trade!N(n) \notin req[q].rows,
         neg[n].status \in {"NONE", "OPEN"}, m.status \notin {"NONE", "AGREED"}, m.last \in Trade!Parties,
         UNCHANGED <<deal, req>>, neg' = [neg EXCEPT ![n] = m]
  PROVE  TradeInv'
<1>1. neg'[n] = m /\ \A x \in Negotiations : x # n => neg'[x] = neg[x]
  BY DEF TradeInv
<1>2. ASSUME NEW q \in Requests PROVE Holds(req[q])'
  <2>1. Holds(req[q])
    BY DEF TradeInv
  <2>. QED  BY <1>1, <2>1 DEF Holds, Trade!MyTurn, ListingKinds, DealKinds
<1>3. \A x \in Negotiations : Terms(x)'
  BY <1>1 DEF TradeInv, Terms
<1>. QED  BY <1>2, <1>3 DEF TradeInv

\* A refusal or a withdrawal, an expiry, the opening: the negotiation is not
\* one that a request has locked.
LEMMA FreeRowKeeps ==
  ASSUME TradeInv, NEW r \in Requests, NEW n \in Negotiations, NEW m, Trade!Free(r, Trade!N(n)),
         req[r].at = "held",
         neg[n].status = "OPEN", m.status \notin {"NONE", "AGREED"}, m.last \in Trade!Parties,
         deal' = deal, req' = [req EXCEPT ![r] = Trade!Idle], neg' = [neg EXCEPT ![n] = m]
  PROVE  TradeInv'
<1>1. neg'[n] = m /\ \A x \in Negotiations : x # n => neg'[x] = neg[x]
  BY DEF TradeInv
<1>2. ASSUME NEW q \in Requests \ {r} PROVE Holds(req[q])'
  <2>1. Holds(req[q]) /\ Trade!N(n) \notin req[q].rows /\ req'[q] = req[q]
    BY DEF TradeInv, Trade!Free
  <2>. QED  BY <1>1, <2>1 DEF Holds, Trade!MyTurn, ListingKinds, DealKinds
<1>3. \A x \in Negotiations : Terms(x)'
  BY <1>1 DEF TradeInv, Terms
<1>4. DOMAIN neg' = Negotiations /\ DOMAIN deal' = Negotiations
  BY DEF TradeInv
<1>. QED  BY <1>2, <1>3, <1>4, EndKeeps

\* An opened negotiation was none: nobody holds it and it has no deal.
LEMMA OpenKeeps ==
  ASSUME TradeInv, NEW r \in Requests, Trade!OpenCommit(r)
  PROVE  TradeInv' /\ Trade!AgreedStep
<1> DEFINE n == req[r].n
           m == Trade!Negotiation("OPEN", "OPENER", 1, FALSE)
<1>1. /\ req[r].at = "held" /\ req[r].kind = "OPEN" /\ neg[n].status = "NONE" /\ deal' = deal
      /\ neg' = [neg EXCEPT ![n] = m] /\ req' = [req EXCEPT ![r] = Trade!Idle]
  BY DEF Trade!OpenCommit, Trade!Held, Trade!Done
<1>2. n \in Negotiations
  BY <1>1 DEF TradeInv, Holds, ListingKinds
<1>3. m.status = "OPEN" /\ m.last \in Trade!Parties
  BY DEF Trade!Negotiation, Trade!Parties
<1> HIDE DEF m
<1>4. neg'[n] = m /\ \A x \in Negotiations : x # n => neg'[x] = neg[x]
  BY <1>1, <1>2 DEF TradeInv
<1>5. ASSUME NEW q \in Requests \ {r} PROVE Holds(req[q])'
  <2>1. Holds(req[q]) /\ req'[q] = req[q]
    BY <1>1 DEF TradeInv
  <2>. QED  BY <1>1, <1>2, <1>3, <1>4, <2>1 DEF Holds, Trade!MyTurn, ListingKinds, DealKinds
<1>6. \A x \in Negotiations : Terms(x)'
  BY <1>1, <1>2, <1>3, <1>4 DEF TradeInv, Terms
<1>7. Trade!AgreedStep
  BY <1>1, <1>2, <1>4 DEF Trade!AgreedStep
<1>8. DOMAIN neg' = Negotiations /\ DOMAIN deal' = Negotiations
  BY <1>1, <1>2 DEF TradeInv
<1>. QED  BY <1>1, <1>5, <1>6, <1>7, <1>8, EndKeeps

\* A deal is confirmed by both, or cancelled: its terms stay.
LEMMA DealKeeps ==
  ASSUME TradeInv, NEW r \in Requests, Trade!ConfirmCommit(r) \/ Trade!CancelDealCommit(r)
  PROVE  TradeInv' /\ neg' = neg
<1> DEFINE n == req[r].n
<1>1. PICK status \in {"CONFIRMED", "CANCELLED"}, confirmed \in {Trade!Parties, deal[n].confirmed} :
        /\ deal' = [deal EXCEPT ![n] = Trade!Deal(status, confirmed, deal[n].round, deal[n].by)]
        /\ req' = [req EXCEPT ![r] = Trade!Idle] /\ neg' = neg
        /\ req[r].at = "moving" /\ req[r].kind \in DealKinds
  BY DEF Trade!ConfirmCommit, Trade!CancelDealCommit, Trade!Commits, Trade!Done, DealKinds
<1> DEFINE d == Trade!Deal(status, confirmed, deal[n].round, deal[n].by)
<1>2. n \in Negotiations /\ deal[n].status # "NONE"
  BY <1>1 DEF TradeInv, Holds, ListingKinds, DealKinds
<1>3. Terms(n)
  BY <1>2 DEF TradeInv
<1>4. /\ d.status # "NONE" /\ d.round = deal[n].round /\ d.by = deal[n].by
      /\ d.confirmed \in {Trade!Parties, deal[n].confirmed}
  BY SMTT(30) DEF Trade!Deal
<1>5. d.confirmed # {d.by}
  BY <1>2, <1>3, <1>4 DEF Terms, Trade!Parties
<1>6. deal' = [deal EXCEPT ![n] = d]
  BY <1>1
<1> HIDE DEF d
<1>7. deal'[n] = d /\ \A x \in Negotiations : x # n => deal'[x] = deal[x]
  <2>1. DOMAIN deal = Negotiations
    BY DEF TradeInv
  <2>. QED  BY <1>2, <1>6, <2>1
<1>8. \A x \in Negotiations : Terms(x)'
  BY <1>1, <1>2, <1>3, <1>4, <1>5, <1>7 DEF TradeInv, Terms
<1>9. ASSUME NEW q \in Requests \ {r} PROVE Holds(req[q])'
  <2>1. Holds(req[q]) /\ req'[q] = req[q]
    BY <1>1 DEF TradeInv
  <2>2. \A x \in Negotiations : deal[x].status # "NONE" => deal'[x].status # "NONE"
    BY <1>4, <1>7
  <2>3. req[q].at = "moving" /\ req[q].kind \in DealKinds => req[q].n # n
    <3>1. Trade!D(n) \in req[r].rows /\ req[r].rows \cap req[q].rows = {}
      BY <1>1 DEF TradeInv, Holds
    <3>. QED  BY <2>1, <3>1 DEF Holds
  <2>4. req[q].at = "moving" /\ req[q].kind = "CONFIRM" => deal'[req[q].n] = deal[req[q].n]
    BY <1>7, <2>1, <2>3 DEF Holds, ListingKinds, DealKinds
  <2>. QED  BY <1>1, <2>1, <2>2, <2>4 DEF Holds, Trade!MyTurn, ListingKinds, DealKinds
<1>10. DOMAIN neg' = Negotiations /\ DOMAIN deal' = Negotiations
  BY <1>1, <1>6 DEF TradeInv
<1>. QED  BY <1>1, <1>8, <1>9, <1>10, EndKeeps

\* The end of a listing closes what it found open, with all of it locked.
LEMMA ListingEnds ==
  ASSUME TradeInv, NEW r \in Requests, Trade!EndCommit(r)
  PROVE  TradeInv' /\ Trade!AgreedStep
<1> DEFINE c == req[r]
           target == IF c.kind = "CANCELLED" THEN "CANCELLED" ELSE "EXPIRED"
           M(n) == Trade!Negotiation(target, neg[n].last, neg[n].round, neg[n].overdue)
<1>1. /\ c.at = "ending" /\ \A n \in c.closing : Trade!N(n) \in c.rows
      /\ neg' = [n \in Negotiations |-> IF n \in c.closing THEN M(n) ELSE neg[n]]
      /\ req' = [req EXCEPT ![r] = Trade!Idle] /\ deal' = deal
  BY DEF Trade!EndCommit, Trade!Done
<1>2. /\ c.closing \in SUBSET Negotiations
      /\ \A n \in c.closing : Counterpart[n] = NoListing => neg[n].status # "AGREED"
  BY <1>1 DEF TradeInv, Holds, ListingKinds
<1>3. \A n \in Negotiations : /\ M(n).status \notin {"NONE", "OPEN", "AGREED"}
                              /\ M(n).last = neg[n].last /\ M(n).round = neg[n].round
  BY DEF Trade!Negotiation
<1> HIDE DEF M, target
<1>4. \A n \in Negotiations :
        /\ neg'[n].last = neg[n].last /\ neg'[n].round = neg[n].round
        /\ n \notin c.closing => neg'[n] = neg[n]
        /\ n \in c.closing => neg'[n].status \notin {"NONE", "OPEN", "AGREED"}
  BY <1>1, <1>3
<1>5. ASSUME NEW q \in Requests \ {r} PROVE Holds(req[q])'
  <2>1. Holds(req[q]) /\ req'[q] = req[q] /\ c.rows \cap req[q].rows = {} /\ deal' = deal
    BY <1>1 DEF TradeInv
  <2>2. \A n \in Negotiations : Trade!N(n) \in req[q].rows => neg'[n] = neg[n]
    BY <1>1, <1>4, <2>1
  <2>3. \A n \in Negotiations : /\ neg[n].status # "AGREED" => neg'[n].status # "AGREED"
                                /\ neg[n].status # "NONE" => neg'[n].status # "NONE"
    BY <1>4
  <2>4. req[q].at = "moving" /\ req[q].kind \in {"COUNTER", "ACCEPT"} =>
          neg'[req[q].n] = neg[req[q].n]
    BY <2>1, <2>2 DEF Holds, ListingKinds
  <2>5. ASSUME req[q].at = "ending", NEW n \in req[q].closing
        PROVE  /\ neg'[n].status # "NONE"
               /\ Counterpart[n] = NoListing => neg'[n].status # "AGREED"
    <3>1. n \in Negotiations /\ neg[n].status # "NONE"
          /\ (Counterpart[n] = NoListing => neg[n].status # "AGREED")
      BY <2>1, <2>5 DEF Holds
    <3>. QED  BY <2>3, <3>1
  <2>6. Holds(req[q]) /\ req'[q] = req[q] /\ deal' = deal
    BY <2>1
  <2>7. req[q].at = "ending" =>
          \A n \in req[q].closing : /\ req[q].l \in {Primary[n], Counterpart[n]} /\ neg'[n].status # "NONE"
                                    /\ Counterpart[n] = NoListing => neg'[n].status # "AGREED"
    BY <2>5, <2>6 DEF Holds
  <2>. QED  BY <2>4, <2>6, <2>7 DEF Holds, Trade!MyTurn
<1>6. \A n \in Negotiations : Terms(n)'
  BY <1>1, <1>4 DEF TradeInv, Terms
<1>7. Trade!AgreedStep
  BY <1>2, <1>4 DEF Trade!AgreedStep
<1>8. DOMAIN neg' = Negotiations /\ DOMAIN deal' = Negotiations
  BY <1>1 DEF TradeInv
<1>. QED  BY <1>1, <1>5, <1>6, <1>7, <1>8, EndKeeps

\* What the checks before a transaction leave it to count on.
LEMMA HoldKeeps ==
  ASSUME TradeInv, NEW r \in Requests, NEW kind, NEW n, NEW l, NEW party \in Trade!Parties,
         Trade!Hold(r, kind, n, l, party),
         kind \notin ListingKinds => n \in Negotiations /\ l = Primary[n],
         kind \in ListingKinds => l # NoListing,
         kind \in DealKinds => deal[n].status # "NONE"
  PROVE  TradeInv' /\ neg' = neg
<1> DEFINE c == Trade!Request("held", kind, n, l, party, {}, <<>>, "PUBLISHED", {}, {})
<1>1. req' = [req EXCEPT ![r] = c] /\ UNCHANGED <<neg, deal>>
  BY DEF Trade!Hold, Trade!tradeVars
<1>2. Holds(c) /\ c.rows = {}
  BY DEF Holds, Trade!Request
<1> HIDE DEF c
<1>. QED  BY <1>1, <1>2, RequestKeeps

\* A request that ends without a write.
LEMMA RefuseKeeps ==
  ASSUME TradeInv, NEW r \in Requests, Trade!Done(r), UNCHANGED <<neg, deal>>
  PROVE  TradeInv' /\ neg' = neg
  BY TradeIdle, RequestKeeps DEF Trade!Done

\* The transaction starts to move listings, with its negotiation or deal
\* locked and checked.
LEMMA MovingKeeps ==
  ASSUME TradeInv, NEW r \in Requests, NEW row, Trade!Free(r, row),
         req[r].at \in {"held", "inside"},
         req[r].kind \in {"COUNTER", "ACCEPT"} \cup DealKinds,
         req[r].kind \in {"COUNTER", "ACCEPT"} =>
           row = Trade!N(req[r].n) /\ Trade!MyTurn(req[r].n, req[r].party),
         req[r].kind = "ACCEPT" => req[r].at = "inside",
         req[r].kind \in DealKinds => row = Trade!D(req[r].n),
         req[r].kind = "CONFIRM" => deal[req[r].n].status = "PENDING_CONFIRMATION",
         Trade!StartMoving(r, {row}), UNCHANGED <<neg, deal>>
  PROVE  TradeInv' /\ neg' = neg
<1>1. PICK todo, seen : req' = [req EXCEPT ![r] = Trade!Moving(req[r], req[r].rows \cup {row}, todo, seen, {})]
  BY DEF Trade!StartMoving
<1> DEFINE c == Trade!Moving(req[r], req[r].rows \cup {row}, todo, seen, {})
<1>2. /\ c.at = "moving" /\ c.kind = req[r].kind /\ c.n = req[r].n /\ c.l = req[r].l
      /\ c.party = req[r].party /\ c.rows = req[r].rows \cup {row}
  BY DEF Trade!Moving, Trade!Request
<1>3. Holds(req[r])
  BY DEF TradeInv
<1> HIDE DEF c
<1>4. Holds(c)
  BY <1>2, <1>3 DEF Holds, ListingKinds, DealKinds
<1>. QED  BY <1>1, <1>2, <1>4, RequestKeeps DEF c

\* One listing is moved.
LEMMA MoveKeeps ==
  ASSUME TradeInv, NEW r \in Requests, Trade!Move(r)
  PROVE  TradeInv' /\ neg' = neg
<1>1. req[r].at = "moving" /\ UNCHANGED <<neg, deal>> /\ Holds(req[r])
  BY DEF Trade!Move, Trade!tradeVars, TradeInv
<1>2. PICK locks, todo, seen, wrote :
        /\ \A row \in locks : Trade!Free(r, row)
        /\ req' = [req EXCEPT ![r] = Trade!Moving(req[r], req[r].rows \cup locks, todo, seen, wrote)]
  <2> DEFINE l == req[r].todo[1]
             moves == Trade!Moves(req[r].kind, req[r].seen)
  <2>1. moves => Trade!Free(r, Trade!L(l))
    BY DEF Trade!Move
  <2>2. PICK todo, seen, wrote : req' = [req EXCEPT ![r] =
          Trade!Moving(req[r], req[r].rows \cup IF moves THEN {Trade!L(l)} ELSE {}, todo, seen, wrote)]
    BY DEF Trade!Move
  <2> HIDE DEF moves, l
  <2>3. CASE moves
    BY <2>1, <2>2, <2>3
  <2>4. CASE ~moves
    BY <2>2, <2>4
  <2>. QED  BY <2>3, <2>4
<1> DEFINE c == Trade!Moving(req[r], req[r].rows \cup locks, todo, seen, wrote)
<1>3. /\ c.at = "moving" /\ c.kind = req[r].kind /\ c.n = req[r].n /\ c.l = req[r].l
      /\ c.party = req[r].party /\ c.rows = req[r].rows \cup locks
  BY DEF Trade!Moving, Trade!Request
<1> HIDE DEF c
<1>4. Holds(c)
  BY <1>1, <1>3 DEF Holds, ListingKinds, DealKinds
<1>. QED  BY <1>1, <1>2, <1>3, <1>4, RequestKeeps DEF c

\* What a request finds when it locks a row, and what it locks.
LEMMA LockKeeps ==
  ASSUME TradeInv, NEW r \in Requests, NEW row, Trade!Free(r, row), NEW at, NEW rows, NEW closing,
         rows = req[r].rows \cup {row} \/ rows = {row},
         req' = [req EXCEPT ![r] = Trade!Locked(req[r], at, rows, closing)],
         UNCHANGED <<neg, deal>>,
         Holds(Trade!Locked(req[r], at, rows, closing))
  PROVE  TradeInv' /\ neg' = neg
<1> DEFINE c == Trade!Locked(req[r], at, rows, closing)
<1>1. c.rows = rows
  BY DEF Trade!Locked, Trade!Request
<1>2. \A x \in c.rows : x \in req[r].rows \/ Trade!Free(r, x)
  BY <1>1
<1> HIDE DEF c
<1>3. TradeInv'
  BY <1>2, RequestKeeps DEF c
<1>. QED  BY <1>3

\* An acceptance holds its listing before it looks at the negotiation.
LEMMA AcceptLockKeeps ==
  ASSUME TradeInv, NEW r \in Requests, Trade!AcceptLock(r)
  PROVE  TradeInv' /\ neg' = neg
<1> DEFINE c == Trade!Locked(req[r], "inside", {Trade!L(req[r].l)}, {})
<1>1. /\ req[r].at = "held" /\ req[r].kind = "ACCEPT" /\ Trade!Free(r, Trade!L(req[r].l))
      /\ req' = [req EXCEPT ![r] = c] /\ UNCHANGED <<neg, deal>> /\ Holds(req[r])
  BY DEF Trade!AcceptLock, Trade!Held, Trade!tradeVars, TradeInv
<1>2. /\ c.at = "inside" /\ c.kind = "ACCEPT" /\ c.n = req[r].n /\ c.l = req[r].l
      /\ c.party = req[r].party /\ c.rows = {Trade!L(req[r].l)}
  BY <1>1 DEF Trade!Locked, Trade!Request
<1> HIDE DEF c
<1>3. Holds(c)
  BY <1>1, <1>2 DEF Holds, ListingKinds, DealKinds
<1>. QED  BY <1>1, <1>3, LockKeeps DEF c

\* The end of a listing looks for its negotiations under the listing's lock.
LEMMA EndBeginKeeps ==
  ASSUME TradeInv, NEW r \in Requests, Trade!EndBegin(r)
  PROVE  TradeInv' /\ neg' = neg
<1> DEFINE c == Trade!Locked(req[r], "ending", {Trade!L(req[r].l)}, Trade!OpenOf(req[r].l))
<1>1. /\ req[r].at = "held" /\ req[r].kind \in {"CANCELLED", "EXPIRED", "SWEEP"}
      /\ Trade!Free(r, Trade!L(req[r].l))
      /\ req' = [req EXCEPT ![r] = c] /\ UNCHANGED <<neg, deal>> /\ Holds(req[r])
  BY DEF Trade!EndBegin, Trade!tradeVars, TradeInv
<1>2. /\ c.at = "ending" /\ c.kind = req[r].kind /\ c.l = req[r].l
      /\ c.party = req[r].party /\ c.rows = {Trade!L(req[r].l)} /\ c.closing = Trade!OpenOf(req[r].l)
  BY DEF Trade!Locked, Trade!Request
<1>3. /\ Trade!OpenOf(req[r].l) \in SUBSET Negotiations
      /\ \A n \in Trade!OpenOf(req[r].l) : neg[n].status = "OPEN" /\ req[r].l \in {Primary[n], Counterpart[n]}
  BY DEF Trade!OpenOf
<1> HIDE DEF c
<1>4. Holds(c)
  BY <1>1, <1>2, <1>3 DEF Holds, ListingKinds, DealKinds
<1>. QED  BY <1>1, <1>4, LockKeeps DEF c

LEMMA EndLockKeeps ==
  ASSUME TradeInv, NEW r \in Requests, NEW n \in Negotiations, Trade!EndLock(r, n)
  PROVE  TradeInv' /\ neg' = neg
<1> DEFINE c == Trade!Locked(req[r], "ending", req[r].rows \cup {Trade!N(n)}, req[r].closing)
<1>1. /\ req[r].at = "ending" /\ Trade!Free(r, Trade!N(n))
      /\ req' = [req EXCEPT ![r] = c] /\ UNCHANGED <<neg, deal>> /\ Holds(req[r])
  BY DEF Trade!EndLock, Trade!tradeVars, TradeInv
<1>2. /\ c.at = "ending" /\ c.kind = req[r].kind /\ c.l = req[r].l /\ c.n = req[r].n
      /\ c.party = req[r].party /\ c.rows = req[r].rows \cup {Trade!N(n)} /\ c.closing = req[r].closing
  BY DEF Trade!Locked, Trade!Request
<1> HIDE DEF c
<1>3. Holds(c)
  BY <1>1, <1>2 DEF Holds, ListingKinds, DealKinds
<1>. QED  BY <1>1, <1>3, LockKeeps DEF c

\* Steps of a negotiation that nobody has locked.
LEMMA UnlockedKeeps ==
  ASSUME TradeInv, NEW n \in Negotiations, Trade!ExpireNegotiation(n) \/ Trade!Lapse(n)
  PROVE  TradeInv' /\ Trade!AgreedStep
<1> DEFINE x == neg[n]
<1>1. x.status = "OPEN" /\ x.last \in Trade!Parties /\ UNCHANGED <<deal, req>>
  BY DEF Trade!ExpireNegotiation, Trade!Lapse, TradeInv, Terms
<1>2. CASE Trade!ExpireNegotiation(n)
  <2> DEFINE m == Trade!Negotiation("EXPIRED", x.last, x.round, x.overdue)
  <2>1. neg' = [neg EXCEPT ![n] = m] /\ \A q \in Requests : Trade!N(n) \notin req[q].rows
    BY <1>2 DEF Trade!ExpireNegotiation
  <2>2. m.status = "EXPIRED" /\ m.last = x.last
    BY DEF Trade!Negotiation
  <2> HIDE DEF m
  <2>3. TradeInv'
    BY <1>1, <2>1, <2>2, NegotiationKeeps
  <2>4. Trade!AgreedStep
    BY <1>1, <2>1 DEF Trade!AgreedStep, TradeInv
  <2>. QED  BY <2>3, <2>4
<1>3. CASE Trade!Lapse(n)
  <2> DEFINE m == Trade!Negotiation(x.status, x.last, x.round, TRUE)
  <2>1. neg' = [neg EXCEPT ![n] = m]
    BY <1>3 DEF Trade!Lapse
  <2>2. m.status = x.status /\ m.last = x.last /\ m.round = x.round
    BY DEF Trade!Negotiation
  <2> HIDE DEF m
  <2>3. \A y \in Negotiations : /\ neg'[y].status = neg[y].status /\ neg'[y].last = neg[y].last
                                /\ neg'[y].round = neg[y].round
    BY <2>1, <2>2 DEF TradeInv
  <2>4. \A q \in Requests : Holds(req[q])'
    BY <1>1, <2>3 DEF TradeInv, Holds, Trade!MyTurn, ListingKinds
  <2>5. \A y \in Negotiations : Terms(y)'
    BY <1>1, <2>3 DEF TradeInv, Terms
  <2>6. Trade!AgreedStep
    BY <2>3 DEF Trade!AgreedStep
  <2>. QED  BY <1>1, <2>1, <2>4, <2>5, <2>6 DEF TradeInv
<1>. QED  BY <1>2, <1>3

\* A negotiation is rejected or withdrawn while it is open.
LEMMA CloseKeeps ==
  ASSUME TradeInv, NEW r \in Requests, Trade!CloseCommit(r)
  PROVE  TradeInv' /\ Trade!AgreedStep
<1> DEFINE n == req[r].n
           status == IF req[r].kind = "REJECT" THEN "REJECTED" ELSE "WITHDRAWN"
           m == Trade!Negotiation(status, req[r].party, neg[n].round, neg[n].overdue)
<1>1. /\ req[r].at = "held" /\ req[r].kind \in {"REJECT", "WITHDRAW"}
      /\ Trade!Free(r, Trade!N(n)) /\ neg[n].status = "OPEN"
      /\ neg' = [neg EXCEPT ![n] = m] /\ req' = [req EXCEPT ![r] = Trade!Idle] /\ deal' = deal
  BY DEF Trade!CloseCommit, Trade!Held, Trade!Done
<1>2. n \in Negotiations /\ req[r].party \in Trade!Parties
  BY <1>1 DEF TradeInv, Holds, ListingKinds
<1>3. m.status \notin {"NONE", "AGREED"} /\ m.last = req[r].party
  BY DEF Trade!Negotiation
<1> HIDE DEF m
<1>4. Trade!AgreedStep
  BY <1>1, <1>2 DEF Trade!AgreedStep, TradeInv
<1>. QED  BY <1>1, <1>2, <1>3, <1>4, FreeRowKeeps

\* What the steps before the transactions leave.
LEMMA ReadsKeep ==
  ASSUME Trade!TradeConstants, TradeInv, NEW r \in Requests,
         \/ \E n \in Negotiations :
              \/ Trade!OpenRead(r, n) \/ Trade!CancelDealRead(r, n)
              \/ \E party \in Trade!Parties :
                   \/ Trade!CounterRead(r, n, party) \/ Trade!AcceptRead(r, n, party)
                   \/ Trade!ConfirmRead(r, n, party)
                   \/ Trade!Reject(r, n, party) \/ Trade!Withdraw(r, n, party)
         \/ \E l \in Trade!Listings :
              \/ Trade!SweepRead(r, l) \/ Trade!RemoveRead(r, l)
              \/ Trade!CancelListing(r, l) \/ Trade!ExpireListing(r, l)
  PROVE  TradeInv' /\ neg' = neg
<1>1. "OPENER" \in Trade!Parties /\ "OWNER" \in Trade!Parties
  BY DEF Trade!Parties
<1>2. ASSUME NEW n \in Negotiations, Trade!OpenRead(r, n)
      PROVE  TradeInv' /\ neg' = neg
  BY <1>1, <1>2, HoldKeeps DEF Trade!OpenRead, ListingKinds, DealKinds
<1>3. ASSUME NEW n \in Negotiations, Trade!CancelDealRead(r, n)
      PROVE  TradeInv' /\ neg' = neg
  BY <1>1, <1>3, HoldKeeps DEF Trade!CancelDealRead, ListingKinds
<1>4. ASSUME NEW n \in Negotiations, NEW party \in Trade!Parties,
             \/ Trade!CounterRead(r, n, party) \/ Trade!AcceptRead(r, n, party)
             \/ Trade!Reject(r, n, party) \/ Trade!Withdraw(r, n, party)
      PROVE  TradeInv' /\ neg' = neg
  <2>1. PICK kind \in {"COUNTER", "ACCEPT", "REJECT", "WITHDRAW"} :
          Trade!Hold(r, kind, n, Primary[n], party)
    BY <1>4 DEF Trade!CounterRead, Trade!AcceptRead, Trade!Reject, Trade!Withdraw, Trade!CloseRead
  <2>. QED  BY <2>1, HoldKeeps DEF ListingKinds, DealKinds
<1>5. ASSUME NEW n \in Negotiations, NEW party \in Trade!Parties, Trade!ConfirmRead(r, n, party)
      PROVE  TradeInv' /\ neg' = neg
  BY <1>5, HoldKeeps DEF Trade!ConfirmRead, ListingKinds
<1>6. ASSUME NEW l \in Trade!Listings,
             \/ Trade!SweepRead(r, l) \/ Trade!RemoveRead(r, l)
             \/ Trade!CancelListing(r, l) \/ Trade!ExpireListing(r, l)
      PROVE  TradeInv' /\ neg' = neg
  <2>1. PICK kind \in ListingKinds : Trade!Hold(r, kind, NoNegotiation, l, "OWNER")
    BY <1>6 DEF Trade!SweepRead, Trade!RemoveRead, Trade!CancelListing, Trade!ExpireListing,
                Trade!EndRead, ListingKinds
  <2>2. l # NoListing
    BY DEF Trade!TradeConstants
  <2>. QED  BY <1>1, <2>1, <2>2, HoldKeeps DEF ListingKinds, DealKinds
<1>. QED  BY <1>2, <1>3, <1>4, <1>5, <1>6

\* The transactions begin.
LEMMA BeginsKeep ==
  ASSUME TradeInv, NEW r \in Requests,
         \/ Trade!CounterBegin(r) \/ Trade!AcceptBegin(r) \/ Trade!ConfirmBegin(r)
         \/ Trade!CancelDealBegin(r)
  PROVE  TradeInv' /\ neg' = neg
<1>1. CASE Trade!CounterBegin(r)
  BY <1>1, MovingKeeps DEF Trade!CounterBegin, Trade!Held, Trade!tradeVars, DealKinds
<1>2. CASE Trade!AcceptBegin(r)
  BY <1>2, MovingKeeps DEF Trade!AcceptBegin, Trade!tradeVars, DealKinds
<1>3. CASE Trade!ConfirmBegin(r) \/ Trade!CancelDealBegin(r)
  BY <1>3, MovingKeeps DEF Trade!ConfirmBegin, Trade!CancelDealBegin, Trade!Held,
     Trade!tradeVars, DealKinds
<1>. QED  BY <1>1, <1>2, <1>3

LEMMA TradeStep ==
  ASSUME Trade!TradeConstants, TradeInv, [Trade!Next]_(Trade!vars)
  PROVE  TradeInv' /\ [Trade!AgreedStep]_(Trade!vars)
<1>1. neg' = neg => Trade!AgreedStep
  BY DEF Trade!AgreedStep
<1>2. ASSUME NEW r \in Requests,
             \/ Trade!OpenRefused(r) \/ Trade!TurnRefused(r) \/ Trade!CloseRefused(r)
             \/ Trade!ConfirmRefused(r) \/ Trade!EndRefused(r) \/ Trade!DeadlockEnds(r)
             \/ Trade!RemoveCommit(r)
      PROVE  TradeInv' /\ neg' = neg
  <2>1. Trade!Done(r) /\ UNCHANGED <<neg, deal>>
    BY <1>2 DEF Trade!OpenRefused, Trade!TurnRefused, Trade!CloseRefused, Trade!ConfirmRefused,
       Trade!EndRefused, Trade!DeadlockEnds, Trade!RemoveCommit, Trade!Refuse, Trade!tradeVars
  <2>. QED  BY <2>1, RefuseKeeps
<1>3. ASSUME UNCHANGED <<neg, deal, req>>
      PROVE  TradeInv' /\ neg' = neg
  BY <1>3 DEF TradeInv, Holds, Terms, Trade!MyTurn
<1>4. ASSUME NEW l \in Trade!Listings,
             Trade!Publish(l) \/ Trade!Pause(l) \/ Trade!Resume(l) \/ Trade!Matched(l)
      PROVE  TradeInv' /\ neg' = neg
  BY <1>3, <1>4 DEF Trade!Publish, Trade!Pause, Trade!Resume, Trade!Matched, Trade!Switch
<1>5. CASE UNCHANGED Trade!vars
  BY <1>3, <1>5 DEF Trade!vars
<1>6. ASSUME NEW r \in Requests,
             \/ \E n \in Negotiations :
                  \/ Trade!OpenRead(r, n) \/ Trade!CancelDealRead(r, n) \/ Trade!EndLock(r, n)
                  \/ \E party \in Trade!Parties :
                       \/ Trade!CounterRead(r, n, party) \/ Trade!AcceptRead(r, n, party)
                       \/ Trade!ConfirmRead(r, n, party)
                       \/ Trade!Reject(r, n, party) \/ Trade!Withdraw(r, n, party)
             \/ \E l \in Trade!Listings :
                  \/ Trade!SweepRead(r, l) \/ Trade!RemoveRead(r, l)
                  \/ Trade!CancelListing(r, l) \/ Trade!ExpireListing(r, l)
             \/ Trade!CounterBegin(r) \/ Trade!AcceptLock(r) \/ Trade!AcceptBegin(r)
             \/ Trade!ConfirmBegin(r) \/ Trade!CancelDealBegin(r) \/ Trade!EndBegin(r)
             \/ Trade!Move(r)
      PROVE  TradeInv' /\ neg' = neg
  BY <1>6, ReadsKeep, EndLockKeeps, BeginsKeep, AcceptLockKeeps, EndBeginKeeps, MoveKeeps
<1>7. ASSUME NEW r \in Requests,
             \/ Trade!OpenCommit(r) \/ Trade!CounterCommit(r) \/ Trade!AcceptCommit(r)
             \/ Trade!CloseCommit(r) \/ Trade!ConfirmCommit(r) \/ Trade!CancelDealCommit(r)
             \/ Trade!EndCommit(r)
      PROVE  TradeInv' /\ Trade!AgreedStep
  BY <1>1, <1>7, OpenKeeps, CounterKeeps, AcceptKeeps, CloseKeeps, DealKeeps, ListingEnds
<1>8. ASSUME NEW n \in Negotiations, Trade!Lapse(n) \/ Trade!ExpireNegotiation(n)
      PROVE  TradeInv' /\ Trade!AgreedStep
  BY <1>8, UnlockedKeeps
<1>. QED  BY <1>1, <1>2, <1>4, <1>5, <1>6, <1>7, <1>8 DEF Trade!Next

LEMMA TradeInit ==
  ASSUME Trade!Init
  PROVE  TradeInv
<1>1. \A r \in Requests : req[r] = Trade!Idle
  BY DEF Trade!Init
<1>2. \A n \in Negotiations : Terms(n)
  BY DEF Trade!Init, Terms, Trade!NotOpened, Trade!Negotiation, Trade!NoDeal, Trade!Deal, Trade!Parties
<1>3. DOMAIN req = Requests /\ DOMAIN neg = Negotiations /\ DOMAIN deal = Negotiations
  BY DEF Trade!Init
<1>. QED  BY <1>1, <1>2, <1>3, TradeIdle DEF TradeInv

\* However many offers, acceptances and ends of listings race, a deal has the
\* terms of the last offer of its negotiation, which one party made and the
\* other accepted (import-negotiations.service.ts, accept and counter).
THEOREM DealsAreTheLastOffer ==
  ASSUME Trade!TradeConstants
  PROVE  Trade!Spec => []Trade!DealIsTheLastOffer
<1>1. TradeInv => Trade!DealIsTheLastOffer
  BY DEF TradeInv, Terms, Trade!DealIsTheLastOffer
<1>. QED  BY <1>1, TradeInit, TradeStep, PTL DEF Trade!Spec

\* A negotiation without a linked listing that ended in a deal stays agreed,
\* for any number of requests that end its listing: only the lock of the
\* listing keeps the end from what it found open before (endListing).
THEOREM AgreementsStay ==
  ASSUME Trade!TradeConstants
  PROVE  Trade!Spec => Trade!AgreedStaysAgreed
<1>. QED  BY TradeInit, TradeStep, PTL DEF Trade!Spec, Trade!AgreedStaysAgreed

-----------------------------------------------------------------------------
(* Types: what a request writes is of a row's type, because it knows its    *)
(* rows (TradeInv).                                                         *)

NegRow == [status : Trade!NegotiationStatus, last : Trade!Parties, round : Nat, overdue : BOOLEAN]
DealRow == [status : Trade!DealStatus, confirmed : SUBSET Trade!Parties, round : Nat, by : Trade!Parties]

RequestTyped(c) ==
  /\ c.at \in {"idle", "held", "inside", "moving", "ending"}
  /\ c.kind \in Trade!AllKinds
  /\ c.at # "idle" /\ c.kind \in ListingKinds => c.l \in Trade!Listings

TradeTyped ==
  /\ listing \in [Trade!Listings -> Trade!ListingStatus] /\ gone \subseteq Trade!Listings
  /\ neg \in [Negotiations -> NegRow]
  /\ deal \in [Negotiations -> DealRow]
  /\ \A r \in Requests : RequestTyped(req[r])

LEMMA TypedRows ==
  /\ \A status \in Trade!NegotiationStatus, last \in Trade!Parties, round \in Nat, overdue \in BOOLEAN :
       Trade!Negotiation(status, last, round, overdue) \in NegRow
  /\ \A status \in Trade!DealStatus, signed \in SUBSET Trade!Parties, round \in Nat, by \in Trade!Parties :
       Trade!Deal(status, signed, round, by) \in DealRow
  BY DEF Trade!Negotiation, Trade!Deal, NegRow, DealRow

LEMMA IdleTyped == RequestTyped(Trade!Idle)
  BY DEF RequestTyped, Trade!Idle, Trade!Request, Trade!AllKinds

\* A request goes on, and the rows keep their types.
LEMMA TypesKept ==
  ASSUME TradeTyped, TradeInv, NEW r \in Requests, NEW c, RequestTyped(c),
         req' = [req EXCEPT ![r] = c],
         listing' \in [Trade!Listings -> Trade!ListingStatus], gone' \subseteq Trade!Listings,
         neg' \in [Negotiations -> NegRow], deal' \in [Negotiations -> DealRow]
  PROVE  TradeTyped'
<1>1. \A q \in Requests : req'[q] = IF q = r THEN c ELSE req[q]
  BY DEF TradeInv
<1>2. \A q \in Requests : RequestTyped(req'[q])
  BY <1>1 DEF TradeTyped
<1>. QED  BY <1>2 DEF TradeTyped, RequestTyped

\* What a handler reads before its transaction.
LEMMA HoldTyped ==
  ASSUME TradeTyped, TradeInv, NEW r \in Requests, NEW kind \in Trade!AllKinds, NEW n, NEW l, NEW party,
         Trade!Hold(r, kind, n, l, party), kind \in ListingKinds => l \in Trade!Listings
  PROVE  TradeTyped'
<1> DEFINE c == Trade!Request("held", kind, n, l, party, {}, <<>>, "PUBLISHED", {}, {})
<1>1. req' = [req EXCEPT ![r] = c] /\ UNCHANGED <<listing, gone, neg, deal>>
  BY DEF Trade!Hold, Trade!tradeVars
<1>2. RequestTyped(c)
  BY DEF RequestTyped, Trade!Request
<1> HIDE DEF c
<1>. QED  BY <1>1, <1>2, TypesKept DEF TradeTyped

LEMMA ReadsTyped ==
  ASSUME TradeTyped, TradeInv, NEW r \in Requests,
         \/ \E n \in Negotiations :
              \/ Trade!OpenRead(r, n) \/ Trade!CancelDealRead(r, n)
              \/ \E party \in Trade!Parties :
                   \/ Trade!CounterRead(r, n, party) \/ Trade!AcceptRead(r, n, party)
                   \/ Trade!ConfirmRead(r, n, party)
                   \/ Trade!Reject(r, n, party) \/ Trade!Withdraw(r, n, party)
         \/ \E l \in Trade!Listings :
              \/ Trade!SweepRead(r, l) \/ Trade!RemoveRead(r, l)
              \/ Trade!CancelListing(r, l) \/ Trade!ExpireListing(r, l)
  PROVE  TradeTyped'
<1>1. PICK kind, n, l, party :
        /\ Trade!Hold(r, kind, n, l, party)
        /\ kind \in Trade!AllKinds /\ (kind \in ListingKinds => l \in Trade!Listings)
  <2>1. ASSUME NEW n \in Negotiations, Trade!OpenRead(r, n) \/ Trade!CancelDealRead(r, n)
        PROVE  \E kind \in {"OPEN", "CANCEL_DEAL"} : \E l, party : Trade!Hold(r, kind, n, l, party)
    BY <2>1 DEF Trade!OpenRead, Trade!CancelDealRead
  <2>2. ASSUME NEW n \in Negotiations, NEW party \in Trade!Parties,
               \/ Trade!CounterRead(r, n, party) \/ Trade!AcceptRead(r, n, party)
               \/ Trade!ConfirmRead(r, n, party)
               \/ Trade!Reject(r, n, party) \/ Trade!Withdraw(r, n, party)
        PROVE  \E kind \in {"COUNTER", "ACCEPT", "CONFIRM", "REJECT", "WITHDRAW"} : \E l :
                 Trade!Hold(r, kind, n, l, party)
    BY <2>2 DEF Trade!CounterRead, Trade!AcceptRead, Trade!ConfirmRead, Trade!Reject,
                Trade!Withdraw, Trade!CloseRead
  <2>3. ASSUME NEW l \in Trade!Listings,
               \/ Trade!SweepRead(r, l) \/ Trade!RemoveRead(r, l)
               \/ Trade!CancelListing(r, l) \/ Trade!ExpireListing(r, l)
        PROVE  \E kind \in ListingKinds : \E n, party : Trade!Hold(r, kind, n, l, party)
    BY <2>3 DEF Trade!SweepRead, Trade!RemoveRead, Trade!CancelListing, Trade!ExpireListing,
                Trade!EndRead, ListingKinds
  <2>. QED  BY <2>1, <2>2, <2>3 DEF Trade!AllKinds, ListingKinds
<1>. QED  BY <1>1, HoldTyped

\* A transaction locks and checks, and writes nothing yet.
LEMMA WorkTyped ==
  ASSUME TradeTyped, TradeInv, NEW r \in Requests,
         \/ Trade!CounterBegin(r) \/ Trade!AcceptLock(r) \/ Trade!AcceptBegin(r)
         \/ Trade!ConfirmBegin(r) \/ Trade!CancelDealBegin(r)
         \/ Trade!EndBegin(r) \/ \E n \in Negotiations : Trade!EndLock(r, n)
         \/ Trade!Move(r)
  PROVE  TradeTyped'
<1>1. PICK c : /\ req' = [req EXCEPT ![r] = c] /\ UNCHANGED <<listing, gone, neg, deal>>
               /\ c.at \in {"inside", "moving", "ending"} /\ c.kind = req[r].kind /\ c.l = req[r].l
  <2>1. CASE \/ Trade!CounterBegin(r) \/ Trade!AcceptBegin(r)
             \/ Trade!ConfirmBegin(r) \/ Trade!CancelDealBegin(r) \/ Trade!Move(r)
    <3>1. UNCHANGED <<listing, gone, neg, deal>>
      BY <2>1 DEF Trade!CounterBegin, Trade!AcceptBegin, Trade!ConfirmBegin, Trade!CancelDealBegin,
         Trade!Move, Trade!tradeVars
    <3>2. PICK rows, todo, seen, wrote :
            req' = [req EXCEPT ![r] = Trade!Moving(req[r], rows, todo, seen, wrote)]
      BY <2>1 DEF Trade!CounterBegin, Trade!AcceptBegin, Trade!ConfirmBegin, Trade!CancelDealBegin,
         Trade!Move, Trade!StartMoving
    <3> DEFINE d == Trade!Moving(req[r], rows, todo, seen, wrote)
    <3>3. d.at = "moving" /\ d.kind = req[r].kind /\ d.l = req[r].l
      BY DEF Trade!Moving, Trade!Request
    <3> HIDE DEF d
    <3>. QED  BY <3>1, <3>2, <3>3 DEF d
  <2>2. CASE \/ Trade!AcceptLock(r) \/ Trade!EndBegin(r) \/ \E n \in Negotiations : Trade!EndLock(r, n)
    <3>1. UNCHANGED <<listing, gone, neg, deal>>
      BY <2>2 DEF Trade!AcceptLock, Trade!EndBegin, Trade!EndLock, Trade!tradeVars
    <3>4. PICK at \in {"inside", "ending"} : \E rows, closing :
             req' = [req EXCEPT ![r] = Trade!Locked(req[r], at, rows, closing)]
      BY <2>2 DEF Trade!AcceptLock, Trade!EndBegin, Trade!EndLock
    <3>2. PICK rows, closing :
            req' = [req EXCEPT ![r] = Trade!Locked(req[r], at, rows, closing)]
      BY <3>4
    <3> DEFINE d == Trade!Locked(req[r], at, rows, closing)
    <3>3. d.at = at /\ d.kind = req[r].kind /\ d.l = req[r].l
      BY DEF Trade!Locked, Trade!Request
    <3> HIDE DEF d
    <3>. QED  BY <3>1, <3>2, <3>3 DEF d
  <2>. QED  BY <2>1, <2>2
<1>2. req[r].at # "idle"
  BY DEF Trade!CounterBegin, Trade!AcceptLock, Trade!AcceptBegin, Trade!ConfirmBegin,
     Trade!CancelDealBegin, Trade!EndBegin, Trade!EndLock, Trade!Move, Trade!Held
<1>3. RequestTyped(c)
  BY <1>1, <1>2 DEF RequestTyped, TradeTyped
<1>. QED  BY <1>1, <1>3, TypesKept DEF TradeTyped

\* A refusal, and the end of a request that only touches listings.
LEMMA DoneTyped ==
  ASSUME TradeTyped, TradeInv, NEW r \in Requests,
         \/ Trade!OpenRefused(r) \/ Trade!TurnRefused(r) \/ Trade!CloseRefused(r)
         \/ Trade!ConfirmRefused(r) \/ Trade!EndRefused(r) \/ Trade!DeadlockEnds(r)
         \/ Trade!RemoveCommit(r)
  PROVE  TradeTyped'
<1>1. Trade!Done(r) /\ UNCHANGED <<listing, neg, deal>>
  BY DEF Trade!OpenRefused, Trade!TurnRefused, Trade!CloseRefused, Trade!ConfirmRefused,
     Trade!EndRefused, Trade!DeadlockEnds, Trade!RemoveCommit, Trade!Refuse, Trade!tradeVars
<1>2. gone' \subseteq Trade!Listings
  <2>1. CASE Trade!RemoveCommit(r)
    BY <2>1 DEF Trade!RemoveCommit, Trade!Held, TradeTyped, RequestTyped, ListingKinds
  <2>2. CASE ~Trade!RemoveCommit(r)
    BY <2>2 DEF Trade!OpenRefused, Trade!TurnRefused, Trade!CloseRefused, Trade!ConfirmRefused,
       Trade!EndRefused, Trade!DeadlockEnds, Trade!Refuse, Trade!tradeVars, TradeTyped
  <2>. QED  BY <2>1, <2>2
<1>. QED  BY <1>1, <1>2, IdleTyped, TypesKept DEF Trade!Done, TradeTyped

\* What a transaction writes when it commits.
LEMMA CommitsTyped ==
  ASSUME Trade!TradeConstants, TradeTyped, TradeInv, NEW r \in Requests,
         \/ Trade!OpenCommit(r) \/ Trade!CounterCommit(r) \/ Trade!AcceptCommit(r)
         \/ Trade!CloseCommit(r) \/ Trade!ConfirmCommit(r) \/ Trade!CancelDealCommit(r)
         \/ Trade!EndCommit(r)
  PROVE  TradeTyped'
<1>1. Trade!Done(r) /\ gone' = gone
  BY DEF Trade!OpenCommit, Trade!CounterCommit, Trade!AcceptCommit, Trade!CloseCommit,
     Trade!ConfirmCommit, Trade!CancelDealCommit, Trade!EndCommit, Trade!Commits
<1>2. req[r].party \in Trade!Parties /\ \A n \in Negotiations : neg[n] \in NegRow /\ deal[n] \in DealRow
  BY DEF TradeInv, Holds, TradeTyped
<1>3. /\ \A n \in Negotiations : /\ neg[n].status \in Trade!NegotiationStatus /\ neg[n].last \in Trade!Parties
                                 /\ neg[n].round \in Nat /\ neg[n].overdue \in BOOLEAN
                                 /\ deal[n].confirmed \in SUBSET Trade!Parties
                                 /\ deal[n].round \in Nat /\ deal[n].by \in Trade!Parties
  BY <1>2 DEF NegRow, DealRow
<1>4. listing' \in [Trade!Listings -> Trade!ListingStatus]
  <2>1. CASE Trade!OpenCommit(r) \/ Trade!CloseCommit(r)
    <3>1. \/ listing' = listing
          \/ listing' = [listing EXCEPT ![Primary[req[r].n]] = "OFFER_RECEIVED"]
      BY <2>1 DEF Trade!OpenCommit, Trade!CloseCommit
    <3>. QED  BY <3>1 DEF TradeTyped, Trade!ListingStatus, Trade!Open
  <2>2. CASE Trade!EndCommit(r)
    <3>1. PICK target \in {"CANCELLED", "EXPIRED"} : listing' = [listing EXCEPT ![req[r].l] = target]
      BY <2>2 DEF Trade!EndCommit
    <3>. QED  BY <3>1 DEF TradeTyped, Trade!ListingStatus
  <2>3. CASE \/ Trade!CounterCommit(r) \/ Trade!AcceptCommit(r) \/ Trade!ConfirmCommit(r)
             \/ Trade!CancelDealCommit(r)
    <3>1. PICK kind \in {"COUNTER", "ACCEPT", "CONFIRM", "CANCEL_DEAL"} : Trade!Commits(r, kind)
      BY <2>3 DEF Trade!CounterCommit, Trade!AcceptCommit, Trade!ConfirmCommit, Trade!CancelDealCommit
    <3>2. Trade!Target(kind) \in Trade!ListingStatus
      BY DEF Trade!Target, Trade!ListingStatus, Trade!Open
    <3>3. listing' = [l \in Trade!Listings |-> IF l \in req[r].wrote THEN Trade!Target(kind) ELSE listing[l]]
      BY <3>1 DEF Trade!Commits
    <3>. QED  BY <3>2, <3>3 DEF TradeTyped
  <2>. QED  BY <2>1, <2>2, <2>3
<1>5. neg' \in [Negotiations -> NegRow]
  <2>1. CASE Trade!ConfirmCommit(r) \/ Trade!CancelDealCommit(r)
    BY <2>1 DEF Trade!ConfirmCommit, Trade!CancelDealCommit, TradeTyped
  <2>2. CASE Trade!EndCommit(r)
    <3>1. PICK target \in {"CANCELLED", "EXPIRED"} :
            neg' = [n \in Negotiations |-> IF n \in req[r].closing
                      THEN Trade!Negotiation(target, neg[n].last, neg[n].round, neg[n].overdue)
                      ELSE neg[n]]
      BY <2>2 DEF Trade!EndCommit
    <3>2. \A n \in Negotiations : Trade!Negotiation(target, neg[n].last, neg[n].round, neg[n].overdue) \in NegRow
      BY <1>3, TypedRows DEF Trade!NegotiationStatus
    <3>. QED  BY <1>2, <3>1, <3>2
  <2>3. CASE \/ Trade!OpenCommit(r) \/ Trade!CounterCommit(r) \/ Trade!AcceptCommit(r)
             \/ Trade!CloseCommit(r)
    <3>1. req[r].n \in Negotiations
      BY <2>3 DEF Trade!OpenCommit, Trade!CounterCommit, Trade!AcceptCommit, Trade!CloseCommit,
         Trade!Commits, Trade!Held, TradeInv, Holds, ListingKinds
    <3> DEFINE x == neg[req[r].n]
    <3>2. PICK status \in Trade!NegotiationStatus, last \in Trade!Parties, round \in Nat, overdue \in BOOLEAN :
            neg' = [neg EXCEPT ![req[r].n] = Trade!Negotiation(status, last, round, overdue)]
      <4>1. "OPENER" \in Trade!Parties /\ {"OPEN", "AGREED", "REJECTED", "WITHDRAWN"} \subseteq Trade!NegotiationStatus
        BY DEF Trade!Parties, Trade!NegotiationStatus
      <4>2. x.status \in Trade!NegotiationStatus /\ x.round \in Nat /\ x.overdue \in BOOLEAN
        BY <1>3, <3>1
      <4>3. CASE Trade!OpenCommit(r)
        BY <4>1, <4>3 DEF Trade!OpenCommit
      <4>4. CASE Trade!CounterCommit(r)
        <5>1. neg' = [neg EXCEPT ![req[r].n] = Trade!Negotiation(x.status, req[r].party, x.round + 1, FALSE)]
          BY <4>4 DEF Trade!CounterCommit
        <5>2. x.round + 1 \in Nat
          BY <4>2
        <5> HIDE DEF x
        <5>. QED  BY <1>2, <4>2, <5>1, <5>2
      <4>5. CASE Trade!AcceptCommit(r)
        <5>1. neg' = [neg EXCEPT ![req[r].n] = Trade!Negotiation("AGREED", req[r].party, x.round, x.overdue)]
          BY <4>5 DEF Trade!AcceptCommit
        <5>. QED  BY <1>2, <4>1, <4>2, <5>1
      <4>6. CASE Trade!CloseCommit(r)
        <5>1. PICK status \in {"REJECTED", "WITHDRAWN"} :
                neg' = [neg EXCEPT ![req[r].n] = Trade!Negotiation(status, req[r].party, x.round, x.overdue)]
          BY <4>6 DEF Trade!CloseCommit
        <5>. QED  BY <1>2, <4>1, <4>2, <5>1
      <4>. QED  BY <2>3, <4>3, <4>4, <4>5, <4>6
    <3>. QED  BY SMTT(30), <3>1, <3>2, TypedRows DEF TradeTyped
  <2>. QED  BY <2>1, <2>2, <2>3
<1>6. deal' \in [Negotiations -> DealRow]
  <2>1. CASE \/ Trade!OpenCommit(r) \/ Trade!CounterCommit(r) \/ Trade!CloseCommit(r) \/ Trade!EndCommit(r)
    BY <2>1 DEF Trade!OpenCommit, Trade!CounterCommit, Trade!CloseCommit, Trade!EndCommit, TradeTyped
  <2>2. CASE Trade!AcceptCommit(r) \/ Trade!ConfirmCommit(r) \/ Trade!CancelDealCommit(r)
    <3>1. req[r].n \in Negotiations
      BY <2>2 DEF Trade!AcceptCommit, Trade!ConfirmCommit, Trade!CancelDealCommit,
         Trade!Commits, TradeInv, Holds, ListingKinds
    <3> DEFINE x == neg[req[r].n]
               d == deal[req[r].n]
    <3>2. PICK status \in Trade!DealStatus, signed \in SUBSET Trade!Parties, round \in Nat, by \in Trade!Parties :
            deal' = [deal EXCEPT ![req[r].n] = Trade!Deal(status, signed, round, by)]
      <4>1. {"PENDING_CONFIRMATION", "CONFIRMED", "CANCELLED"} \subseteq Trade!DealStatus
        BY DEF Trade!DealStatus
      <4>2. /\ x.last \in Trade!Parties /\ x.round \in Nat /\ d.confirmed \in SUBSET Trade!Parties
            /\ d.round \in Nat /\ d.by \in Trade!Parties
            /\ {req[r].party} \in SUBSET Trade!Parties /\ Trade!Parties \in SUBSET Trade!Parties
        BY <1>2, <1>3, <3>1
      <4>3. CASE Trade!AcceptCommit(r)
        <5>1. deal' = [deal EXCEPT ![req[r].n] =
                Trade!Deal("PENDING_CONFIRMATION", {req[r].party}, x.round, x.last)]
          BY <4>3 DEF Trade!AcceptCommit
        <5>. QED  BY <4>1, <4>2, <5>1
      <4>4. CASE Trade!ConfirmCommit(r)
        <5>1. deal' = [deal EXCEPT ![req[r].n] = Trade!Deal("CONFIRMED", Trade!Parties, d.round, d.by)]
          BY <4>4 DEF Trade!ConfirmCommit
        <5>. QED  BY <4>1, <4>2, <5>1
      <4>5. CASE Trade!CancelDealCommit(r)
        <5>1. deal' = [deal EXCEPT ![req[r].n] = Trade!Deal("CANCELLED", d.confirmed, d.round, d.by)]
          BY <4>5 DEF Trade!CancelDealCommit
        <5>. QED  BY <4>1, <4>2, <5>1
      <4>. QED  BY <2>2, <4>3, <4>4, <4>5
    <3>. QED  BY <3>1, <3>2, TypedRows DEF TradeTyped
  <2>. QED  BY <2>1, <2>2
<1>. QED  BY <1>1, <1>4, <1>5, <1>6, IdleTyped, TypesKept DEF Trade!Done, TradeTyped

LEMMA TypedStep ==
  ASSUME Trade!TradeConstants, TradeTyped, TradeInv, [Trade!Next]_(Trade!vars)
  PROVE  TradeTyped'
<1>1. ASSUME NEW l \in Trade!Listings,
             Trade!Publish(l) \/ Trade!Pause(l) \/ Trade!Resume(l) \/ Trade!Matched(l)
      PROVE  TradeTyped'
  <2>1. PICK to \in Trade!ListingStatus : listing' = [listing EXCEPT ![l] = to]
    BY <1>1 DEF Trade!Publish, Trade!Pause, Trade!Resume, Trade!Matched, Trade!Switch,
       Trade!ListingStatus, Trade!Open
  <2>2. UNCHANGED <<gone, neg, deal, req>>
    BY <1>1 DEF Trade!Publish, Trade!Pause, Trade!Resume, Trade!Matched, Trade!Switch
  <2>. QED  BY <2>1, <2>2 DEF TradeTyped, RequestTyped
<1>2. ASSUME NEW n \in Negotiations, Trade!Lapse(n) \/ Trade!ExpireNegotiation(n)
      PROVE  TradeTyped'
  <2> DEFINE x == neg[n]
  <2>1. /\ x.status \in Trade!NegotiationStatus /\ x.last \in Trade!Parties
        /\ x.round \in Nat /\ x.overdue \in BOOLEAN
    BY DEF TradeTyped, NegRow
  <2>2. PICK status \in Trade!NegotiationStatus, overdue \in BOOLEAN :
          neg' = [neg EXCEPT ![n] = Trade!Negotiation(status, x.last, x.round, overdue)]
    BY <1>2, <2>1 DEF Trade!Lapse, Trade!ExpireNegotiation, Trade!NegotiationStatus
  <2>3. UNCHANGED <<listing, gone, deal, req>>
    BY <1>2 DEF Trade!Lapse, Trade!ExpireNegotiation
  <2>. QED  BY <2>1, <2>2, <2>3, TypedRows DEF TradeTyped, RequestTyped
<1>3. CASE UNCHANGED Trade!vars
  BY <1>3 DEF Trade!vars, TradeTyped, RequestTyped
<1>. QED  BY <1>1, <1>2, <1>3, ReadsTyped, WorkTyped, DoneTyped, CommitsTyped DEF Trade!Next

LEMMA TypedInit ==
  ASSUME Trade!Init
  PROVE  TradeTyped
<1>1. Trade!NotOpened \in NegRow /\ Trade!NoDeal \in DealRow
  BY TypedRows DEF Trade!NotOpened, Trade!NoDeal, Trade!NegotiationStatus, Trade!DealStatus, Trade!Parties
<1>2. neg \in [Negotiations -> NegRow] /\ deal \in [Negotiations -> DealRow]
  BY <1>1 DEF Trade!Init
<1>3. listing \in [Trade!Listings -> Trade!ListingStatus] /\ gone \subseteq Trade!Listings
  BY DEF Trade!Init, Trade!ListingStatus, Trade!Open
<1>4. \A r \in Requests : req[r] = Trade!Idle
  BY DEF Trade!Init
<1>. QED  BY <1>2, <1>3, <1>4, IdleTyped DEF TradeTyped

\* Every listing, negotiation, deal and request keeps to its type, for any
\* number of them: no transaction writes for a negotiation it has not.
THEOREM TradeIsTyped ==
  ASSUME Trade!TradeConstants
  PROVE  Trade!Spec => []Trade!TypeOK
<1>1. TradeTyped => Trade!TypeOK
  BY DEF TradeTyped, RequestTyped, NegRow, DealRow, Trade!TypeOK
<1>. QED  BY <1>1, TradeInit, TradeStep, TypedInit, TypedStep, PTL DEF Trade!Spec

-----------------------------------------------------------------------------
(* The negotiations implement the abstract Bargain.                         *)

\* Where neg and deal stay, so does the bargain.
LEMMA BargainStays ==
  ASSUME NEW n \in Negotiations, neg'[n] = neg[n], deal'[n] = deal[n]
  PROVE  Trade!Bargains'[n] = Trade!Bargains[n]
  BY DEF Trade!Bargains, Trade!Stage, Trade!Turn

\* One negotiation goes a step.
LEMMA OneBargainSteps ==
  ASSUME NEW n \in Negotiations,
         \A x \in Negotiations \ {n} : neg'[x] = neg[x] /\ deal'[x] = deal[x],
         Trade!Bargained!Step(n) \/ Trade!Bargains'[n] = Trade!Bargains[n]
  PROVE  Trade!Bargained!Next
<1>1. Trade!Bargains' = [b \in Negotiations |-> Trade!Bargains'[b]]
  BY DEF Trade!Bargains
<1>2. \A x \in Negotiations \ {n} : Trade!Bargains'[x] = Trade!Bargains[x]
  BY BargainStays
<1>. QED  BY <1>1, <1>2 DEF Trade!Bargained!Next

\* What Bargain sees of a negotiation, and of the deal in it.
LEMMA BargainSeen ==
  ASSUME NEW n \in Negotiations
  PROVE  /\ Trade!Bargains[n]
              = Trade!Bargained!Bargain(Trade!Stage(n), neg[n].round, Trade!Turn(n), deal[n])
         /\ Trade!Bargains'[n]
              = Trade!Bargained!Bargain(Trade!Stage(n)', neg'[n].round, Trade!Turn(n)', deal'[n])
  BY DEF Trade!Bargains, Trade!Bargained!Bargain

LEMMA DealsAlike ==
  ASSUME NEW status, NEW signed, NEW round, NEW by
  PROVE  Trade!Deal(status, signed, round, by) = Trade!Bargained!Deal(status, signed, round, by)
  BY DEF Trade!Deal, Trade!Bargained!Deal

\* The steps of the parties.
LEMMA PartiesBargain ==
  ASSUME TradeInv, NEW r \in Requests,
         \/ Trade!OpenCommit(r) \/ Trade!CounterCommit(r) \/ Trade!AcceptCommit(r)
         \/ Trade!CloseCommit(r)
  PROVE  Trade!Bargained!Next
<1>1. DOMAIN neg = Negotiations /\ DOMAIN deal = Negotiations
  BY DEF TradeInv
<1>2. PICK n \in Negotiations : n = req[r].n
  <2>1. req[r].at # "idle" /\ req[r].kind \notin ListingKinds
    BY DEF Trade!OpenCommit, Trade!CounterCommit, Trade!AcceptCommit, Trade!CloseCommit,
           Trade!Commits, Trade!Held, ListingKinds
  <2>. QED  BY <2>1 DEF TradeInv, Holds
<1> DEFINE x == neg[n]
<1>8. x.last \in Trade!Parties /\ req[r].party \in Trade!Parties
  BY DEF TradeInv, Holds, Terms
<1>3. Trade!Bargains[n] = Trade!Bargained!Bargain(Trade!Stage(n), x.round, Trade!Turn(n), deal[n])
      /\ Trade!Bargains'[n]
           = Trade!Bargained!Bargain(Trade!Stage(n)', neg'[n].round, Trade!Turn(n)', deal'[n])
  BY <1>2, BargainSeen
<1>4. CASE Trade!OpenCommit(r)
  <2> DEFINE m == Trade!Negotiation("OPEN", "OPENER", 1, FALSE)
  <2>1. x.status = "NONE" /\ neg' = [neg EXCEPT ![n] = m] /\ deal' = deal
    BY <1>2, <1>4 DEF Trade!OpenCommit
  <2>2. m.status = "OPEN" /\ m.last = "OPENER" /\ m.round = 1
    BY DEF Trade!Negotiation
  <2> HIDE DEF m
  <2>3. neg'[n] = m /\ \A y \in Negotiations \ {n} : neg'[y] = neg[y] /\ deal'[y] = deal[y]
    BY <1>1, <1>2, <2>1
  <2>4. Trade!Stage(n) = "NONE" /\ Trade!Stage(n)' = "OPEN" /\ Trade!Turn(n)' = "OWNER"
    BY <2>1, <2>2, <2>3 DEF Trade!Stage, Trade!Turn, Trade!Other
  <2>5. Trade!Bargained!Open(n)
    BY <1>3, <2>1, <2>2, <2>3, <2>4 DEF Trade!Bargained!Open, Trade!Bargained!Bargain
  <2>. QED  BY <1>2, <2>3, <2>5, OneBargainSteps DEF Trade!Bargained!Step
<1>5. CASE Trade!CounterCommit(r)
  <2> DEFINE m == Trade!Negotiation(x.status, req[r].party, x.round + 1, FALSE)
  <2>1. neg' = [neg EXCEPT ![n] = m] /\ deal' = deal /\ x.status = "OPEN" /\ x.last # req[r].party
    BY <1>2, <1>5 DEF Trade!CounterCommit, Trade!Commits, TradeInv, Holds, Trade!MyTurn, ListingKinds
  <2>2. m.status = "OPEN" /\ m.last = req[r].party /\ m.round = x.round + 1
    BY <2>1 DEF Trade!Negotiation
  <2> HIDE DEF m
  <2>3. neg'[n] = m /\ \A y \in Negotiations \ {n} : neg'[y] = neg[y] /\ deal'[y] = deal[y]
    BY <1>1, <1>2, <2>1
  <2>4. /\ Trade!Stage(n) = "OPEN" /\ Trade!Stage(n)' = "OPEN"
        /\ Trade!Turn(n)' = Trade!Bargained!Other(Trade!Turn(n))
    BY <1>8, <2>1, <2>2, <2>3 DEF Trade!Stage, Trade!Turn, Trade!Other, Trade!Parties, Trade!Bargained!Other
  <2>5. Trade!Bargained!Counter(n)
    BY <1>3, <2>1, <2>2, <2>3, <2>4 DEF Trade!Bargained!Counter, Trade!Bargained!Bargain
  <2>. QED  BY <1>2, <2>3, <2>5, OneBargainSteps DEF Trade!Bargained!Step
<1>6. CASE Trade!AcceptCommit(r)
  <2> DEFINE m == Trade!Negotiation("AGREED", req[r].party, x.round, x.overdue)
             d == Trade!Deal("PENDING_CONFIRMATION", {req[r].party}, x.round, x.last)
  <2>1. /\ neg' = [neg EXCEPT ![n] = m] /\ deal' = [deal EXCEPT ![n] = d]
        /\ x.status = "OPEN" /\ x.last # req[r].party
    BY <1>2, <1>6 DEF Trade!AcceptCommit, Trade!Commits, TradeInv, Holds, Trade!MyTurn, ListingKinds
  <2>2. m.status = "AGREED" /\ m.round = x.round
    BY DEF Trade!Negotiation
  <2>3. d = Trade!Bargained!Deal("PENDING_CONFIRMATION", {req[r].party}, x.round, x.last)
    BY DealsAlike
  <2> HIDE DEF m, d
  <2>4. /\ neg'[n] = m /\ deal'[n] = d
        /\ \A y \in Negotiations \ {n} : neg'[y] = neg[y] /\ deal'[y] = deal[y]
    BY <1>1, <1>2, <2>1
  <2>5. /\ Trade!Stage(n) = "OPEN" /\ Trade!Stage(n)' = "AGREED" /\ Trade!Turn(n)' = "NOBODY"
        /\ Trade!Turn(n) = req[r].party /\ x.last = Trade!Bargained!Other(req[r].party)
    BY <1>8, <2>1, <2>2, <2>4 DEF Trade!Stage, Trade!Turn, Trade!Other, Trade!Parties, Trade!Bargained!Other
  <2>6. Trade!Bargained!Accept(n)
    BY <1>3, <2>2, <2>3, <2>4, <2>5 DEF Trade!Bargained!Accept, Trade!Bargained!Bargain
  <2>. QED  BY <1>2, <2>4, <2>6, OneBargainSteps DEF Trade!Bargained!Step
<1>7. CASE Trade!CloseCommit(r)
  <2> DEFINE status == IF req[r].kind = "REJECT" THEN "REJECTED" ELSE "WITHDRAWN"
             m == Trade!Negotiation(status, req[r].party, x.round, x.overdue)
  <2>1. neg' = [neg EXCEPT ![n] = m] /\ deal' = deal /\ x.status = "OPEN"
    BY <1>2, <1>7 DEF Trade!CloseCommit
  <2>2. m.status \in {"REJECTED", "WITHDRAWN"} /\ m.round = x.round
    BY DEF Trade!Negotiation
  <2> HIDE DEF m
  <2>3. neg'[n] = m /\ \A y \in Negotiations \ {n} : neg'[y] = neg[y] /\ deal'[y] = deal[y]
    BY <1>1, <1>2, <2>1
  <2>4. Trade!Stage(n) = "OPEN" /\ Trade!Stage(n)' = "ENDED" /\ Trade!Turn(n)' = "NOBODY"
    BY <2>1, <2>2, <2>3 DEF Trade!Stage, Trade!Turn
  <2>5. Trade!Bargained!End(n)
    BY <1>3, <2>1, <2>2, <2>3, <2>4 DEF Trade!Bargained!End, Trade!Bargained!Bargain
  <2>. QED  BY <1>2, <2>3, <2>5, OneBargainSteps DEF Trade!Bargained!Step
<1>. QED  BY <1>4, <1>5, <1>6, <1>7

\* The deal is signed or cancelled, by whoever holds its row.
LEMMA DealBargain ==
  ASSUME TradeInv, TradeTyped, NEW r \in Requests,
         Trade!ConfirmCommit(r) \/ Trade!CancelDealCommit(r)
  PROVE  [Trade!Bargained!Next]_(Trade!Bargains)
<1>1. PICK n \in Negotiations : n = req[r].n
  <2>1. req[r].at # "idle" /\ req[r].kind \notin ListingKinds
    BY DEF Trade!ConfirmCommit, Trade!CancelDealCommit, Trade!Commits, ListingKinds
  <2>. QED  BY <2>1 DEF TradeInv, Holds
<1> DEFINE x == deal[n]
<1>2. /\ neg' = neg /\ DOMAIN deal = Negotiations
      /\ Trade!Bargains[n] = Trade!Bargained!Bargain(Trade!Stage(n), neg[n].round, Trade!Turn(n), x)
      /\ Trade!Bargains'[n]
           = Trade!Bargained!Bargain(Trade!Stage(n)', neg'[n].round, Trade!Turn(n)', deal'[n])
  BY BargainSeen DEF Trade!ConfirmCommit, Trade!CancelDealCommit, TradeInv
<1>3. Trade!Stage(n)' = Trade!Stage(n) /\ Trade!Turn(n)' = Trade!Turn(n)
  BY <1>2 DEF Trade!Stage, Trade!Turn
<1>4. CASE Trade!ConfirmCommit(r)
  <2> DEFINE d == Trade!Deal("CONFIRMED", Trade!Parties, x.round, x.by)
  <2>1. deal' = [deal EXCEPT ![n] = d] /\ x.status = "PENDING_CONFIRMATION"
    BY <1>1, <1>4 DEF Trade!ConfirmCommit, Trade!Commits, TradeInv, Holds
  <2>2. d = Trade!Bargained!Deal("CONFIRMED", Trade!Bargained!Both, x.round, x.by)
    BY DealsAlike DEF Trade!Parties, Trade!Bargained!Both
  <2> HIDE DEF d
  <2>3. deal'[n] = d /\ \A y \in Negotiations \ {n} : neg'[y] = neg[y] /\ deal'[y] = deal[y]
    BY <1>2, <2>1
  <2>4. Trade!Bargained!Confirm(n)
    BY <1>2, <1>3, <2>1, <2>2, <2>3
       DEF Trade!Bargained!Confirm, Trade!Bargained!Sign, Trade!Bargained!Bargain
  <2>. QED  BY <2>3, <2>4, OneBargainSteps DEF Trade!Bargained!Step
<1>5. CASE Trade!CancelDealCommit(r)
  <2> DEFINE d == Trade!Deal("CANCELLED", x.confirmed, x.round, x.by)
  <2>1. deal' = [deal EXCEPT ![n] = d]
    BY <1>1, <1>5 DEF Trade!CancelDealCommit
  <2>2. d = Trade!Bargained!Deal("CANCELLED", x.confirmed, x.round, x.by)
    BY DealsAlike
  <2> HIDE DEF d
  <2>3. deal'[n] = d /\ \A y \in Negotiations \ {n} : neg'[y] = neg[y] /\ deal'[y] = deal[y]
    BY <1>2, <2>1
  <2>4. CASE x.status \in {"PENDING_CONFIRMATION", "CONFIRMED"}
    <3>1. Trade!Bargained!Cancel(n)
      BY <1>2, <1>3, <2>2, <2>3, <2>4
         DEF Trade!Bargained!Cancel, Trade!Bargained!Sign, Trade!Bargained!Bargain
    <3>. QED  BY <2>3, <3>1, OneBargainSteps DEF Trade!Bargained!Step
  <2>5. CASE x.status = "CANCELLED"
    <3>1. d = x
      <4>1. x \in DealRow
        BY DEF TradeTyped
      <4>. QED  BY <2>5, <4>1 DEF d, DealRow, Trade!Deal
    <3>. QED  BY <1>2, <1>3, <2>3, <3>1, OneBargainSteps
  <2>6. x.status \in {"PENDING_CONFIRMATION", "CONFIRMED", "CANCELLED"}
    <3>1. x.status # "NONE"
      BY <1>1, <1>5 DEF Trade!CancelDealCommit, Trade!Commits, TradeInv, Holds, DealKinds
    <3>. QED  BY <3>1 DEF TradeTyped, DealRow, Trade!DealStatus
  <2>. QED  BY <2>4, <2>5, <2>6
<1>. QED  BY <1>4, <1>5

\* The end of a listing ends the negotiations it found open, be they agreed
\* meanwhile, which a linked listing allows.
LEMMA EndsBargain ==
  ASSUME TradeInv, NEW r \in Requests, Trade!EndCommit(r)
  PROVE  Trade!Bargained!Next
<1>1. PICK target \in {"CANCELLED", "EXPIRED"} :
        neg' = [n \in Negotiations |-> IF n \in req[r].closing
                  THEN Trade!Negotiation(target, neg[n].last, neg[n].round, neg[n].overdue)
                  ELSE neg[n]]
  BY DEF Trade!EndCommit
<1>2. /\ deal' = deal
      /\ \A n \in Negotiations : n \in req[r].closing => neg[n].status # "NONE"
      /\ \A n \in Negotiations :
           n \in req[r].closing /\ Counterpart[n] = NoListing => neg[n].status # "AGREED"
  BY DEF Trade!EndCommit, TradeInv, Holds
<1>3. ASSUME NEW n \in Negotiations
      PROVE  Trade!Bargained!Step(n) \/ Trade!Bargains'[n] = Trade!Bargains[n]
  <2>1. CASE n \notin req[r].closing
    <3>1. neg'[n] = neg[n] /\ deal'[n] = deal[n]
      BY <1>1, <1>2, <2>1
    <3>. QED  BY <3>1, BargainStays
  <2>2. CASE n \in req[r].closing
    <3> DEFINE m == Trade!Negotiation(target, neg[n].last, neg[n].round, neg[n].overdue)
    <3>1. neg'[n] = m
      BY <1>1, <2>2
    <3>2. m.status \in {"CANCELLED", "EXPIRED"} /\ m.round = neg[n].round
      BY DEF Trade!Negotiation
    <3> HIDE DEF m
    <3>3. /\ Trade!Stage(n)' = "ENDED" /\ Trade!Turn(n)' = "NOBODY"
      BY <3>1, <3>2 DEF Trade!Stage, Trade!Turn
    <3>4. /\ Trade!Bargains[n]
               = Trade!Bargained!Bargain(Trade!Stage(n), neg[n].round, Trade!Turn(n), deal[n])
          /\ Trade!Bargains'[n] = Trade!Bargained!Bargain("ENDED", neg[n].round, "NOBODY", deal[n])
      BY <1>2, <3>1, <3>2, <3>3, BargainSeen
    <3>5. CASE neg[n].status = "OPEN"
      <4>1. Trade!Stage(n) = "OPEN"
        BY <3>5 DEF Trade!Stage
      <4>. QED  BY <3>4, <4>1 DEF Trade!Bargained!Step, Trade!Bargained!End, Trade!Bargained!Bargain
    <3>6. CASE neg[n].status = "AGREED"
      <4>1. Trade!Stage(n) = "AGREED" /\ Counterpart[n] # NoListing
        BY <1>2, <2>2, <3>6 DEF Trade!Stage
      <4>. QED  BY <3>4, <4>1 DEF Trade!Bargained!Step, Trade!Bargained!End, Trade!Bargained!Bargain
    <3>7. CASE neg[n].status \notin {"OPEN", "AGREED"}
      <4>1. Trade!Stage(n) = "ENDED" /\ Trade!Turn(n) = "NOBODY"
        BY <1>2, <2>2, <3>7 DEF Trade!Stage, Trade!Turn
      <4>. QED  BY <3>4, <4>1
    <3>. QED  BY <3>5, <3>6, <3>7
  <2>. QED  BY <2>1, <2>2
<1>4. Trade!Bargains' = [b \in Negotiations |-> Trade!Bargains'[b]]
  BY DEF Trade!Bargains
<1>. QED  BY <1>3, <1>4 DEF Trade!Bargained!Next

\* The time passes, or an overdue negotiation is ended.
LEMMA TimeBargain ==
  ASSUME TradeInv, NEW n \in Negotiations, Trade!Lapse(n) \/ Trade!ExpireNegotiation(n)
  PROVE  Trade!Bargained!Next
<1> DEFINE x == neg[n]
<1>0. PICK status \in {"OPEN", "EXPIRED"} : \E overdue :
        neg' = [neg EXCEPT ![n] = Trade!Negotiation(status, x.last, x.round, overdue)]
  BY DEF Trade!Lapse, Trade!ExpireNegotiation
<1>1. PICK overdue :
        neg' = [neg EXCEPT ![n] = Trade!Negotiation(status, x.last, x.round, overdue)]
  BY <1>0
<1> DEFINE m == Trade!Negotiation(status, x.last, x.round, overdue)
<1>2. deal' = deal /\ x.status = "OPEN"
  BY DEF Trade!Lapse, Trade!ExpireNegotiation
<1>3. m.status = status /\ m.last = x.last /\ m.round = x.round
  BY DEF Trade!Negotiation
<1> HIDE DEF m
<1>4. neg'[n] = m /\ \A y \in Negotiations \ {n} : neg'[y] = neg[y] /\ deal'[y] = deal[y]
  BY <1>1, <1>2 DEF TradeInv, m
<1>5. /\ Trade!Bargains[n]
           = Trade!Bargained!Bargain(Trade!Stage(n), x.round, Trade!Turn(n), deal[n])
      /\ Trade!Bargains'[n]
           = Trade!Bargained!Bargain(Trade!Stage(n)', x.round, Trade!Turn(n)', deal[n])
  BY <1>2, <1>3, <1>4, BargainSeen
<1>6. CASE status = "OPEN"
  <2>1. Trade!Stage(n)' = Trade!Stage(n) /\ Trade!Turn(n)' = Trade!Turn(n)
    BY <1>2, <1>3, <1>4, <1>6 DEF Trade!Stage, Trade!Turn
  <2>. QED  BY <1>4, <1>5, <2>1, OneBargainSteps
<1>7. CASE status = "EXPIRED"
  <2>1. Trade!Stage(n) = "OPEN" /\ Trade!Stage(n)' = "ENDED" /\ Trade!Turn(n)' = "NOBODY"
    BY <1>2, <1>3, <1>4, <1>7 DEF Trade!Stage, Trade!Turn
  <2>2. Trade!Bargained!End(n)
    BY <1>5, <2>1 DEF Trade!Bargained!End, Trade!Bargained!Bargain
  <2>. QED  BY <1>4, <2>2, OneBargainSteps DEF Trade!Bargained!Step
<1>. QED  BY <1>6, <1>7

LEMMA BargainStep ==
  ASSUME Trade!TradeConstants, TradeInv, TradeTyped, [Trade!Next]_(Trade!vars)
  PROVE  [Trade!Bargained!Next]_(Trade!Bargains)
<1>1. UNCHANGED <<neg, deal>> => UNCHANGED Trade!Bargains
  BY DEF Trade!Bargains, Trade!Stage, Trade!Turn
<1>2. CASE UNCHANGED Trade!vars
  BY <1>1, <1>2 DEF Trade!vars
<1>3. ASSUME NEW r \in Requests,
             \/ \E n \in Negotiations :
                  \/ Trade!OpenRead(r, n) \/ Trade!CancelDealRead(r, n) \/ Trade!EndLock(r, n)
                  \/ \E party \in Trade!Parties :
                       \/ Trade!CounterRead(r, n, party) \/ Trade!AcceptRead(r, n, party)
                       \/ Trade!ConfirmRead(r, n, party)
                       \/ Trade!Reject(r, n, party) \/ Trade!Withdraw(r, n, party)
             \/ \E l \in Trade!Listings :
                  \/ Trade!SweepRead(r, l) \/ Trade!RemoveRead(r, l)
                  \/ Trade!CancelListing(r, l) \/ Trade!ExpireListing(r, l)
      PROVE  UNCHANGED <<neg, deal>>
  BY <1>3 DEF Trade!OpenRead, Trade!CancelDealRead, Trade!EndLock, Trade!CounterRead, Trade!AcceptRead,
     Trade!ConfirmRead, Trade!Reject, Trade!Withdraw, Trade!CloseRead, Trade!SweepRead, Trade!RemoveRead,
     Trade!CancelListing, Trade!ExpireListing, Trade!EndRead, Trade!Hold, Trade!tradeVars
<1>4. ASSUME NEW r \in Requests,
             \/ Trade!CounterBegin(r) \/ Trade!AcceptLock(r) \/ Trade!AcceptBegin(r)
             \/ Trade!ConfirmBegin(r) \/ Trade!CancelDealBegin(r) \/ Trade!EndBegin(r)
             \/ Trade!Move(r) \/ Trade!RemoveCommit(r)
             \/ Trade!OpenRefused(r) \/ Trade!TurnRefused(r) \/ Trade!CloseRefused(r)
             \/ Trade!ConfirmRefused(r) \/ Trade!EndRefused(r) \/ Trade!DeadlockEnds(r)
      PROVE  UNCHANGED <<neg, deal>>
  BY <1>4 DEF Trade!CounterBegin, Trade!AcceptLock, Trade!AcceptBegin, Trade!ConfirmBegin,
     Trade!CancelDealBegin, Trade!EndBegin, Trade!Move, Trade!RemoveCommit, Trade!OpenRefused,
     Trade!TurnRefused, Trade!CloseRefused, Trade!ConfirmRefused, Trade!EndRefused,
     Trade!DeadlockEnds, Trade!Refuse, Trade!tradeVars
<1>5. ASSUME NEW l \in Trade!Listings,
             Trade!Publish(l) \/ Trade!Pause(l) \/ Trade!Resume(l) \/ Trade!Matched(l)
      PROVE  UNCHANGED <<neg, deal>>
  BY <1>5 DEF Trade!Publish, Trade!Pause, Trade!Resume, Trade!Matched, Trade!Switch
<1>. QED  BY <1>1, <1>2, <1>3, <1>4, <1>5, PartiesBargain, DealBargain, EndsBargain, TimeBargain
          DEF Trade!Next

\* The requests that race for listings, negotiations and deals keep what
\* Bargain promises of every negotiation: offers alternate, it is agreed once by
\* the party whose turn it was, the deal keeps the terms of that last offer, and
\* nothing takes the agreement back, or confirms a cancelled deal (counter,
\* accept, confirm, endListing, setDealStatus).
THEOREM TradeImplementsBargain ==
  ASSUME Trade!TradeConstants
  PROVE  Trade!Spec => Trade!BargainsKept
<1>1. ASSUME Trade!Init PROVE Trade!Bargained!Init
  <2>1. ASSUME NEW n \in Negotiations
        PROVE  Trade!Bargains[n] = Trade!Bargained!Bargain("NONE", 0, "NOBODY",
                                     Trade!Bargained!Deal("NONE", {}, 0, "OPENER"))
    <3>1. /\ neg[n].status = "NONE" /\ neg[n].round = 0
          /\ deal[n] = Trade!Bargained!Deal("NONE", {}, 0, "OPENER")
      BY <1>1, DealsAlike DEF Trade!Init, Trade!NotOpened, Trade!Negotiation, Trade!NoDeal
    <3>2. Trade!Stage(n) = "NONE" /\ Trade!Turn(n) = "NOBODY"
      BY <3>1 DEF Trade!Stage, Trade!Turn
    <3>. QED  BY <3>1, <3>2, BargainSeen
  <2>2. Trade!Bargains = [b \in Negotiations |-> Trade!Bargains[b]]
    BY DEF Trade!Bargains
  <2>. QED  BY <2>1, <2>2 DEF Trade!Bargained!Init
<1>. QED  BY <1>1, TradeInit, TradeStep, TypedInit, TypedStep, BargainStep, PTL
          DEF Trade!Spec, Trade!BargainsKept, Trade!Bargained!Spec

-----------------------------------------------------------------------------
(* The lock of the listing, which every acceptance holds to its end, admits *)
(* one deal at a time: what takes a listing with a deal back to the market  *)
(* is a counter offer that read it before, or a deal cancelled twice.       *)

NothingReopens == {"COUNTER", "CANCEL_DEAL"} \cap Kinds = {}

OffTheMarket == {"MATCHED", "DEAL_CONFIRMED", "EXPIRED", "CANCELLED"}
Live(n) == deal[n].status \in {"PENDING_CONFIRMATION", "CONFIRMED"}

\* What an acceptance has still to do to its listing, which it found open.
WillMove(c) ==
  \/ c.l \in c.wrote
  \/ Len(c.todo) > 0 /\ c.todo[1] = c.l /\ c.seen \in Trade!Open
  \/ Len(c.todo) > 1 /\ c.todo[2] = c.l

Market(c) ==
  /\ c.at # "idle" => c.kind \in Kinds
  /\ c.at = "moving" =>
       /\ c.todo \in Seq(Trade!Listings) /\ Len(c.todo) <= 2
       /\ \A l \in c.wrote : Trade!L(l) \in c.rows
       /\ c.kind = "ACCEPT" => listing[c.l] \in Trade!Open /\ WillMove(c)

MarketInv ==
  /\ \A r \in Requests : Market(req[r])
  /\ \A n \in Negotiations : Live(n) => listing[Primary[n]] \in OffTheMarket
  /\ Trade!OneDealAListing

\* A request goes on, and nothing is written.
LEMMA MarketGoes ==
  ASSUME MarketInv, TradeInv, NEW r \in Requests, NEW c, Market(c),
         req' = [req EXCEPT ![r] = c], UNCHANGED <<listing, deal>>
  PROVE  MarketInv'
<1>1. \A q \in Requests : req'[q] = IF q = r THEN c ELSE req[q]
  BY DEF TradeInv
<1>2. \A q \in Requests : Market(req[q])'
  BY <1>1 DEF MarketInv, Market, WillMove
<1>3. \A n \in Negotiations : (Live(n) => listing[Primary[n]] \in OffTheMarket)'
  BY DEF MarketInv, Live
<1>4. Trade!OneDealAListing'
  BY DEF MarketInv, Trade!OneDealAListing
<1>. QED  BY <1>2, <1>3, <1>4 DEF MarketInv

LEMMA MarketStays ==
  ASSUME MarketInv, UNCHANGED <<listing, deal, req>>
  PROVE  MarketInv'
  BY DEF MarketInv, Market, WillMove, Live, Trade!OneDealAListing

LEMMA MarketHolds ==
  ASSUME MarketInv, TradeInv, NEW r \in Requests, NEW kind, NEW n, NEW l, NEW party,
         Trade!Hold(r, kind, n, l, party)
  PROVE  MarketInv'
<1> DEFINE c == Trade!Request("held", kind, n, l, party, {}, <<>>, "PUBLISHED", {}, {})
<1>1. req' = [req EXCEPT ![r] = c] /\ UNCHANGED <<listing, deal>> /\ kind \in Kinds
  BY DEF Trade!Hold, Trade!tradeVars
<1>2. c.at = "held" /\ c.kind = kind
  BY DEF Trade!Request
<1> HIDE DEF c
<1>3. Market(c)
  BY <1>1, <1>2 DEF Market
<1>. QED  BY <1>1, <1>3, MarketGoes

LEMMA MarketEnds ==
  ASSUME MarketInv, TradeInv, NEW r \in Requests, Trade!Done(r), UNCHANGED <<listing, deal>>
  PROVE  MarketInv'
<1>1. Market(Trade!Idle)
  BY TradeIdle DEF Market
<1>. QED  BY <1>1, MarketGoes DEF Trade!Done

LEMMA MarketLocks ==
  ASSUME MarketInv, TradeInv, NEW r \in Requests, NEW at, NEW rows, NEW closing,
         at # "moving", req[r].at # "idle",
         req' = [req EXCEPT ![r] = Trade!Locked(req[r], at, rows, closing)], UNCHANGED <<listing, deal>>
  PROVE  MarketInv'
<1> DEFINE c == Trade!Locked(req[r], at, rows, closing)
<1>1. c.at = at /\ c.kind = req[r].kind
  BY DEF Trade!Locked, Trade!Request
<1> HIDE DEF c
<1>2. Market(c)
  BY <1>1 DEF Market, MarketInv
<1>. QED  BY <1>2, MarketGoes DEF c

\* The listings of a negotiation, its own among them.
LEMMA TwoListings ==
  ASSUME Trade!TradeConstants, NEW n \in Negotiations
  PROVE  LET todo == Trade!ListingsOf(n) IN
         /\ todo \in Seq(Trade!Listings) /\ Len(todo) \in {1, 2}
         /\ todo[1] = Primary[n] \/ (Len(todo) = 2 /\ todo[2] = Primary[n])
<1>1. Primary[n] \in Trade!Listings /\ Counterpart[n] \in Trade!Listings \cup {NoListing}
  BY DEF Trade!TradeConstants
<1>2. CASE Trade!ListingsOf(n) = <<Primary[n]>>
  BY <1>1, <1>2
<1>3. CASE Counterpart[n] # NoListing /\ Trade!ListingsOf(n) = <<Primary[n], Counterpart[n]>>
  BY <1>1, <1>3
<1>4. CASE Counterpart[n] # NoListing /\ Trade!ListingsOf(n) = <<Counterpart[n], Primary[n]>>
  BY <1>1, <1>4
<1>. QED  BY <1>2, <1>3, <1>4 DEF Trade!ListingsOf

\* An acceptance begins with its listing locked and open.
LEMMA MarketBegins ==
  ASSUME Trade!TradeConstants, MarketInv, TradeInv, NEW r \in Requests, NEW rows,
         req[r].at # "idle", req[r].kind \notin ListingKinds,
         req[r].kind = "ACCEPT" => listing[req[r].l] \in Trade!Open,
         Trade!StartMoving(r, rows), UNCHANGED <<listing, deal>>
  PROVE  MarketInv'
<1>1. PICK todo : todo = Trade!ListingsOf(req[r].n)
  OBVIOUS
<1>2. req[r].n \in Negotiations /\ req[r].l = Primary[req[r].n]
  BY DEF TradeInv, Holds
<1>3. /\ todo \in Seq(Trade!Listings) /\ Len(todo) \in {1, 2}
      /\ todo[1] = req[r].l \/ (Len(todo) = 2 /\ todo[2] = req[r].l)
  BY <1>1, <1>2, TwoListings
<1> DEFINE c == Trade!Moving(req[r], req[r].rows \cup rows, todo, listing[todo[1]], {})
<1>4. req' = [req EXCEPT ![r] = c]
  BY <1>1 DEF Trade!StartMoving
<1>5. /\ c.at = "moving" /\ c.kind = req[r].kind /\ c.l = req[r].l /\ c.todo = todo
      /\ c.seen = listing[todo[1]] /\ c.wrote = {}
  BY DEF Trade!Moving, Trade!Request
<1> HIDE DEF c
<1>6. req[r].kind \in Kinds
  BY DEF MarketInv, Market
<1>7. ASSUME c.kind = "ACCEPT" PROVE listing[c.l] \in Trade!Open /\ WillMove(c)
  <2>1. listing[c.l] \in Trade!Open
    BY <1>5, <1>7
  <2>2. CASE todo[1] = c.l
    <3>1. Len(c.todo) > 0
      BY <1>3, <1>5
    <3>2. c.todo[1] = c.l /\ c.seen \in Trade!Open
      BY <1>5, <2>1, <2>2
    <3>. QED  BY <2>1, <3>1, <3>2 DEF WillMove
  <2>3. CASE Len(todo) = 2 /\ todo[2] = c.l
    <3>1. Len(c.todo) > 1 /\ c.todo[2] = c.l
      BY <1>5, <2>3
    <3>. QED  BY <2>1, <3>1 DEF WillMove
  <2>. QED  BY <1>3, <1>5, <2>1, <2>2, <2>3
<1>8. Market(c)
  <2>1. c.todo \in Seq(Trade!Listings) /\ c.kind \in Kinds
    BY <1>3, <1>5, <1>6
  <2>3. Len(c.todo) <= 2
    <3>1. PICK k : k = Len(c.todo)
      OBVIOUS
    <3>2. k \in {1, 2}
      BY <1>3, <1>5, <3>1
    <3>3. k <= 2
      BY <3>2
    <3>. QED  BY <3>1, <3>3
  <2>2. \A x \in c.wrote : Trade!L(x) \in c.rows
    BY <1>5
  <2>. QED  BY <1>7, <2>1, <2>2, <2>3 DEF Market
<1>. QED  BY <1>4, <1>8, MarketGoes

\* Sequences of at most two.
LEMMA OneOrTwo ==
  ASSUME NEW S, NEW s \in Seq(S), Len(s) <= 2, s # <<>>
  PROVE  Len(s) \in {1, 2}
<1>1. Len(s) \in Nat \ {0}
  BY EmptySeq
<1>2. PICK n \in Nat \ {0} : n = Len(s)
  BY <1>1
<1>3. n <= 2
  BY <1>2
<1>4. n \in {1, 2}
  BY <1>3
<1>. QED  BY <1>2, <1>4

LEMMA RestOfTwo ==
  ASSUME NEW S, NEW s \in Seq(S), Len(s) \in {1, 2}
  PROVE  LET rest == Tail(s) IN
         /\ rest \in Seq(S) /\ Len(rest) <= 2
         /\ Len(s) = 2 => rest # <<>> /\ Len(rest) = 1 /\ rest[1] = s[2]
<1>1. s # <<>>
  BY EmptySeq
<1>2. PICK rest : rest = Tail(s)
  OBVIOUS
<1>3. /\ rest \in Seq(S) /\ Len(rest) = Len(s) - 1
      /\ \A i \in 1 .. Len(rest) : rest[i] = s[i+1]
  BY <1>1, <1>2, HeadTailProperties
<1>4. Len(rest) <= 2
  BY <1>3
<1>5. ASSUME Len(s) = 2 PROVE rest # <<>> /\ Len(rest) = 1 /\ rest[1] = s[2]
  <2>1. Len(rest) = 1
    BY <1>3, <1>5
  <2>2. rest # <<>>
    BY <2>1, EmptySeq
  <2>3. rest[1] = s[1 + 1]
    BY <1>3, <2>1
  <2>. QED  BY <2>1, <2>2, <2>3
<1>. QED  BY <1>2, <1>3, <1>4, <1>5

\* It moves its listing on, which it still finds open.
LEMMA MarketMoves ==
  ASSUME MarketInv, TradeInv, NEW r \in Requests, Trade!Move(r)
  PROVE  MarketInv'
<1> DEFINE b == req[r]
           moves == Trade!Moves(b.kind, b.seen)
<1>1. PICK rest, l : rest = Tail(b.todo) /\ l = b.todo[1]
  OBVIOUS
<1>2. PICK locks, wrote, seen :
        /\ locks = IF moves THEN {Trade!L(l)} ELSE {}
        /\ wrote = IF moves THEN {l} ELSE {}
        /\ seen = IF rest = <<>> THEN b.seen ELSE listing[rest[1]]
  OBVIOUS
<1> DEFINE c == Trade!Moving(b, b.rows \cup locks, rest, seen, b.wrote \cup wrote)
<1>3. /\ b.at = "moving" /\ b.todo # <<>> /\ UNCHANGED <<listing, deal>>
      /\ req' = [req EXCEPT ![r] = c]
  BY <1>1, <1>2 DEF Trade!Move, Trade!tradeVars
<1>4. /\ c.at = "moving" /\ c.kind = b.kind /\ c.l = b.l /\ c.todo = rest /\ c.seen = seen
      /\ c.wrote = b.wrote \cup wrote /\ c.rows = b.rows \cup locks
  BY DEF Trade!Moving, Trade!Request
<1>5. /\ Market(b) /\ b.todo \in Seq(Trade!Listings) /\ Len(b.todo) \in {1, 2}
      /\ \A x \in b.wrote : Trade!L(x) \in b.rows
  <2>1. Market(b)
    BY DEF MarketInv
  <2>2. b.todo \in Seq(Trade!Listings) /\ Len(b.todo) <= 2 /\ b.todo # <<>>
        /\ \A x \in b.wrote : Trade!L(x) \in b.rows
    BY <1>3, <2>1 DEF Market
  <2> HIDE DEF b
  <2>. QED  BY <2>1, <2>2, OneOrTwo
<1> HIDE DEF c, moves, b
<1>6. /\ rest \in Seq(Trade!Listings) /\ Len(rest) <= 2
      /\ Len(b.todo) = 2 => rest # <<>> /\ Len(rest) = 1 /\ rest[1] = b.todo[2]
  BY <1>1, <1>5, RestOfTwo
<1>7. \A x \in c.wrote : Trade!L(x) \in c.rows
  BY <1>2, <1>4, <1>5
<1>8. ASSUME b.kind = "ACCEPT" PROVE listing[b.l] \in Trade!Open /\ WillMove(c)
  <2>1. listing[b.l] \in Trade!Open /\ WillMove(b)
    BY <1>3, <1>5, <1>8 DEF Market
  <2>2. CASE b.l \in b.wrote
    BY <1>4, <2>1, <2>2 DEF WillMove
  <2>3. CASE b.todo[1] = b.l /\ b.seen \in Trade!Open
    <3>1. moves
      BY <1>8, <2>3 DEF moves, Trade!Moves
    <3>. QED  BY <1>1, <1>2, <1>4, <2>1, <2>3, <3>1 DEF WillMove
  <2>4. CASE Len(b.todo) > 1 /\ b.todo[2] = b.l
    <3>1. Len(rest) = 1 /\ rest[1] = b.l /\ seen = listing[b.l]
      BY <1>2, <1>5, <1>6, <2>4
    <3>. QED  BY <1>4, <2>1, <3>1 DEF WillMove
  <2>. QED  BY <2>1, <2>2, <2>3, <2>4 DEF WillMove
<1>9. Market(c)
  BY <1>3, <1>4, <1>5, <1>6, <1>7, <1>8 DEF Market
<1>. QED  BY <1>3, <1>9, MarketGoes

\* What is written to listings that a request holds does not disturb the others.
LEMMA MarketOthers ==
  ASSUME Trade!TradeConstants, MarketInv, TradeInv, NEW q \in Requests, req'[q] = req[q],
         \A l \in Trade!Listings : Trade!L(l) \in req[q].rows => listing'[l] = listing[l]
  PROVE  Market(req[q])'
<1>1. Market(req[q]) /\ Holds(req[q])
  BY DEF MarketInv, TradeInv
<1>2. req[q].at = "moving" /\ req[q].kind = "ACCEPT" => listing'[req[q].l] = listing[req[q].l]
  <2>1. ASSUME req[q].at = "moving", req[q].kind = "ACCEPT"
        PROVE  req[q].l \in Trade!Listings /\ Trade!L(req[q].l) \in req[q].rows
    BY <1>1, <2>1 DEF Holds, ListingKinds, Trade!TradeConstants
  <2>. QED  BY <2>1
<1>. QED  BY <1>1, <1>2 DEF Market, WillMove

\* A request commits.
LEMMA MarketCommits ==
  ASSUME Trade!TradeConstants, MarketInv, TradeInv, NEW r \in Requests, Trade!Done(r),
         \A l \in Trade!Listings : listing'[l] # listing[l] => Trade!Free(r, Trade!L(l)),
         \A n \in Negotiations : (Live(n) => listing[Primary[n]] \in OffTheMarket)',
         Trade!OneDealAListing'
  PROVE  MarketInv'
<1>1. \A q \in Requests : req'[q] = IF q = r THEN Trade!Idle ELSE req[q]
  BY DEF TradeInv, Trade!Done
<1>2. Market(req[r])'
  BY <1>1, TradeIdle DEF Market
<1>3. ASSUME NEW q \in Requests \ {r} PROVE Market(req[q])'
  <2>1. \A l \in Trade!Listings : Trade!L(l) \in req[q].rows => listing'[l] = listing[l]
    BY DEF Trade!Free
  <2>. QED  BY <1>1, <2>1, MarketOthers
<1>. QED  BY <1>2, <1>3 DEF MarketInv

\* What a transaction has locked, nobody else has.
LEMMA LockedIsFree ==
  ASSUME TradeInv, NEW r \in Requests, NEW row \in req[r].rows
  PROVE  Trade!Free(r, row)
  BY DEF TradeInv, Trade!Free

\* A step that makes no deal, and moves only listings without one or off the
\* market.
LEMMA DealsOffTheMarket ==
  ASSUME Trade!TradeConstants, TradeTyped, MarketInv,
         \A n \in Negotiations : Live(n)' => Live(n),
         \A n \in Negotiations : deal'[n].status \in Trade!DealStatus,
         \A l \in Trade!Listings : \/ listing'[l] = listing[l] \/ listing'[l] \in OffTheMarket
                                   \/ listing[l] \notin OffTheMarket
  PROVE  /\ \A n \in Negotiations : (Live(n) => listing[Primary[n]] \in OffTheMarket)'
         /\ Trade!OneDealAListing'
<1>1. \A n \in Negotiations : Primary[n] \in Trade!Listings
  BY DEF Trade!TradeConstants
<1>2. \A n \in Negotiations : (Live(n) => listing[Primary[n]] \in OffTheMarket)'
  BY <1>1 DEF MarketInv
<1>3. Trade!OneDealAListing'
  BY DEF MarketInv, Trade!OneDealAListing, Live, Trade!DealStatus
<1>. QED  BY <1>2, <1>3

\* An acceptance makes the only deal of its listing, which it found open.
LEMMA AcceptMarket ==
  ASSUME Trade!TradeConstants, TradeTyped, MarketInv, TradeInv, NEW r \in Requests,
         Trade!AcceptCommit(r)
  PROVE  MarketInv'
<1> DEFINE c == req[r]
           d == Trade!Deal("PENDING_CONFIRMATION", {c.party}, neg[c.n].round, neg[c.n].last)
<1>1. /\ c.at = "moving" /\ c.kind = "ACCEPT" /\ c.todo = <<>> /\ Trade!Done(r)
      /\ deal' = [deal EXCEPT ![c.n] = d]
      /\ listing' = [l \in Trade!Listings |-> IF l \in c.wrote THEN "MATCHED" ELSE listing[l]]
  BY DEF Trade!AcceptCommit, Trade!Commits, Trade!Target
<1>2. c.n \in Negotiations /\ c.l = Primary[c.n] /\ c.l \in Trade!Listings
  BY <1>1 DEF TradeInv, Holds, ListingKinds, Trade!TradeConstants
<1>3. /\ c.l \in c.wrote /\ listing[c.l] \in Trade!Open
      /\ \A l \in c.wrote : Trade!L(l) \in c.rows
  BY <1>1 DEF MarketInv, Market, WillMove
<1>4. d.status = "PENDING_CONFIRMATION"
  BY DEF Trade!Deal
<1> HIDE DEF d, c
<1>5. /\ deal'[c.n].status = "PENDING_CONFIRMATION"
      /\ \A m \in Negotiations : m # c.n => deal'[m] = deal[m]
  BY <1>1, <1>2, <1>4 DEF TradeInv
<1>6. DOMAIN listing = Trade!Listings /\ \A m \in Negotiations : deal[m].status \in Trade!DealStatus
  BY DEF TradeTyped, DealRow
<1>7. ASSUME NEW l \in Trade!Listings, listing'[l] # listing[l] PROVE Trade!Free(r, Trade!L(l))
  <2>1. Trade!L(l) \in req[r].rows
    BY <1>1, <1>3, <1>7 DEF c
  <2>. QED  BY <2>1, LockedIsFree
<1>8. ASSUME NEW m \in Negotiations, m # c.n, Primary[m] = c.l
      PROVE  deal[m].status \in {"NONE", "CANCELLED"}
  <2>1. listing[c.l] \notin OffTheMarket
    BY <1>3 DEF OffTheMarket, Trade!Open
  <2>. QED  BY <1>6, <1>8, <2>1 DEF MarketInv, Live, Trade!DealStatus
<1>9. ASSUME NEW m \in Negotiations, Live(m)'
      PROVE  listing'[Primary[m]] \in OffTheMarket
  <2>1. Primary[m] \in Trade!Listings
    BY DEF Trade!TradeConstants
  <2>2. CASE Primary[m] \in c.wrote
    BY <1>1, <2>1, <2>2 DEF OffTheMarket
  <2>3. CASE Primary[m] \notin c.wrote
    <3>1. m # c.n /\ Live(m)
      BY <1>2, <1>3, <1>5, <1>9, <2>3 DEF Live
    <3>. QED  BY <1>1, <2>1, <2>3, <3>1 DEF MarketInv
  <2>. QED  BY <2>2, <2>3
<1>10. Trade!OneDealAListing'
  <2>1. ASSUME NEW n \in Negotiations, NEW m \in Negotiations, n # m, Primary[n] = Primary[m],
               deal'[n].status \in {"PENDING_CONFIRMATION", "CONFIRMED"}
        PROVE  deal'[m].status \in {"NONE", "CANCELLED"}
    <3>1. CASE n = c.n
      BY <1>2, <1>5, <1>8, <2>1, <3>1
    <3>2. CASE m = c.n
      BY <1>2, <1>5, <1>8, <2>1, <3>2
    <3>3. CASE n # c.n /\ m # c.n
      BY <1>5, <2>1, <3>3 DEF MarketInv, Trade!OneDealAListing
    <3>. QED  BY <3>1, <3>2, <3>3
  <2>. QED  BY <2>1 DEF Trade!OneDealAListing
<1>. QED  BY <1>1, <1>7, <1>9, <1>10, MarketCommits

\* A confirmation keeps its listing off the market, the end of a listing takes
\* it off, and an opening finds it there with nobody at it.
LEMMA OtherMarket ==
  ASSUME Trade!TradeConstants, TradeTyped, MarketInv, TradeInv, TradeTyped', NEW r \in Requests,
         Trade!ConfirmCommit(r) \/ Trade!EndCommit(r) \/ Trade!OpenCommit(r)
  PROVE  MarketInv'
<1> DEFINE c == req[r]
<1>1. Market(c) /\ Holds(c) /\ Trade!Done(r) /\ DOMAIN listing = Trade!Listings
  BY DEF MarketInv, TradeInv, TradeTyped, Trade!ConfirmCommit, Trade!Commits, Trade!EndCommit,
     Trade!OpenCommit
<1>2. \A n \in Negotiations : deal'[n].status \in Trade!DealStatus
  BY DEF TradeTyped, DealRow
<1>3. CASE Trade!ConfirmCommit(r)
  <2>1. /\ c.at = "moving" /\ c.kind = "CONFIRM"
        /\ deal' = [deal EXCEPT ![c.n] = Trade!Deal("CONFIRMED", Trade!Parties, @.round, @.by)]
        /\ listing' = [l \in Trade!Listings |-> IF l \in c.wrote THEN "DEAL_CONFIRMED" ELSE listing[l]]
    BY <1>3 DEF Trade!ConfirmCommit, Trade!Commits, Trade!Target
  <2>2. c.n \in Negotiations /\ deal[c.n].status = "PENDING_CONFIRMATION"
    BY <1>1, <2>1 DEF Holds, ListingKinds
  <2>3. \A n \in Negotiations : Live(n)' => Live(n)
    BY <2>1, <2>2 DEF Live, TradeInv
  <2>4. \A l \in c.wrote : Trade!Free(r, Trade!L(l))
    BY <1>1, <2>1, LockedIsFree DEF Market
  <2>5. \A l \in Trade!Listings : listing'[l] # listing[l] => Trade!Free(r, Trade!L(l))
    BY <1>1, <2>1, <2>4
  <2>6. \A l \in Trade!Listings : listing'[l] = listing[l] \/ listing'[l] \in OffTheMarket
    BY <2>1 DEF OffTheMarket
  <2>. QED  BY <1>1, <1>2, <2>3, <2>5, <2>6, DealsOffTheMarket, MarketCommits
<1>4. CASE Trade!EndCommit(r)
  <2>1. PICK target \in {"CANCELLED", "EXPIRED"} :
          listing' = [listing EXCEPT ![c.l] = target] /\ c.at = "ending" /\ deal' = deal
    BY <1>4 DEF Trade!EndCommit
  <2>2. Trade!Free(r, Trade!L(c.l))
    BY <1>1, <2>1, LockedIsFree DEF Holds
  <2>3. \A l \in Trade!Listings : listing'[l] # listing[l] => Trade!Free(r, Trade!L(l))
    BY <1>1, <2>1, <2>2
  <2>4. \A l \in Trade!Listings : listing'[l] = listing[l] \/ listing'[l] \in OffTheMarket
    BY <1>1, <2>1 DEF OffTheMarket
  <2>5. \A n \in Negotiations : Live(n)' => Live(n)
    BY <2>1 DEF Live
  <2>. QED  BY <1>1, <1>2, <2>3, <2>4, <2>5, DealsOffTheMarket, MarketCommits
<1>5. CASE Trade!OpenCommit(r)
  <2>1. PICK l : l = Primary[c.n]
    OBVIOUS
  <2>2. /\ Trade!Free(r, Trade!L(l)) /\ deal' = deal
        /\ listing' = IF listing[l] \in {"PUBLISHED", "MATCHING"}
                      THEN [listing EXCEPT ![l] = "OFFER_RECEIVED"] ELSE listing
    BY <1>5, <2>1 DEF Trade!OpenCommit
  <2>3. \A x \in Trade!Listings : listing'[x] # listing[x] => Trade!Free(r, Trade!L(x))
    BY <1>1, <2>2
  <2>4. \A x \in Trade!Listings : listing'[x] = listing[x] \/ listing[x] \notin OffTheMarket
    BY <1>1, <2>2 DEF OffTheMarket
  <2>5. \A n \in Negotiations : Live(n)' => Live(n)
    BY <2>2 DEF Live
  <2>. QED  BY <1>1, <1>2, <2>3, <2>4, <2>5, DealsOffTheMarket, MarketCommits
<1>. QED  BY <1>3, <1>4, <1>5

\* The owner and the matcher move listings that are not off the market, and
\* that no transaction holds.
LEMMA SwitchMarket ==
  ASSUME Trade!TradeConstants, TradeTyped, MarketInv, TradeInv, NEW l \in Trade!Listings,
         Trade!Publish(l) \/ Trade!Pause(l) \/ Trade!Resume(l) \/ Trade!Matched(l)
  PROVE  MarketInv'
<1>1. PICK to :
        /\ listing[l] \in Trade!Open \cup {"PAUSED", "DRAFT"}
        /\ \A r \in Requests : Trade!L(l) \notin req[r].rows
        /\ listing' = [listing EXCEPT ![l] = to] /\ UNCHANGED <<deal, req>>
  BY DEF Trade!Publish, Trade!Pause, Trade!Resume, Trade!Matched, Trade!Switch, Trade!Open
<1>2. listing[l] \notin OffTheMarket /\ DOMAIN listing = Trade!Listings
  BY <1>1 DEF OffTheMarket, Trade!Open, TradeTyped
<1>3. ASSUME NEW q \in Requests PROVE Market(req[q])'
  <2>1. \A x \in Trade!Listings : Trade!L(x) \in req[q].rows => listing'[x] = listing[x]
    BY <1>1, <1>2
  <2>. QED  BY <1>1, <2>1, MarketOthers
<1>4. \A x \in Trade!Listings : listing'[x] = listing[x] \/ listing[x] \notin OffTheMarket
  BY <1>1, <1>2
<1>5. /\ \A n \in Negotiations : Live(n)' => Live(n)
      /\ \A n \in Negotiations : deal'[n].status \in Trade!DealStatus
  BY <1>1 DEF Live, TradeTyped, DealRow
<1>. QED  BY <1>3, <1>4, <1>5, DealsOffTheMarket DEF MarketInv

LEMMA MarketReads ==
  ASSUME Trade!TradeConstants, TradeInv, MarketInv, NEW r \in Requests,
         \/ \E n \in Negotiations :
              \/ Trade!OpenRead(r, n) \/ Trade!CancelDealRead(r, n)
              \/ \E party \in Trade!Parties :
                   \/ Trade!CounterRead(r, n, party) \/ Trade!AcceptRead(r, n, party)
                   \/ Trade!ConfirmRead(r, n, party)
                   \/ Trade!Reject(r, n, party) \/ Trade!Withdraw(r, n, party)
         \/ \E l \in Trade!Listings :
              \/ Trade!SweepRead(r, l) \/ Trade!RemoveRead(r, l)
              \/ Trade!CancelListing(r, l) \/ Trade!ExpireListing(r, l)
  PROVE  MarketInv'
<1>1. ASSUME NEW n \in Negotiations, Trade!OpenRead(r, n) \/ Trade!CancelDealRead(r, n)
      PROVE  MarketInv'
  BY <1>1, MarketHolds DEF Trade!OpenRead, Trade!CancelDealRead
<1>2. ASSUME NEW n \in Negotiations, NEW party \in Trade!Parties,
             \/ Trade!CounterRead(r, n, party) \/ Trade!AcceptRead(r, n, party)
             \/ Trade!ConfirmRead(r, n, party)
             \/ Trade!Reject(r, n, party) \/ Trade!Withdraw(r, n, party)
      PROVE  MarketInv'
  BY <1>2, MarketHolds DEF Trade!CounterRead, Trade!AcceptRead, Trade!ConfirmRead, Trade!Reject,
     Trade!Withdraw, Trade!CloseRead
<1>3. ASSUME NEW l \in Trade!Listings,
             \/ Trade!SweepRead(r, l) \/ Trade!RemoveRead(r, l)
             \/ Trade!CancelListing(r, l) \/ Trade!ExpireListing(r, l)
      PROVE  MarketInv'
  BY <1>3, MarketHolds DEF Trade!SweepRead, Trade!RemoveRead, Trade!CancelListing,
     Trade!ExpireListing, Trade!EndRead
<1>. QED  BY <1>1, <1>2, <1>3

\* Nobody reopens a listing; who accepts or confirms has its locks.
LEMMA MarketRuns ==
  ASSUME Trade!TradeConstants, NothingReopens, TradeInv, MarketInv, NEW r \in Requests,
         \/ Trade!CounterBegin(r) \/ Trade!CounterCommit(r)
         \/ Trade!CancelDealBegin(r) \/ Trade!CancelDealCommit(r)
         \/ Trade!AcceptLock(r) \/ Trade!AcceptBegin(r) \/ Trade!ConfirmBegin(r)
         \/ Trade!EndBegin(r) \/ \E n \in Negotiations : Trade!EndLock(r, n)
         \/ Trade!Move(r)
  PROVE  MarketInv'
<1>1. req[r].at # "idle" => req[r].kind \in Kinds
  BY DEF MarketInv, Market
<1>2. CASE Trade!CounterBegin(r) \/ Trade!CancelDealBegin(r)
  BY <1>1, <1>2 DEF NothingReopens, Trade!CounterBegin, Trade!CancelDealBegin, Trade!Held
<1>3. CASE Trade!CounterCommit(r) \/ Trade!CancelDealCommit(r)
  BY <1>1, <1>3 DEF NothingReopens, Trade!CounterCommit, Trade!CancelDealCommit, Trade!Commits
<1>4. CASE Trade!AcceptLock(r)
  BY <1>4, MarketLocks DEF Trade!AcceptLock, Trade!Held, Trade!tradeVars
<1>5. CASE Trade!EndBegin(r)
  BY <1>5, MarketLocks DEF Trade!EndBegin, Trade!tradeVars
<1>6. ASSUME NEW n \in Negotiations, Trade!EndLock(r, n) PROVE MarketInv'
  BY <1>6, MarketLocks DEF Trade!EndLock, Trade!tradeVars
<1>7. CASE Trade!AcceptBegin(r)
  <2>1. /\ req[r].at = "inside" /\ req[r].kind = "ACCEPT" /\ listing[req[r].l] \in Trade!Open
        /\ Trade!StartMoving(r, {Trade!N(req[r].n)}) /\ UNCHANGED <<listing, deal>>
    BY <1>7 DEF Trade!AcceptBegin, Trade!tradeVars
  <2>. QED  BY <2>1, MarketBegins DEF ListingKinds
<1>8. CASE Trade!ConfirmBegin(r)
  <2>1. /\ req[r].at = "held" /\ req[r].kind = "CONFIRM"
        /\ Trade!StartMoving(r, {Trade!D(req[r].n)}) /\ UNCHANGED <<listing, deal>>
    BY <1>8 DEF Trade!ConfirmBegin, Trade!Held, Trade!tradeVars
  <2>. QED  BY <2>1, MarketBegins DEF ListingKinds
<1>9. CASE Trade!Move(r)
  BY <1>9, MarketMoves
<1>. QED  BY <1>2, <1>3, <1>4, <1>5, <1>6, <1>7, <1>8, <1>9

LEMMA MarketStep ==
  ASSUME Trade!TradeConstants, NothingReopens, TradeTyped, TradeTyped', TradeInv, MarketInv,
         [Trade!Next]_(Trade!vars)
  PROVE  MarketInv'
<1>1. ASSUME NEW r \in Requests,
             \/ Trade!OpenRefused(r) \/ Trade!TurnRefused(r) \/ Trade!CloseRefused(r)
             \/ Trade!ConfirmRefused(r) \/ Trade!EndRefused(r) \/ Trade!DeadlockEnds(r)
             \/ Trade!RemoveCommit(r) \/ Trade!CloseCommit(r)
      PROVE  MarketInv'
  <2>1. Trade!Done(r) /\ UNCHANGED <<listing, deal>>
    BY <1>1 DEF Trade!OpenRefused, Trade!TurnRefused, Trade!CloseRefused, Trade!ConfirmRefused,
       Trade!EndRefused, Trade!DeadlockEnds, Trade!RemoveCommit, Trade!CloseCommit, Trade!Refuse,
       Trade!tradeVars
  <2>. QED  BY <2>1, MarketEnds
<1>2. ASSUME NEW r \in Requests,
             \/ Trade!CounterBegin(r) \/ Trade!CounterCommit(r)
             \/ Trade!CancelDealBegin(r) \/ Trade!CancelDealCommit(r)
             \/ Trade!AcceptLock(r) \/ Trade!AcceptBegin(r) \/ Trade!ConfirmBegin(r)
             \/ Trade!EndBegin(r) \/ \E n \in Negotiations : Trade!EndLock(r, n)
             \/ Trade!Move(r)
      PROVE  MarketInv'
  BY <1>2, MarketRuns
<1>3. ASSUME NEW r \in Requests,
             \/ \E n \in Negotiations :
                  \/ Trade!OpenRead(r, n) \/ Trade!CancelDealRead(r, n)
                  \/ \E party \in Trade!Parties :
                       \/ Trade!CounterRead(r, n, party) \/ Trade!AcceptRead(r, n, party)
                       \/ Trade!ConfirmRead(r, n, party)
                       \/ Trade!Reject(r, n, party) \/ Trade!Withdraw(r, n, party)
             \/ \E l \in Trade!Listings :
                  \/ Trade!SweepRead(r, l) \/ Trade!RemoveRead(r, l)
                  \/ Trade!CancelListing(r, l) \/ Trade!ExpireListing(r, l)
      PROVE  MarketInv'
  BY <1>3, MarketReads
<1>4. ASSUME NEW r \in Requests, Trade!AcceptCommit(r) PROVE MarketInv'
  BY <1>4, AcceptMarket
<1>5. ASSUME NEW r \in Requests,
             Trade!ConfirmCommit(r) \/ Trade!EndCommit(r) \/ Trade!OpenCommit(r)
      PROVE  MarketInv'
  BY <1>5, OtherMarket
<1>6. ASSUME NEW n \in Negotiations, Trade!Lapse(n) \/ Trade!ExpireNegotiation(n)
      PROVE  MarketInv'
  BY <1>6, MarketStays DEF Trade!Lapse, Trade!ExpireNegotiation
<1>7. ASSUME NEW l \in Trade!Listings,
             Trade!Publish(l) \/ Trade!Pause(l) \/ Trade!Resume(l) \/ Trade!Matched(l)
      PROVE  MarketInv'
  BY <1>7, SwitchMarket
<1>8. CASE UNCHANGED Trade!vars
  BY <1>8, MarketStays DEF Trade!vars
<1>. QED  BY <1>1, <1>2, <1>3, <1>4, <1>5, <1>6, <1>7, <1>8 DEF Trade!Next

LEMMA MarketInit ==
  ASSUME Trade!Init
  PROVE  MarketInv
<1>1. \A r \in Requests : Market(req[r])
  BY TradeIdle DEF Trade!Init, Market
<1>2. \A n \in Negotiations : deal[n].status = "NONE"
  BY DEF Trade!Init, Trade!NoDeal, Trade!Deal
<1>. QED  BY <1>1, <1>2 DEF MarketInv, Live, Trade!OneDealAListing

\* Where nothing moves a listing back from MATCHED, it has one deal at a time,
\* however many acceptances race for it: accept reads its status with the row
\* locked, and the move that follows finds it still open
\* (import-negotiations.service.ts, accept and bumpListing). What two deals need
\* is a counter offer or a cancelled deal that takes the listing back.
THEOREM ListingsHaveOneDeal ==
  ASSUME Trade!TradeConstants, NothingReopens
  PROVE  Trade!Spec => []Trade!OneDealAListing
<1>1. MarketInv => Trade!OneDealAListing
  BY DEF MarketInv
<1>. QED  BY <1>1, TradeInit, TradeStep, TypedInit, TypedStep, MarketInit, MarketStep, PTL
          DEF Trade!Spec
=============================================================================
