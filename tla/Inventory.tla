------------------------------- MODULE Inventory -------------------------------
(***************************************************************************)
(* The inventory rows of one product of one seller (one row a warehouse)   *)
(* and the stock movements recorded for them.                              *)
(*                                                                         *)
(* A reservation and its release take the row lock with SELECT ... FOR     *)
(* UPDATE, read, and write what they computed from the read; the dispatch  *)
(* of an order takes the locks of all rows.  An adjustment computes from a *)
(* read without the lock, and two forms of the seller's pages overwrite    *)
(* quantities.  Logistics extends this module with the dispatch.           *)
(***************************************************************************)
EXTENDS Integers, FiniteSets, FiniteSetsExt

CONSTANTS
  Rows,         \* inventory rows of the product
  Keepers,      \* concurrently running requests of the seller's stock pages
  Stock,        \* quantity of each row at its creation
  Amounts,      \* quantities a request may name
  MaxStock,     \* bound: what a row may hold available, and the net quantity of its
                \* adjustments, and of its reservations
  NoKeeper,     \* no request holds the row's lock
  NoStockRow

ASSUME StockAssumption == Stock \in Nat /\ Amounts \subseteq Nat \ {0}
ASSUME NoneAssumption == NoKeeper \notin Keepers /\ NoStockRow \notin Rows

VARIABLES
  stock,        \* available_qty, reserved_qty and sold_qty of each row
  moved,        \* net quantity of its movements: reservations, dispatches, adjustments
  overwritten,  \* history: the columns some request set without counting from them
  locked,       \* the request that holds the lock of each row
  keep          \* requests in progress

stockVars == <<stock, moved, overwritten, locked, keep>>

\* A row of the inventory, and the net quantities of its movements.
Entry(available, reserved, sold) ==
  [available |-> available, reserved |-> reserved, sold |-> sold]
Movement(reserved, sold, adjusted) ==
  [reserved |-> reserved, sold |-> sold, adjusted |-> adjusted]

Quantity == -MaxStock .. MaxStock
Columns == {"available", "reserved"}
AtRest == [at |-> "idle", row |-> NoStockRow, by |-> 0, read |-> 0, held |-> 0]

InventoryTypeOK ==
  /\ stock \in [Rows -> [available : Nat, reserved : Nat, sold : Nat]]
  /\ moved \in [Rows -> [reserved : Int, sold : Nat, adjusted : Int]]
  /\ overwritten \in [Rows -> SUBSET Columns]
  /\ locked \in [Rows -> Keepers \cup {NoKeeper}]
  /\ keep \in [Keepers -> [at : {"idle", "book", "adjust"}, row : Rows \cup {NoStockRow},
                           by : Quantity, read : Nat, held : Nat]]

InventoryInit ==
  /\ stock = [i \in Rows |-> Entry(Stock, 0, 0)]
  /\ moved = [i \in Rows |-> Movement(0, 0, 0)]
  /\ overwritten = [i \in Rows |-> {}]
  /\ locked = [i \in Rows |-> NoKeeper]
  /\ keep = [k \in Keepers |-> AtRest]

Rest(k) == keep' = [keep EXCEPT ![k] = AtRest]

Bounded(i, by) == stock[i].available + by <= MaxStock

\* Mutant: no SELECT ... FOR UPDATE.
BookRead_Unlocked(k, i, by) ==
  /\ keep[k].at = "idle"
  /\ IF by > 0 THEN by <= stock[i].available ELSE -by <= stock[i].reserved
  /\ Bounded(i, -by) /\ moved[i].reserved + by \in Quantity
  /\ keep' = [keep EXCEPT ![k] = [at |-> "book", row |-> i, by |-> by,
                read |-> stock[i].available, held |-> stock[i].reserved]]
  /\ UNCHANGED <<stock, moved, overwritten, locked>>

\* reserve (by > 0) and release (by < 0): the lock, the read and the checks.
BookRead(k, i, by) ==
  /\ keep[k].at = "idle"
  /\ locked[i] = NoKeeper
  /\ IF by > 0 THEN by <= stock[i].available ELSE -by <= stock[i].reserved
  /\ Bounded(i, -by) /\ moved[i].reserved + by \in Quantity
  /\ locked' = [locked EXCEPT ![i] = k]
  /\ keep' = [keep EXCEPT ![k] = [at |-> "book", row |-> i, by |-> by,
                read |-> stock[i].available, held |-> stock[i].reserved]]
  /\ UNCHANGED <<stock, moved, overwritten>>

Reserve(k, i, n) == BookRead(k, i, n)
Release(k, i, n) == BookRead(k, i, -n)

\* Their writes, from what was read, and the commit.
BookWrite(k) ==
  LET i == keep[k].row
      by == keep[k].by
  IN  /\ keep[k].at = "book"
      /\ stock' = [stock EXCEPT ![i] = Entry(keep[k].read - by, keep[k].held + by, @.sold)]
      /\ moved' = [moved EXCEPT ![i] = Movement(@.reserved + by, @.sold, @.adjusted)]
      /\ locked' = [locked EXCEPT ![i] = NoKeeper]
      /\ Rest(k)
      /\ UNCHANGED overwritten

\* adjust: its transaction reads without a lock ...
AdjustRead(k, i, by) ==
  /\ keep[k].at = "idle"
  /\ stock[i].available + by >= 0
  /\ Bounded(i, by)
  /\ keep' = [keep EXCEPT ![k] = [at |-> "adjust", row |-> i, by |-> by,
                read |-> stock[i].available, held |-> 0]]
  /\ UNCHANGED <<stock, moved, overwritten, locked>>

\* ... and its UPDATE, which waits for the lock, stores the sum.
AdjustWrite(k) ==
  LET i == keep[k].row
      next == keep[k].read + keep[k].by
  IN  /\ keep[k].at = "adjust"
      /\ locked[i] = NoKeeper
      /\ moved[i].adjusted + keep[k].by \in Quantity
      /\ stock' = [stock EXCEPT ![i] = Entry(next, @.reserved, @.sold)]
      /\ moved' = [moved EXCEPT ![i] = Movement(@.reserved, @.sold, @.adjusted + keep[k].by)]
      /\ overwritten' = [overwritten EXCEPT ![i] =
           @ \cup IF keep[k].read = stock[i].available THEN {} ELSE {"available"}]
      /\ Rest(k)
      /\ UNCHANGED locked

\* update sets the quantity that its form shows.
SetQuantity(i, n) ==
  /\ locked[i] = NoKeeper
  /\ stock' = [stock EXCEPT ![i] = Entry(n, @.reserved, @.sold)]
  /\ overwritten' = [overwritten EXCEPT ![i] = @ \cup {"available"}]
  /\ UNCHANGED <<moved, locked, keep>>

\* updateListing of the product sets the reserved quantity, too, which is 0
\* when the form does not give one.
SetListing(i, n, m) ==
  /\ locked[i] = NoKeeper
  /\ stock' = [stock EXCEPT ![i] = Entry(n, m, @.sold)]
  /\ overwritten' = [overwritten EXCEPT ![i] = Columns]
  /\ UNCHANGED <<moved, locked, keep>>

-----------------------------------------------------------------------------
(* The dispatch of an order *)

\* applyInventoryDispatch, with all rows locked: row after row gives what it
\* has.  Only the last may keep some; the order of the rows is not stated.
Deduct(quantity) ==
  \/ Rows = {} /\ UNCHANGED stockVars
  \/ /\ Rows # {}
     /\ \A i \in Rows : locked[i] = NoKeeper
     /\ \E take \in [Rows -> 0 .. quantity] :
          /\ SumFunctionOnSet(take, Rows) = quantity
          /\ \A i \in Rows : take[i] <= stock[i].available
          /\ Cardinality({i \in Rows : 0 < take[i] /\ take[i] < stock[i].available}) <= 1
          /\ stock' = [i \in Rows |-> Entry(stock[i].available - take[i], stock[i].reserved,
                                            stock[i].sold + take[i])]
          /\ moved' = [i \in Rows |-> Movement(moved[i].reserved, moved[i].sold + take[i],
                                               moved[i].adjusted)]
          /\ UNCHANGED <<overwritten, locked, keep>>

InStock(quantity) ==
  Rows = {} \/ SumFunctionOnSet([i \in Rows |-> stock[i].available], Rows) >= quantity

InventoryNext ==
  \/ \E k \in Keepers :
       \/ \E i \in Rows, n \in Amounts :
            \/ Reserve(k, i, n) \/ Release(k, i, n)
            \/ AdjustRead(k, i, n) \/ AdjustRead(k, i, -n)
       \/ BookWrite(k)
       \/ AdjustWrite(k)
  \/ \E i \in Rows, n \in Amounts \cup {0} :
       /\ Keepers # {}
       /\ \/ SetQuantity(i, n)
          \/ \E m \in Amounts \cup {0} : SetListing(i, n, m)

-----------------------------------------------------------------------------
(* Properties *)

\* Concurrent reservations, releases and dispatches never lose stock: what a
\* row sold is what its dispatches took, what it holds back is what was
\* reserved and not released, and the rest of its stock is available, unless
\* a form overwrote a quantity or an adjustment stored a sum of an old one.
StockLedgered ==
  \A i \in DOMAIN stock :
    /\ stock[i].sold = moved[i].sold
    /\ "reserved" \notin overwritten[i] => stock[i].reserved = moved[i].reserved
    /\ overwritten[i] = {} =>
         stock[i].available + stock[i].reserved + stock[i].sold = Stock + moved[i].adjusted
=============================================================================
