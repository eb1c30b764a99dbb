------------------------------ MODULE CreditLine ------------------------------
(***************************************************************************)
(* What the platform promises about a customer's credit line: an order is  *)
(* placed on credit once, and only if the customer then owes no more than  *)
(* the limit; the first dispatch turns its reserved value into debt, once  *)
(* and for good; an order never owes more than it was placed for.          *)
(* CreditLedger implements it.                                             *)
(***************************************************************************)
EXTENDS Integers, Functions

CONSTANT Orders

VARIABLES
  limit,
  debt    \* per order: its stage, the value it was placed for, what is left to pay

line == <<limit, debt>>

Debt(stage, value, left) == [stage |-> stage, value |-> value, left |-> left]

Total(amounts, S) == IF S = {} THEN 0 ELSE SumFunctionOnSet(amounts, S)
Reserved == Total([o \in Orders |-> debt[o].value], {o \in Orders : debt[o].stage = "placed"})
Owed == Total([o \in Orders |-> debt[o].left], {o \in Orders : debt[o].stage = "drawn"})

Init == limit = 0 /\ debt = [o \in Orders |-> Debt("none", 0, 0)]

Place(o) ==
  LET value == debt'[o].value
  IN  /\ debt[o].stage = "none"
      /\ value \in Nat \ {0}
      /\ debt' = [debt EXCEPT ![o] = Debt("placed", value, value)]
      /\ Reserved' + Owed' <= limit
      /\ UNCHANGED limit

\* Dispatches after the first change nothing.
Draw(o) ==
  /\ debt[o].stage = "placed"
  /\ debt' = [debt EXCEPT ![o].stage = "drawn"]
  /\ UNCHANGED limit

\* Two payments verified at once may each show what the other one left out:
\* what is left may rise again, but not above the value.
Pay(o, left) ==
  /\ debt[o].stage # "none"
  /\ debt' = [debt EXCEPT ![o].left = left]
  /\ UNCHANGED limit

\* A limit may be set below what is owed: nothing is placed until it is paid.
SetLimit == limit' \in Nat /\ UNCHANGED debt

Next ==
  \/ \E o \in Orders :
       \/ Place(o)
       \/ Draw(o)
       \/ \E left \in 0 .. debt[o].value : Pay(o, left)
  \/ SetLimit

Spec == Init /\ [][Next]_line
=============================================================================
