--------------------------- MODULE ScheduleTemplate ---------------------------
(***************************************************************************)
(* The payment-schedule template of a purchase order and the split of its  *)
(* total over the template's lines (payments/services/payment-schedule     *)
(* and payments/common/money.util).  Money is an integer number of paise,  *)
(* so round2 is rounding to the nearest integer, halves up.                *)
(***************************************************************************)
EXTENDS Integers, Sequences

Line(type, pct, status) == [type |-> type, pct |-> pct, status |-> status]

\* PaymentMethod values that have a case of their own; every other value
\* (NET_TERMS, LC, OTHER, none) takes the default branch.
CreditMethods == {"CREDIT", "CREDIT_15", "CREDIT_30"}
PartialMethods == {"PARTIAL_ADVANCE", "PARTIAL_PAYMENT"}
PaymentMethods ==
  CreditMethods \cup PartialMethods \cup
  {"ADVANCE", "BEFORE_DISPATCH", "ON_LOADING", "ON_DELIVERY",
   "MILESTONE_PAYMENT", "OTHER"}

\* Due dates are left out: nothing in the payment flow reads them.  A
\* one-line schedule has the type named like the method, CREDIT for the three
\* credit methods, and waits for its milestone if it has one.
BuildTemplate(method) ==
  IF method \in PartialMethods THEN
    <<Line("ADVANCE", 30, "DUE"), Line("BEFORE_DISPATCH", 70, "PENDING")>>
  ELSE IF method = "MILESTONE_PAYMENT" THEN
    <<Line("ADVANCE", 20, "DUE"), Line("ON_LOADING", 40, "PENDING"),
      Line("ON_DELIVERY", 40, "PENDING")>>
  ELSE
    <<Line(IF method \in CreditMethods THEN "CREDIT" ELSE method, 100,
           IF method \in {"ON_LOADING", "ON_DELIVERY"} THEN "PENDING"
           ELSE "DUE")>>

\* round2(total * pct / 100)
Part(total, pct) == (total * pct + 50) \div 100

\* What splitByPercentages has put into `allocated` before it reaches line i.
\* A template has at most three lines, so the loop is written out.
Allocated(total, tmpl, i) ==
  (IF i > 1 THEN Part(total, tmpl[1].pct) ELSE 0)
    + (IF i > 2 THEN Part(total, tmpl[2].pct) ELSE 0)

\* The last line absorbs the rounding remainder.
SplitByPercentages(total, tmpl) ==
  [i \in 1 .. Len(tmpl) |->
     IF i = Len(tmpl) THEN total - Allocated(total, tmpl, i)
     ELSE Part(total, tmpl[i].pct)]
=============================================================================
