---------------------------- MODULE CommercePricing ----------------------------
(***************************************************************************)
(* The amounts of a checkout quote, and what the order made of it costs.   *)
(*                                                                         *)
(* A unit price counts 1/10000 of the currency, a quantity 1/1000 of a     *)
(* tonne, an amount 1/100 of the currency and a rate 1/10000, which is how *)
(* the database keeps them.                                                *)
(***************************************************************************)
EXTENDS Integers

\* A tie is rounded up (all amounts here are positive).
RoundHalfUp(n, d) == (2 * n + d) \div (2 * d)

\* unitPrice * quantity in 1/100 of the currency.
PerCent == 100000

\* The price of a tonne: that of the first tier, in the order of minQty, that
\* spans the quantity, and the base price when none does.
UnitPrice(base, tiers, q) ==
  LET spanning == {t \in tiers : t.min <= q /\ q <= t.max}
  IN  IF spanning = {} THEN base
      ELSE (CHOOSE t \in spanning : \A x \in spanning : t.min <= x.min).price

\* assertQuantityRules.
MayOrder(q, moq, available, step) ==
  /\ q > 0 /\ q >= moq /\ q <= available
  /\ (q - moq) % step = 0

CreditMethods == {"CREDIT_15", "CREDIT_30"}
Methods == CreditMethods \cup {"ADVANCE", "ON_LOADING", "ON_DELIVERY"}

\* Mutant: whoever pays gets the discount.
DiscountBps_Everyone(method, config) == config.discountBps

\* The incentive for paying in advance.
DiscountBps(method, config) == IF method = "ADVANCE" THEN config.discountBps ELSE 0

\* calculateQuoteAmounts: the total that the customer sees and that the credit
\* of the customer is compared with.
QuoteTotal(u, q, method, config) ==
  LET base == RoundHalfUp(u * q, PerCent)
      discount == RoundHalfUp(base * DiscountBps(method, config), 10000)
      freight == RoundHalfUp(config.freightPerMt * q, 1000)
      taxable == base - discount + freight + config.fee
  IN  taxable + RoundHalfUp(taxable * config.gstBps, 10000) + config.insurance

\* buildSnapshot: the order's total, from the agreed price and quantity alone.
\* It is the product of two floating-point numbers, which may lie below a tie.
OrderTotals(u, q) ==
  LET total == RoundHalfUp(u * q, PerCent)
  IN  IF (2 * u * q) % (2 * PerCent) = PerCent THEN {total, total - 1} ELSE {total}

\* Rates and fees as the environment configures them.
Config == [gstBps : Nat, discountBps : Nat, freightPerMt : Nat, fee : Nat, insurance : Nat]

-----------------------------------------------------------------------------
(* Properties *)

\* The credit check of a quote covers the order: what the ledger is asked to
\* reserve for an order made at the quote's price never exceeds the amount that
\* was compared with the customer's credit at the checkout, although the two
\* are computed by different services with different arithmetic.
CheckCoversOrder(o, q, method, config) ==
  LET u == UnitPrice(o.base, o.tiers, q)
  IN  method \in CreditMethods /\ MayOrder(q, o.moq, o.available, o.step) =>
        \A total \in OrderTotals(u, q) : total <= QuoteTotal(u, q, method, config)
=============================================================================
