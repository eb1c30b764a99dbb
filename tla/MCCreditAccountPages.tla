------------------------- MODULE MCCreditAccountPages -------------------------
(* Small instance of CreditAccountPages for TLC. *)
EXTENDS CreditAccountPages, TLC

CONSTANTS o1, o2, p1

OnePayment == [p \in {p1} |-> o1]
One == [p \in {p1} |-> 1]

Symmetry == Permutations(Requests)
=============================================================================
