---------------------------- MODULE MCCreditLedger ----------------------------
(* Small instance of CreditLedger for TLC: both payments are for the first *)
(* order.                                                                  *)
EXTENDS CreditLedger, TLC

CONSTANTS o1, o2, p1, p2

TwoPayments == [p \in {p1, p2} |-> o1]
OneEach == [p \in {p1, p2} |-> 1]

Symmetry == Permutations(Requests)
=============================================================================
