------------------------------ MODULE MCPayments ------------------------------
(* Small instances of Payments for TLC. *)
EXTENDS Payments, TLC

Symmetry ==
  Permutations(Payments) \cup Permutations(Requests) \cup Permutations(Utrs)
=============================================================================
