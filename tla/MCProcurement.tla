----------------------------- MODULE MCProcurement -----------------------------
(* Small instances of Procurement for TLC. *)
EXTENDS Procurement, TLC

Symmetry == Permutations(Requests) \cup Permutations(Sellers)
===============================================================================
