-------------------------------- MODULE Escrow --------------------------------
(***************************************************************************)
(* What the payment flow of one order promises its seller: money received  *)
(* for the order only grows, and the order is settled at most once, never  *)
(* unsettled, and only when the whole total has been received.  Payments   *)
(* implements it.                                                          *)
(***************************************************************************)
EXTENDS Naturals

CONSTANT Total

VARIABLES received, settled

Init == received = 0 /\ settled = 0

\* A payment is confirmed; the one that completes the total may settle the
\* order.
Receive ==
  /\ received' \in Nat /\ received' > received
  /\ \/ settled' = settled
     \/ settled = 0 /\ settled' = 1 /\ received' >= Total

Spec == Init /\ [][Receive]_<<received, settled>>
=============================================================================
