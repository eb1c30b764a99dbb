---------------------------- MODULE MCImportTrading ----------------------------
(* Two negotiations of one listing, for TLC. *)
EXTENDS ImportTrading, TLC

CONSTANTS s1, n1, n2, x, y

OneListing == n1 :> s1 @@ n2 :> s1
NotLinked == n1 :> NoListing @@ n2 :> NoListing
TwoOpeners == n1 :> x @@ n2 :> y

Symmetry == Permutations(Requests)
=============================================================================
