--------------------------------- MODULE Sale ---------------------------------
(***************************************************************************)
(* What the negotiation of one purchase request promises its parties: the  *)
(* request is sold once and the order is never rewritten; sellers are      *)
(* invited while there are none; one of those invited may win, not before  *)
(* there is an order, and that closes the request for the others; a place  *)
(* won or lost stays so.  Procurement implements it.                       *)
(***************************************************************************)
EXTENDS Sequences

CONSTANTS Sellers, Terms

VARIABLES
  sold,      \* the order, in a sequence of at most one
  standing   \* per seller: "out", "invited", "won" or "lost"

Init ==
  /\ sold = <<>>
  /\ standing \in [Sellers -> {"out", "invited"}]

Invite(s) ==
  /\ \A t \in Sellers : standing[t] = "out"
  /\ standing' = [standing EXCEPT ![s] = "invited"]
  /\ UNCHANGED sold

\* s answers first of those invited, or comes too late.
Settled(s) ==
  [t \in Sellers |-> IF standing[t] # "invited" THEN standing[t]
                     ELSE IF t = s THEN "won" ELSE "lost"]

\* The request is sold to s, by an answer of s or of the customer; the
\* customer's tells the invited sellers nothing.
Sell(s, terms) ==
  /\ sold = <<>>
  /\ sold' = <<[seller |-> s, terms |-> terms]>>
  /\ standing' \in {Settled(s), standing}

\* Another acceptance leaves the order as it is.
AcceptAgain(s) ==
  /\ sold # <<>>
  /\ standing' = Settled(s)
  /\ UNCHANGED sold

\* Sellers decline, or their invitations expire.
Drop(S) ==
  /\ standing' = [t \in Sellers |-> IF t \in S /\ standing[t] = "invited" THEN "lost"
                                    ELSE standing[t]]
  /\ UNCHANGED sold

Next ==
  \/ \E s \in Sellers : Invite(s) \/ AcceptAgain(s)
  \/ \E s \in Sellers, terms \in Terms : Sell(s, terms)
  \/ \E S \in SUBSET Sellers : Drop(S)

Spec == Init /\ [][Next]_<<sold, standing>>
=============================================================================
