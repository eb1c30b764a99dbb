-------------------------------- MODULE Bargain --------------------------------
(***************************************************************************)
(* What the negotiations of import trade promise their two parties: offers *)
(* alternate; a negotiation is agreed once, by the party that did not make *)
(* the last offer, on the terms of that offer; the terms of the deal never *)
(* change, the other party signs it, and a cancelled deal is not confirmed *)
(* any more.  Each negotiation goes its own way; one step may be a step of *)
(* several.  ImportTrading implements it.                                  *)
(***************************************************************************)
EXTENDS Naturals

CONSTANTS
  Negotiations,
  Severable   \* those that end although they were agreed

VARIABLE bargain   \* per negotiation: its stage, the offers made, who has to
                   \* answer, and the deal with the offer it is made of

Both == {"OPENER", "OWNER"}
Other(party) == IF party = "OPENER" THEN "OWNER" ELSE "OPENER"

Bargain(stage, offers, turn, deal) ==
  [stage |-> stage, offers |-> offers, turn |-> turn, deal |-> deal]
Deal(status, signed, offer, by) ==
  [status |-> status, confirmed |-> signed, round |-> offer, by |-> by]

Init == bargain = [b \in Negotiations |-> Bargain("NONE", 0, "NOBODY", Deal("NONE", {}, 0, "OPENER"))]

Open(b) ==
  /\ bargain[b].stage = "NONE"
  /\ bargain'[b] = Bargain("OPEN", 1, "OWNER", bargain[b].deal)

Counter(b) ==
  /\ bargain[b].stage = "OPEN"
  /\ bargain'[b] = Bargain("OPEN", bargain[b].offers + 1, Other(bargain[b].turn), bargain[b].deal)

Accept(b) ==
  LET it == bargain[b]
  IN  /\ it.stage = "OPEN"
      /\ bargain'[b] = Bargain("AGREED", it.offers, "NOBODY",
           Deal("PENDING_CONFIRMATION", {it.turn}, it.offers, Other(it.turn)))

\* A negotiation is rejected, withdrawn, overdue, or its listing ends.
End(b) ==
  /\ \/ bargain[b].stage = "OPEN"
     \/ bargain[b].stage = "AGREED" /\ b \in Severable
  /\ bargain'[b] = Bargain("ENDED", bargain[b].offers, "NOBODY", bargain[b].deal)

\* The deal goes on, on its terms.
Sign(b, status, signed) ==
  LET it == bargain[b]
  IN  bargain'[b] = Bargain(it.stage, it.offers, it.turn,
                            Deal(status, signed, it.deal.round, it.deal.by))

Confirm(b) ==
  /\ bargain[b].deal.status = "PENDING_CONFIRMATION"
  /\ Sign(b, "CONFIRMED", Both)

Cancel(b) ==
  /\ bargain[b].deal.status \in {"PENDING_CONFIRMATION", "CONFIRMED"}
  /\ Sign(b, "CANCELLED", bargain[b].deal.confirmed)

Step(b) == Open(b) \/ Counter(b) \/ Accept(b) \/ End(b) \/ Confirm(b) \/ Cancel(b)

Next ==
  /\ bargain' = [b \in Negotiations |-> bargain'[b]]
  /\ \A b \in Negotiations : Step(b) \/ bargain'[b] = bargain[b]

Spec == Init /\ [][Next]_bargain
=============================================================================
