------------------------------ MODULE PaymentTerms ------------------------------
(***************************************************************************)
(* What the payment page tells a customer about platform credit, and what  *)
(* the checkout accepts, over the states of the customer's applications    *)
(* and account (CreditApplications).                                       *)
(*                                                                         *)
(* The page and the checkout decide separately: paymentOptions from the    *)
(* account and the latest application, the quote and its submission from   *)
(* the account alone.  Nothing writes the account statuses BLOCKED,        *)
(* EXPIRED and CLOSED or the date of expiry.                               *)
(***************************************************************************)
EXTENDS CreditApplications

CONSTANTS
  Amounts,   \* amounts of orders and of credit that is left
  Terms      \* approved terms; 0: the approval named none

\* SUPPORTED_CREDIT_TENURES, and the method that pays after 15 or 30 days.
Supported == {15, 30}

\* resolveProductCredit: an opt-out of the offer or its product, else the
\* tenures the offer lists, else every one.
ProductTenures(optsOut, listed) ==
  IF optsOut THEN {}
  ELSE IF listed \cap Supported = {} THEN Supported ELSE listed \cap Supported

\* availableCreditTenures: an account without a term may use every tenure.
AvailableTenures(term) == IF term <= 0 THEN Supported ELSE {t \in Supported : t <= term}

-----------------------------------------------------------------------------
(* The page *)

\* Without an approved account, the latest application and then the status of
\* the account decide.
StateByApplication ==
  LET latest == IF apps = <<>> THEN "NONE" ELSE apps[Len(apps)].status IN
  CASE latest = "DRAFT" -> IF apps[Len(apps)].submitted = 1 THEN "ACTION_REQUIRED"
                           ELSE "APPLICATION_DRAFT"
    [] latest = "DOCUMENTS_REQUIRED" -> "ACTION_REQUIRED"
    [] latest \in OpenStatus \ {"DRAFT", "DOCUMENTS_REQUIRED"} -> "APPLICATION_PENDING"
    [] latest = "REJECTED" -> "REJECTED"
    [] OTHER -> IF account \in {"PENDING", "UNDER_REVIEW", "DOCUMENTS_REQUIRED"}
                THEN "APPLICATION_PENDING" ELSE "NOT_APPLIED"

\* resolveCreditAccess, for a customer with this much credit left.
AccessState(available, amount) ==
  IF account # "APPROVED" THEN StateByApplication
  ELSE IF suspended THEN "SUSPENDED"
  ELSE IF amount > 0 /\ available < amount THEN "LIMIT_EXCEEDED"
  ELSE "APPROVED"

\* Mutant: the draft of an application does not count as one.
MayApply_Draft(state) == state \in {"NOT_APPLIED", "REJECTED", "APPLICATION_DRAFT"}

\* canApply.
MayApply(state) == state \in {"NOT_APPLIED", "REJECTED"}

\* applyProductCreditGate: an offer that takes no credit is shown without it.
Invites(available, product, amount) ==
  product # {} /\ MayApply(AccessState(available, amount))

\* applyProductCreditGate and buildCreditPaymentOptions: the tenures that the
\* page lets the customer choose.
Selectable(available, term, product, amount) ==
  IF AccessState(available, amount) = "APPROVED" THEN AvailableTenures(term) \cap product ELSE {}

-----------------------------------------------------------------------------
(* The checkout *)

\* assertOfferSupportsCredit.
OfferSupports(product, tenure) == tenure \in product

\* inspect, which the quote asks, and assertEligible, which the submission asks
\* again inside its transaction.
Eligible(available, term, amount, tenure) ==
  /\ account = "APPROVED" /\ ~suspended
  /\ available >= amount
  /\ tenure \in AvailableTenures(term)

-----------------------------------------------------------------------------
(* Properties *)

\* The page lets the customer choose a tenure exactly when the checkout of the
\* same offer and amount would accept it, ...
SelectableIsAccepted(available, term, product, amount) ==
  amount > 0 =>
    Selectable(available, term, product, amount)
      = {t \in Supported : OfferSupports(product, t) /\ Eligible(available, term, amount, t)}

\* ... and, for an offer that takes credit, asks the customer to apply exactly
\* when an application would be taken and there is no account to use.
InvitesWhoMayApply(available, product, amount) ==
  product # {} =>
    (Invites(available, product, amount) <=> account # "APPROVED" /\ OpenApplications = {})

\* Both hold for every amount, credit, term and offer, however the customer, the
\* reviewers and those who suspend the account race.
PageAgreesWithCheckout ==
  \A available \in Amounts, amount \in Amounts, optsOut \in BOOLEAN, listed \in SUBSET Supported :
    LET product == ProductTenures(optsOut, listed) IN
    /\ InvitesWhoMayApply(available, product, amount)
    /\ \A term \in Terms : SelectableIsAccepted(available, term, product, amount)
=============================================================================
