-------------------------- MODULE CreditAccountPages --------------------------
(***************************************************************************)
(* The account pages of the administrators beside the ledger of            *)
(* CreditLedger.  adjustLimit works under the lock of the profile; suspend *)
(* and reactivate decide on the status they read and then write theirs,    *)
(* whatever it has become.  All three end like getCustomerCredit and show  *)
(* the account: getAccount recomputes the balances without a lock or a     *)
(* transaction, so every read of it is a step, and its write stores what   *)
(* it read.                                                                *)
(***************************************************************************)
EXTENDS CreditLedger

CONSTANT Pagers      \* page requests of administrators

VARIABLE page        \* the page requests in progress

pageVars == <<vars, page>>

Page == [at : {"idle", "suspend", "reactivate", "profile", "ledger", "schedules", "write"},
         approved : Nat, pending : Nat, used : SUBSET Orders, outstanding : Nat]
NoPage == [at |-> "idle", approved |-> 0, pending |-> 0, used |-> {}, outstanding |-> 0]

PagesInit == Init /\ page = [a \in Pagers |-> NoPage]

Goes(a, at) == page' = [page EXCEPT ![a].at = at]

-----------------------------------------------------------------------------
(* The operations on the account: what they change, then its page *)

AdjustLimit(a, limit) ==
  /\ page[a].at = "idle"
  /\ profile' = Refresh(WithStatus(profile.status, profile.account, limit), orders)
  /\ Goes(a, "profile")
  /\ UNCHANGED <<orders, settled, verified, req>>

SuspendRead(a) ==
  /\ page[a].at = "idle"
  /\ profile.account # "SUSPENDED"
  /\ Goes(a, "suspend")
  /\ UNCHANGED vars

Suspend(a) ==
  /\ page[a].at = "suspend"
  /\ profile' = WithStatus("SUSPENDED", "SUSPENDED", profile.approved)
  /\ Goes(a, "profile")
  /\ UNCHANGED <<orders, settled, verified, req>>

ReactivateRead(a) ==
  /\ page[a].at = "idle"
  /\ profile.status \in {"APPROVED", "SUSPENDED"}
  /\ Goes(a, "reactivate")
  /\ UNCHANGED vars

Reactivate(a) ==
  /\ page[a].at = "reactivate"
  /\ profile' = WithStatus("APPROVED", "ACTIVE", profile.approved)
  /\ Goes(a, "profile")
  /\ UNCHANGED <<orders, settled, verified, req>>

-----------------------------------------------------------------------------
(* getAccount: refreshBalances on the plain connection *)

PageProfile(a) ==
  /\ page[a].at \in {"idle", "profile"}
  /\ page' = [page EXCEPT ![a].at = "ledger", ![a].approved = profile.approved]
  /\ UNCHANGED vars

PageLedger(a) ==
  /\ page[a].at = "ledger"
  /\ page' = [page EXCEPT ![a].at = "schedules", ![a].pending = Pending(orders),
                          ![a].used = Used(orders)]
  /\ UNCHANGED vars

PageSchedules(a) ==
  /\ page[a].at = "schedules"
  /\ page' = [page EXCEPT ![a].at = "write",
                          ![a].outstanding = Outstanding(orders, page[a].used)]
  /\ UNCHANGED vars

PageWrite(a) ==
  /\ page[a].at = "write"
  /\ profile' = Refreshed(profile, page[a].approved, page[a].pending, page[a].outstanding)
  /\ page' = [page EXCEPT ![a] = NoPage]
  /\ UNCHANGED <<orders, settled, verified, req>>

-----------------------------------------------------------------------------
PagesNext ==
  \/ Next /\ UNCHANGED page
  \/ \E a \in Pagers :
       \/ \E limit \in Limits : AdjustLimit(a, limit)
       \/ SuspendRead(a)
       \/ Suspend(a)
       \/ ReactivateRead(a)
       \/ Reactivate(a)
       \/ PageProfile(a)
       \/ PageLedger(a)
       \/ PageSchedules(a)
       \/ PageWrite(a)

PagesSpec == PagesInit /\ [][PagesNext]_pageVars

PagesTypeOK == TypeOK /\ page \in [Pagers -> Page]
=============================================================================
