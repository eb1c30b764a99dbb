-------------------------- MODULE CreditLedger_proofs --------------------------
(***************************************************************************)
(* Proofs about the credit ledger, for any number of orders, payments,     *)
(* concurrent requests and account pages.  Whoever writes the profile: a   *)
(* payment settles once, and a new ledger row or limit is committed with   *)
(* exact balances.  While every writer of the profile takes its lock and   *)
(* no payment is verified twice: the stored balances are exact at any time,*)
(* a new order fits in the limit, and the ledger implements CreditLine.    *)
(***************************************************************************)
EXTENDS CreditAccountPages, SumLemmas

\* The condition of the exact balances: no verified payment is reopened.
\* (CreditLedger's Spec has no account pages.)
Locked == Reopened = {}

USE DEF Order, At

-----------------------------------------------------------------------------
\* When the ledger rows tell the stage of every order, refreshBalances
\* computes what the orders say.
LEMMA RefreshIsExact ==
  ASSUME RowsTyped', RowsTellStage',
         profile' = Refresh(profile, orders') \/
           (\E s, a, l : profile' = Refresh(WithStatus(s, a, l), orders'))
  PROVE  StoredBalanceIsExact'
<1>1. Pending(orders') = Reserved'
  <2>1. Waiting(orders') =
          {o \in Orders : orders'[o].open = 1 /\ orders'[o].dispatches = 0}
    BY DEF Waiting, Used, RowsTellStage, RowsTyped
  <2> QED BY <2>1 DEF Pending, Reserved
<1>2. Outstanding(orders', Used(orders')) = Owed'
  <2>1. Used(orders') = {o \in Orders : orders'[o].dispatches > 0}
    BY DEF Used, RowsTellStage, RowsTyped
  <2> QED BY <2>1 DEF Outstanding, Owed
<1>3. /\ profile'.pending = Pending(orders')
      /\ profile'.outstanding = Outstanding(orders', Used(orders'))
      /\ profile'.available =
           NotNegative(profile'.approved - Pending(orders')
                       - Outstanding(orders', Used(orders')))
  BY DEF Refresh, Refreshed, WithStatus
<1> QED BY <1>1, <1>2, <1>3 DEF StoredBalanceIsExact

\* A step that refreshes, or that changes neither ledger rows nor the limit.
LEMMA RefreshedStep == StoredBalanceIsExact' => LedgerStep
  BY DEF LedgerStep

LEMMA QuietStep ==
  ASSUME UNCHANGED <<orders, settled>>, profile'.approved = profile.approved
  PROVE  LedgerStep
  BY DEF LedgerStep, LedgerRows

\* The balances and what they are computed from did not change.
LEMMA SameBalances ==
  ASSUME StoredBalanceIsExact, UNCHANGED orders,
         profile'.approved = profile.approved, profile'.pending = profile.pending,
         profile'.outstanding = profile.outstanding,
         profile'.available = profile.available
  PROVE  StoredBalanceIsExact'
  BY DEF StoredBalanceIsExact, Reserved, Owed

\* What each step is shown to do.
KeepsLedger ==
  /\ LedgerInv'
  /\ LedgerStep
  /\ Locked /\ StoredBalanceIsExact => StoredBalanceIsExact'

\* A step with nothing but a row of req, the status or the pages.
LEMMA NoLedgerMove ==
  ASSUME LedgerInv', UNCHANGED <<orders, settled>>,
         profile' = profile \/ (\E s, a : profile' = WithStatus(s, a, profile.approved))
  PROVE  KeepsLedger
<1>1. /\ profile'.approved = profile.approved /\ profile'.pending = profile.pending
      /\ profile'.outstanding = profile.outstanding
      /\ profile'.available = profile.available
  BY DEF WithStatus
<1>. QED  BY <1>1, QuietStep, SameBalances DEF KeepsLedger

LEMMA Refreshes ==
  ASSUME LedgerInv',
         profile' = Refresh(profile, orders') \/
           (\E s, a, l : profile' = Refresh(WithStatus(s, a, l), orders'))
  PROVE  KeepsLedger
<1>1. StoredBalanceIsExact'
  BY RefreshIsExact DEF LedgerInv
<1>. QED  BY <1>1, RefreshedStep DEF KeepsLedger

LEMMA IdleFacts == Idle.at = "idle" /\ Idle.o \notin Orders
BY NoneAssumption DEF Idle

LEMMA InvInit == Init => LedgerInv /\ StoredBalanceIsExact
<1> SUFFICES ASSUME Init PROVE LedgerInv /\ StoredBalanceIsExact
  OBVIOUS
<1>1. RowsTyped /\ DOMAIN req = Requests /\ SettledOnce
  BY DEF Init, RowsTyped, NoRow, SettledOnce
<1>2. RowsTellStage /\ ReadsStand /\ SettledAreVerified
  BY DEF Init, RowsTellStage, ReadsStand, SettledAreVerified,
         NoRow, Idle
<1>3. StoredBalanceIsExact
  <2>1. Reserved = 0 /\ Owed = 0
    BY DEF Init, NoRow, Reserved, Owed, Sum
  <2> QED BY <2>1 DEF Init, StoredBalanceIsExact, NotNegative
<1> QED BY <1>1, <1>2, <1>3 DEF LedgerInv

-----------------------------------------------------------------------------
(* Steps that move no row of the ledger *)

\* A step that leaves the orders and the settlements alone, and after which
\* every request in progress is one that was, keeps the invariant.
LEMMA Frame ==
  ASSUME LedgerInv, UNCHANGED <<orders, settled, verified>>, DOMAIN req' = Requests,
         \A q \in Requests : req'[q] = req[q] \/ req'[q] = Idle
  PROVE  LedgerInv'
<1> USE DEF LedgerInv
<1>1. RowsTyped' /\ RowsTellStage' /\ SettledOnce'
  BY DEF RowsTyped, RowsTellStage, SettledOnce
<1>2. ReadsStand'
  BY IdleFacts DEF ReadsStand
<1>3. SettledAreVerified'
  BY IdleFacts DEF SettledAreVerified
<1> QED BY <1>1, <1>2, <1>3

LEMMA BeginStep ==
  ASSUME LedgerInv, NEW r \in Requests,
         \/ \E o \in Orders, v \in Values : ReserveRead(r, o, v)
         \/ \E o \in Orders : UtilizeRead(r, o)
         \/ \E p \in Payments : SettleRead(r, p)
  PROVE  KeepsLedger
<1> USE DEF LedgerInv
<1>1. /\ UNCHANGED <<profile, orders, settled, verified>>
      /\ DOMAIN req' = Requests
      /\ \A q \in Requests \ {r} : req'[q] = req[q]
  BY DEF ReserveRead, UtilizeRead, SettleRead
<1>2. RowsTyped' /\ RowsTellStage' /\ SettledOnce'
  BY <1>1 DEF RowsTyped, RowsTellStage, SettledOnce
<1>3. ASSUME NEW o \in Orders, NEW v \in Values, ReserveRead(r, o, v)
      PROVE  ReadsStand' /\ SettledAreVerified'
  <2>1. /\ req'[r].at = "reserve" /\ req'[r].o = o /\ req'[r].n = v
        /\ orders[o].open = 0 /\ \A q \in Requests : req[q].o # o
        /\ v \in Nat \ {0}
    BY <1>3, AmountsAssumption DEF ReserveRead
  <2>2. ReadsStand'
    BY <1>1, <2>1 DEF ReadsStand
  <2>3. SettledAreVerified'
    BY <1>1, <2>1 DEF SettledAreVerified
  <2> QED BY <2>2, <2>3
<1>4. ASSUME NEW o \in Orders, UtilizeRead(r, o)
      PROVE  ReadsStand' /\ SettledAreVerified'
  <2>1. /\ req'[r].at = "utilize" /\ req'[r].o = o /\ orders[o].open = 1
        /\ req'[r].n # 0 => orders[o].utilized > 0
    BY <1>4 DEF UtilizeRead
  <2>2. \A q \in Requests : req[q].at = "reserve" => req[q].o # o
    BY <2>1 DEF ReadsStand
  <2>3. ReadsStand'
    BY <1>1, <2>1, <2>2 DEF ReadsStand
  <2>4. SettledAreVerified'
    BY <1>1, <2>1 DEF SettledAreVerified
  <2> QED BY <2>3, <2>4
<1>5. ASSUME NEW p \in Payments, SettleRead(r, p)
      PROVE  ReadsStand' /\ SettledAreVerified'
  <2> DEFINE o == PayOf[p]
  <2>1. /\ req'[r].at = "settle" /\ req'[r].o = o /\ req'[r].p = p
        /\ orders[o].open = 1 /\ o \in Orders
        /\ req'[r].n = orders[o].remaining - PayAmount[p]
        /\ p \notin verified \/ p \in Reopened
        /\ \A q \in Requests : req[q].p # p
    BY <1>5, AmountsAssumption DEF SettleRead
  <2>2. req'[r].n \in Nat
    <3>1. /\ PayAmount[p] <= orders[o].remaining /\ PayAmount[p] \in Nat
          /\ orders[o].remaining \in Nat
      BY <1>5, <2>1, AmountsAssumption DEF SettleRead, RowsTyped
    <3> QED BY <2>1, <3>1
  <2>3. \A q \in Requests : req[q].at = "reserve" => req[q].o # o
    BY <2>1 DEF ReadsStand
  <2> HIDE DEF o
  <2>4. ReadsStand'
    BY <1>1, <2>1, <2>2, <2>3 DEF ReadsStand
  <2>5. SettledAreVerified'
    BY <1>1, <2>1 DEF SettledAreVerified
  <2> QED BY <2>4, <2>5
<1>6. LedgerInv'
  BY <1>1, <1>2, <1>3, <1>4, <1>5
<1> QED BY <1>1, <1>6, NoLedgerMove

\* A committing request leaves the others alone and is idle afterwards.
LEMMA DoneStep ==
  ASSUME DOMAIN req = Requests, NEW r \in Requests, Done(r)
  PROVE  /\ DOMAIN req' = Requests /\ req'[r] = Idle
         /\ \A q \in Requests \ {r} : req'[q] = req[q]
BY DEF Done

LEMMA AbortStep ==
  ASSUME LedgerInv, NEW r \in Requests, Abort(r)
  PROVE  KeepsLedger
<1>1. UNCHANGED <<profile, orders, settled, verified>> /\ LedgerInv'
  BY Frame, DoneStep DEF Abort, LedgerInv
<1>. QED  BY <1>1, NoLedgerMove

-----------------------------------------------------------------------------
(* The commits *)

\* A reservation that is recorded is for an order that was not open, that no
\* other request reserves, and that has a value.
LEMMA Reserving ==
  ASSUME LedgerInv, NEW r \in Requests, ReserveCommit(r)
  PROVE  /\ DOMAIN req' = Requests
         /\ req'[r] = Idle /\ req'[r].at = "idle" /\ req'[r].o \notin Orders
         /\ \A q \in Requests \ {r} : req'[q] = req[q] /\ req[q].o # req[r].o
         /\ settled' = settled /\ verified' = verified
         /\ req[r].at = "reserve"
         /\ req[r].o \in Orders /\ orders[req[r].o].open = 0
         /\ orders[req[r].o].dispatches = 0 /\ req[r].n \in Nat \ {0}
         /\ orders' = orders \/
              (/\ \A q \in Orders \ {req[r].o} : orders'[q] = orders[q]
               /\ orders'[req[r].o] =
                    [open |-> 1, value |-> req[r].n, remaining |-> req[r].n,
                     reserved |-> 1, utilized |-> 0, dispatches |-> 0]
               /\ orders' \in [Orders -> Order])
<1> USE DEF LedgerInv
<1>1. /\ DOMAIN req' = Requests
      /\ req'[r] = Idle /\ req'[r].at = "idle" /\ req'[r].o \notin Orders
      /\ \A q \in Requests \ {r} : req'[q] = req[q]
      /\ settled' = settled /\ verified' = verified
      /\ req[r].at = "reserve"
  BY DoneStep, IdleFacts DEF ReserveCommit
<1>2. /\ req[r].o \in Orders /\ orders[req[r].o].open = 0 /\ req[r].n \in Nat \ {0}
      /\ \A q \in Requests \ {r} : req[q].o # req[r].o
  BY <1>1 DEF ReadsStand
<1>3. orders \in [Orders -> Order]
  BY DEF RowsTyped
<1>4. orders[req[r].o].dispatches = 0
  BY <1>2, <1>3 DEF RowsTellStage
<1>5. orders' = orders \/
        orders' = [orders EXCEPT ![req[r].o] =
                     [open |-> 1, value |-> req[r].n, remaining |-> req[r].n,
                      reserved |-> 1, utilized |-> 0, dispatches |-> 0]]
  BY DEF ReserveCommit
<1>. QED  BY <1>1, <1>2, <1>3, <1>4, <1>5

LEMMA ReserveStep ==
  ASSUME LedgerInv, NEW r \in Requests, ReserveCommit(r)
  PROVE  KeepsLedger
<1> USE DEF LedgerInv
<1> DEFINE o == req[r].o
<1>1. /\ DOMAIN req' = Requests
      /\ req'[r] = Idle /\ req'[r].at = "idle" /\ req'[r].o \notin Orders
      /\ \A q \in Requests \ {r} : req'[q] = req[q] /\ req[q].o # o
      /\ settled' = settled /\ verified' = verified
      /\ o \in Orders /\ orders[o].open = 0 /\ req[r].n \in Nat \ {0}
  BY Reserving
<1>2. CASE UNCHANGED <<orders, profile>>
  <2>1. LedgerInv'
    BY <1>1, <1>2, Frame
  <2>. QED  BY <1>1, <1>2, <2>1, NoLedgerMove
<1>3. CASE profile' = Refresh(profile, orders') /\ orders' # orders
  <2>1. /\ \A q \in Orders \ {o} : orders'[q] = orders[q]
        /\ orders'[o] = [open |-> 1, value |-> req[r].n, remaining |-> req[r].n,
                         reserved |-> 1, utilized |-> 0, dispatches |-> 0]
        /\ orders' \in [Orders -> Order]
    BY <1>3, Reserving
  <2> HIDE DEF o
  <2>2. RowsTyped'
    BY <1>1, <2>1 DEF RowsTyped
  <2>3. RowsTellStage'
    BY <1>1, <2>1 DEF RowsTellStage
  <2>4. ReadsStand'
    BY <1>1, <2>1 DEF ReadsStand
  <2>5. SettledAreVerified' /\ SettledOnce'
    BY <1>1 DEF SettledAreVerified, SettledOnce
  <2>6. LedgerInv'
    BY <1>1, <2>2, <2>3, <2>4, <2>5
  <2>. QED  BY <1>3, <2>6, Refreshes
<1>4. UNCHANGED <<orders, profile>> \/ (profile' = Refresh(profile, orders') /\ orders' # orders)
  <2>1. orders[o] # [open |-> 1, value |-> req[r].n, remaining |-> req[r].n,
                     reserved |-> 1, utilized |-> 0, dispatches |-> 0]
    BY <1>1
  <2>. QED  BY <1>1, <2>1 DEF ReserveCommit, RowsTyped
<1>. QED  BY <1>2, <1>3, <1>4

LEMMA UtilizeStep ==
  ASSUME LedgerInv, NEW r \in Requests, UtilizeCommit(r)
  PROVE  KeepsLedger
<1> USE DEF LedgerInv
<1> DEFINE o == req[r].o
           n == req[r].n
<1>1. /\ DOMAIN req' = Requests
      /\ req'[r].at = "idle" /\ req'[r].o \notin Orders
      /\ \A q \in Requests \ {r} : req'[q] = req[q]
      /\ settled' = settled /\ verified' = verified
      /\ req[r].at = "utilize"
  BY DoneStep, IdleFacts DEF UtilizeCommit
<1>2. /\ o \in Orders /\ orders[o].open = 1
      /\ n # 0 => orders[o].utilized > 0
      /\ orders[o] \in Order
  BY <1>1 DEF ReadsStand, RowsTyped
<1>3. /\ \A q \in Orders \ {o} : orders'[q] = orders[q]
      /\ orders'[o] = [open |-> 1, value |-> orders[o].value,
                       remaining |-> orders[o].remaining,
                       reserved |-> orders[o].reserved,
                       utilized |-> IF n = 0 THEN orders[o].utilized + 1
                                    ELSE orders[o].utilized,
                       dispatches |-> orders[o].dispatches + 1]
      /\ orders' \in [Orders -> Order]
  BY <1>2 DEF UtilizeCommit, RowsTyped
<1>4. RowsTyped'
  BY <1>1, <1>3 DEF RowsTyped
<1>5. RowsTellStage'
  BY <1>2, <1>3 DEF RowsTellStage
<1>6. \A q \in Orders : /\ orders'[q].open = orders[q].open
                        /\ orders[q].utilized > 0 => orders'[q].utilized > 0
  BY <1>2, <1>3
<1>7. ReadsStand'
  BY <1>1, <1>6 DEF ReadsStand
<1>8. SettledAreVerified' /\ SettledOnce'
  BY <1>1 DEF SettledAreVerified, SettledOnce
<1>9. LedgerInv'
  BY <1>1, <1>4, <1>5, <1>7, <1>8
<1>10. CASE n = 0
  BY <1>9, <1>10, Refreshes DEF UtilizeCommit
<1>11. CASE n # 0
  <2>1. profile' = profile /\ orders[o].dispatches > 0
    BY <1>2, <1>11 DEF UtilizeCommit, RowsTellStage
  <2>2. /\ [q \in Orders |-> orders'[q].value] = [q \in Orders |-> orders[q].value]
        /\ [q \in Orders |-> orders'[q].remaining] =
             [q \in Orders |-> orders[q].remaining]
    BY <1>2, <1>3
  <2>3. /\ {q \in Orders : orders'[q].open = 1 /\ orders'[q].dispatches = 0} =
             {q \in Orders : orders[q].open = 1 /\ orders[q].dispatches = 0}
        /\ {q \in Orders : orders'[q].dispatches > 0} =
             {q \in Orders : orders[q].dispatches > 0}
    BY <1>2, <1>3, <2>1
  <2>4. Reserved' = Reserved /\ Owed' = Owed
    BY <2>2, <2>3 DEF Reserved, Owed
  <2>5. StoredBalanceIsExact => StoredBalanceIsExact'
    BY <2>1, <2>4 DEF StoredBalanceIsExact
  <2>6. LedgerRows' = LedgerRows
    <3>1. \A q \in Orders : /\ orders'[q].reserved = orders[q].reserved
                            /\ orders'[q].utilized = orders[q].utilized
      BY <1>2, <1>3, <1>11
    <3>. QED  BY <1>1, <3>1 DEF LedgerRows
  <2>7. LedgerStep
    BY <2>1, <2>6 DEF LedgerStep
  <2>. QED  BY <1>9, <2>5, <2>7 DEF KeepsLedger
<1>. QED  BY <1>10, <1>11

LEMMA SettleStep ==
  ASSUME LedgerInv, NEW r \in Requests, SettleCommit(r)
  PROVE  KeepsLedger
<1> USE DEF LedgerInv
<1> DEFINE o == req[r].o
           p == req[r].p
<1>1. /\ DOMAIN req' = Requests
      /\ req'[r].at = "idle" /\ req'[r].o \notin Orders
      /\ \A q \in Requests \ {r} : req'[q] = req[q]
      /\ verified' = verified \cup {p}
      /\ req[r].at = "settle"
  BY DoneStep, IdleFacts DEF SettleCommit
<1>2. /\ o \in Orders /\ p \in Payments /\ orders[o].open = 1
      /\ req[r].n \in Nat /\ orders[o] \in Order
  BY <1>1 DEF ReadsStand, RowsTyped
<1>3. /\ \A q \in Orders \ {o} : orders'[q] = orders[q]
      /\ orders'[o] = [open |-> 1, value |-> orders[o].value,
                       remaining |-> req[r].n,
                       reserved |-> orders[o].reserved,
                       utilized |-> orders[o].utilized,
                       dispatches |-> orders[o].dispatches]
      /\ orders' \in [Orders -> Order]
  BY <1>2 DEF SettleCommit, RowsTyped
<1>4. settled' = settled \/ (settled[p] = 0 /\ settled' = [settled EXCEPT ![p] = @ + 1])
  BY <1>2 DEF SettleCommit, AlreadySettled, RowsTyped
<1>5. settled' \in [Payments -> Nat] /\ SettledOnce'
  BY <1>2, <1>4 DEF RowsTyped, SettledOnce
<1>6. RowsTyped' /\ RowsTellStage'
  BY <1>1, <1>2, <1>3, <1>5 DEF RowsTyped, RowsTellStage
<1>7. ReadsStand'
  <2>1. \A q \in Orders : /\ orders'[q].open = orders[q].open
                          /\ orders'[q].utilized = orders[q].utilized
    BY <1>2, <1>3
  <2> QED BY <1>1, <2>1 DEF ReadsStand
<1>8. SettledAreVerified'
  <2>1. \A q \in Payments : settled'[q] > 0 => q \in verified'
    BY <1>1, <1>2, <1>4 DEF SettledAreVerified, RowsTyped
  <2>2. \A q \in Requests \ {r} : req[q].at = "settle" => req[q].p # p
    BY <1>1 DEF SettledAreVerified
  <2>. QED  BY <1>1, <2>1, <2>2 DEF SettledAreVerified
<1>9. LedgerInv'
  BY <1>1, <1>5, <1>6, <1>7, <1>8
<1>10. CASE AlreadySettled(p)
  <2>1. UNCHANGED <<settled, profile>>
    BY <1>10 DEF SettleCommit
  <2>2. LedgerStep
    <3>1. \A q \in Orders : /\ orders'[q].reserved = orders[q].reserved
                            /\ orders'[q].utilized = orders[q].utilized
      BY <1>2, <1>3
    <3>2. LedgerRows' = LedgerRows
      BY <2>1, <3>1 DEF LedgerRows
    <3>. QED  BY <2>1, <3>2 DEF LedgerStep
  <2>3. ~ Locked
    <3>1. p \in verified
      BY <1>2, <1>10 DEF SettledAreVerified, AlreadySettled
    <3>. QED  BY <1>1, <3>1 DEF Locked, SettledAreVerified
  <2>. QED  BY <1>9, <2>2, <2>3 DEF KeepsLedger
<1>11. CASE ~ AlreadySettled(p)
  <2>1. profile' = Refresh(profile, orders')
    BY <1>11 DEF SettleCommit
  <2>. QED  BY <1>9, <2>1, Refreshes
<1>. QED  BY <1>10, <1>11

-----------------------------------------------------------------------------
LEMMA AccountStep ==
  ASSUME LedgerInv, (\E limit \in Limits : Approve(limit)) \/ Reassess
  PROVE  KeepsLedger
<1>1. UNCHANGED <<orders, settled, verified, req>>
  BY DEF Approve, Reassess
<1>2. LedgerInv'
  BY <1>1, Frame DEF LedgerInv
<1>3. CASE \E limit \in Limits : Approve(limit)
  BY <1>1, <1>2, <1>3, Refreshes DEF Approve
<1>4. CASE Reassess
  BY <1>1, <1>2, <1>4, NoLedgerMove DEF Reassess
<1>. QED  BY <1>3, <1>4

LEMMA LedgerNext == LedgerInv /\ [Next]_vars => KeepsLedger
<1> SUFFICES ASSUME LedgerInv, [Next]_vars PROVE KeepsLedger
  OBVIOUS
<1>1. CASE UNCHANGED vars
  <2>1. UNCHANGED <<profile, orders, settled, verified, req>>
    BY <1>1 DEF vars
  <2>2. LedgerInv'
    BY <2>1, Frame DEF LedgerInv
  <2>. QED  BY <2>1, <2>2, NoLedgerMove
<1>. QED  BY <1>1, BeginStep, AbortStep, ReserveStep, UtilizeStep, SettleStep,
            AccountStep DEF Next

\* The pages, and the transactions that start one.
LEMMA PageStep ==
  ASSUME LedgerInv, NEW a \in Pagers,
         \/ \E limit \in Limits : AdjustLimit(a, limit)
         \/ SuspendRead(a) \/ Suspend(a) \/ ReactivateRead(a) \/ Reactivate(a)
         \/ PageProfile(a) \/ PageLedger(a) \/ PageSchedules(a) \/ PageWrite(a)
  PROVE  LedgerInv' /\ LedgerStep
<1>1. UNCHANGED <<orders, settled, verified, req>>
  BY DEF AdjustLimit, SuspendRead, Suspend, ReactivateRead, Reactivate, PageProfile,
         PageLedger, PageSchedules, PageWrite, vars
<1>2. LedgerInv'
  BY <1>1, Frame DEF LedgerInv
<1>3. CASE \E limit \in Limits : AdjustLimit(a, limit)
  BY <1>1, <1>2, <1>3, Refreshes DEF AdjustLimit, KeepsLedger
<1>4. CASE ~ \E limit \in Limits : AdjustLimit(a, limit)
  <2>1. profile'.approved = profile.approved
    BY <1>4 DEF SuspendRead, Suspend, ReactivateRead, Reactivate, PageProfile, PageLedger,
                PageSchedules, PageWrite, vars, WithStatus, Refreshed
  <2>. QED  BY <1>1, <1>2, <2>1, QuietStep
<1>. QED  BY <1>3, <1>4

LEMMA PagesStep == LedgerInv /\ [PagesNext]_pageVars => LedgerInv' /\ LedgerStep
<1> SUFFICES ASSUME LedgerInv, [PagesNext]_pageVars PROVE LedgerInv' /\ LedgerStep
  OBVIOUS
<1>1. CASE [Next]_vars
  BY <1>1, LedgerNext DEF KeepsLedger
<1>2. ASSUME NEW a \in Pagers,
             \/ \E limit \in Limits : AdjustLimit(a, limit)
             \/ SuspendRead(a) \/ Suspend(a) \/ ReactivateRead(a) \/ Reactivate(a)
             \/ PageProfile(a) \/ PageLedger(a) \/ PageSchedules(a) \/ PageWrite(a)
      PROVE  LedgerInv' /\ LedgerStep
  BY <1>2, PageStep
<1>. QED  BY <1>1, <1>2 DEF PagesNext, pageVars

-----------------------------------------------------------------------------
(* A reservation and the limit *)

LEMMA SumIsNat ==
  ASSUME NEW w, NEW S, IsFiniteSet(S), \A x \in S : w[x] \in Nat
  PROVE  Sum(w, S) \in Nat
  BY SumMonotonic DEF Sum

\* The order that is opened adds its value to what is reserved.
LEMMA OpenedIsReserved ==
  ASSUME LedgerInv, IsFiniteSet(Orders), NEW r \in Requests, ReserveCommit(r),
         orders' # orders
  PROVE  /\ Reserved \in Nat /\ Owed \in Nat
         /\ Reserved' = Reserved + req[r].n
         /\ Owed' = Owed
<1> DEFINE o == req[r].o
           open == {q \in Orders : orders[q].open = 1 /\ orders[q].dispatches = 0}
           used == {q \in Orders : orders[q].dispatches > 0}
           value == [q \in Orders |-> orders[q].value]
           value2 == [q \in Orders |-> orders'[q].value]
           owes == [q \in Orders |-> orders[q].remaining]
           owes2 == [q \in Orders |-> orders'[q].remaining]
<1>1. /\ o \in Orders /\ orders[o].open = 0 /\ orders[o].dispatches = 0
      /\ req[r].n \in Nat
      /\ \A q \in Orders \ {o} : orders'[q] = orders[q]
      /\ orders'[o] = [open |-> 1, value |-> req[r].n, remaining |-> req[r].n,
                       reserved |-> 1, utilized |-> 0, dispatches |-> 0]
  BY Reserving
<1>2. orders \in [Orders -> Order]
  BY DEF LedgerInv, RowsTyped
<1>3. /\ {q \in Orders : orders'[q].open = 1 /\ orders'[q].dispatches = 0} = open \cup {o}
      /\ {q \in Orders : orders'[q].dispatches > 0} = used
      /\ o \notin open /\ o \notin used
  BY <1>1, <1>2
<1>4. IsFiniteSet(open) /\ IsFiniteSet(used)
  BY FS_Subset
<1>5. /\ \A q \in open : value2[q] = value[q] /\ value[q] \in Nat
      /\ \A q \in used : owes2[q] = owes[q] /\ owes[q] \in Nat
      /\ value2[o] = req[r].n
  BY <1>1, <1>2
<1>6. Reserved = Sum(value, open) /\ Owed = Sum(owes, used)
  BY DEF Reserved, Owed
<1>7. Reserved' = Sum(value2, open \cup {o}) /\ Owed' = Sum(owes2, used)
  BY <1>3 DEF Reserved, Owed
<1> HIDE DEF o, open, used, value, value2, owes, owes2
<1>8. Reserved \in Nat /\ Owed \in Nat
  BY <1>4, <1>5, <1>6, SumIsNat
<1>9. SumFunctionOnSet(value2, open \cup {o}) = value2[o] + SumFunctionOnSet(value2, open)
  BY <1>1, <1>3, <1>4, <1>5, SumAdd
<1>10. SumFunctionOnSet(value2, open) = SumFunctionOnSet(value, open)
  BY <1>4, <1>5, SumCongruent
<1>11. SumFunctionOnSet(owes2, used) = SumFunctionOnSet(owes, used)
  BY <1>4, <1>5, SumCongruent
<1>12. /\ Sum(value, open) = SumFunctionOnSet(value, open)
       /\ Sum(owes2, used) = Sum(owes, used)
       /\ Sum(value2, open \cup {o}) = SumFunctionOnSet(value2, open \cup {o})
  BY <1>11, SumOfNone DEF Sum
<1>. QED  BY <1>1, <1>5, <1>6, <1>7, <1>8, <1>9, <1>10, <1>12

LEMMA ReservationFits ==
  ASSUME LedgerInv, StoredBalanceIsExact, IsFiniteSet(Orders), profile.approved \in Nat,
         NEW r \in Requests, ReserveCommit(r)
  PROVE  FitsInTheLimit
<1>1. SUFFICES ASSUME orders' # orders PROVE Reserved' + Owed' <= profile'.approved
  BY DEF FitsInTheLimit
<1>2. /\ Reserved \in Nat /\ Owed \in Nat
      /\ Reserved' = Reserved + req[r].n /\ Owed' = Owed
  BY <1>1, OpenedIsReserved
<1>3. Fits(req[r].n) /\ profile'.approved = profile.approved /\ req[r].n \in Nat \ {0}
  BY <1>1, Reserving DEF ReserveCommit, Refresh, Refreshed
<1>4. req[r].n <= NotNegative(profile.approved - Reserved - Owed)
  BY <1>3 DEF Fits, StoredBalanceIsExact
<1>. QED  BY <1>2, <1>3, <1>4 DEF NotNegative

\* No other step opens an order.
LEMMA FitsNext ==
  ASSUME LedgerInv, StoredBalanceIsExact, IsFiniteSet(Orders), profile.approved \in Nat,
         [Next]_vars
  PROVE  FitsInTheLimit
<1>1. CASE \E r \in Requests : ReserveCommit(r)
  BY <1>1, ReservationFits
<1>2. ASSUME NEW r \in Requests, UtilizeCommit(r) \/ SettleCommit(r) PROVE FitsInTheLimit
  <2>1. /\ req[r].o \in Orders /\ orders[req[r].o].open = 1
        /\ orders \in [Orders -> Order]
    BY <1>2 DEF LedgerInv, ReadsStand, RowsTyped, UtilizeCommit, SettleCommit
  <2>2. \A q \in Orders \ {req[r].o} : orders'[q] = orders[q]
    BY <1>2, <2>1 DEF UtilizeCommit, SettleCommit
  <2>. QED  BY <2>1, <2>2 DEF FitsInTheLimit
<1>3. CASE orders' = orders
  BY <1>3 DEF FitsInTheLimit
<1>4. \/ \E r \in Requests : ReserveCommit(r) \/ UtilizeCommit(r) \/ SettleCommit(r)
      \/ orders' = orders
  BY DEF Next, vars, ReserveRead, UtilizeRead, SettleRead, Abort, Approve, Reassess
<1>. QED  BY <1>1, <1>2, <1>3, <1>4

\* The limit is a number.
LimitIsNat == profile.approved \in Nat

LEMMA LimitNext == LimitIsNat /\ [Next]_vars => LimitIsNat'
<1>1. CASE \E limit \in Limits : Approve(limit)
  BY <1>1, AmountsAssumption DEF LimitIsNat, Approve, Refresh, Refreshed, WithStatus
<1>2. CASE profile' = profile
  BY <1>2 DEF LimitIsNat
<1>3. CASE profile'.approved = profile.approved
  BY <1>3 DEF LimitIsNat
<1>4. ASSUME NEW r \in Requests, ReserveCommit(r)
      PROVE  profile' = profile \/ profile'.approved = profile.approved
  BY <1>4 DEF ReserveCommit, Refresh, Refreshed
<1>5. ASSUME NEW r \in Requests, UtilizeCommit(r)
      PROVE  profile' = profile \/ profile'.approved = profile.approved
  BY <1>5 DEF UtilizeCommit, Refresh, Refreshed
<1>6. ASSUME NEW r \in Requests, SettleCommit(r)
      PROVE  profile' = profile \/ profile'.approved = profile.approved
  BY <1>6 DEF SettleCommit, Refresh, Refreshed
<1>7. Reassess => profile'.approved = profile.approved
  BY DEF Reassess, WithStatus
<1>8. [Next]_vars =>
        \/ \E r \in Requests : ReserveCommit(r) \/ UtilizeCommit(r) \/ SettleCommit(r)
        \/ \E limit \in Limits : Approve(limit)
        \/ Reassess
        \/ profile' = profile
  BY DEF Next, vars, ReserveRead, UtilizeRead, SettleRead, Abort
<1>. QED  BY <1>1, <1>2, <1>3, <1>4, <1>5, <1>6, <1>7, <1>8

-----------------------------------------------------------------------------
(* The credit line *)

\* What is left to pay of an order is read under the value, less the payment.
LEMMA DebtsNext == LedgerInv /\ DebtsBounded /\ [Next]_vars => DebtsBounded'
<1> SUFFICES ASSUME LedgerInv, DebtsBounded, [Next]_vars PROVE DebtsBounded'
  OBVIOUS
<1> USE DEF LedgerInv
<1>0. orders \in [Orders -> Order] /\ DOMAIN req = Requests
  BY DEF RowsTyped
<1>1. ASSUME UNCHANGED orders, DOMAIN req' = Requests,
             \A q \in Requests : req'[q] = req[q] \/ req'[q].at # "settle"
      PROVE  DebtsBounded'
  BY <1>1 DEF DebtsBounded
<1>2. ASSUME NEW r \in Requests,
             \/ \E o \in Orders, v \in Values : ReserveRead(r, o, v)
             \/ \E o \in Orders : UtilizeRead(r, o)
             \/ Abort(r)
      PROVE  DebtsBounded'
  <2>1. /\ UNCHANGED orders /\ DOMAIN req' = Requests /\ req'[r].at # "settle"
        /\ \A q \in Requests \ {r} : req'[q] = req[q]
    BY <1>0, <1>2 DEF ReserveRead, UtilizeRead, Abort, Done, Idle
  <2>. QED  BY <1>1, <2>1
<1>3. ASSUME NEW r \in Requests, NEW p \in Payments, SettleRead(r, p)
      PROVE  DebtsBounded'
  <2> DEFINE o == PayOf[p]
  <2>1. /\ UNCHANGED orders /\ DOMAIN req' = Requests /\ o \in Orders
        /\ \A q \in Requests \ {r} : req'[q] = req[q]
        /\ req'[r].o = o /\ req'[r].n = orders[o].remaining - PayAmount[p]
        /\ PayAmount[p] \in Nat
    BY <1>0, <1>3, AmountsAssumption DEF SettleRead
  <2>2. /\ orders[o].remaining \in Nat /\ orders[o].value \in Nat
        /\ orders[o].remaining <= orders[o].value
    BY <1>0, <2>1 DEF DebtsBounded
  <2> HIDE DEF o
  <2>3. req'[r].n <= orders[o].value
    BY <2>1, <2>2
  <2>. QED  BY <2>1, <2>3 DEF DebtsBounded
<1>4. ASSUME NEW r \in Requests, ReserveCommit(r)
      PROVE  DebtsBounded'
  <2> DEFINE o == req[r].o
  <2>1. /\ DOMAIN req' = Requests /\ req'[r].at = "idle"
        /\ \A q \in Requests \ {r} : req'[q] = req[q] /\ req[q].o # o
        /\ orders' = orders \/
             (/\ \A q \in Orders \ {o} : orders'[q] = orders[q]
              /\ orders'[o].remaining = req[r].n /\ orders'[o].value = req[r].n
              /\ req[r].n \in Nat)
    <3>. HIDE DEF LedgerInv
    <3>1. /\ DOMAIN req' = Requests /\ req'[r].at = "idle"
          /\ \A q \in Requests \ {r} : req'[q] = req[q] /\ req[q].o # o
          /\ req[r].n \in Nat
      BY <1>4, Reserving
    <3>2. orders' = orders \/
            (/\ \A q \in Orders \ {o} : orders'[q] = orders[q]
             /\ orders'[o] = [open |-> 1, value |-> req[r].n, remaining |-> req[r].n,
                              reserved |-> 1, utilized |-> 0, dispatches |-> 0])
      BY <1>4, Reserving
    <3>. QED  BY <3>1, <3>2
  <2> HIDE DEF o
  <2>2. \A q \in Requests : req'[q].at = "settle" => req'[q].o \in Orders \ {o} /\ req'[q] = req[q]
    BY <2>1 DEF ReadsStand
  <2>. QED  BY <2>1, <2>2 DEF DebtsBounded
<1>5. ASSUME NEW r \in Requests, UtilizeCommit(r) \/ SettleCommit(r)
      PROVE  DebtsBounded'
  <2> DEFINE o == req[r].o
  <2>1. /\ DOMAIN req' = Requests /\ req'[r].at = "idle"
        /\ \A q \in Requests \ {r} : req'[q] = req[q]
        /\ o \in Orders
    BY <1>5, DoneStep, IdleFacts DEF UtilizeCommit, SettleCommit, ReadsStand
  <2>2. /\ \A q \in Orders \ {o} : orders'[q] = orders[q]
        /\ orders'[o].value = orders[o].value
        /\ orders'[o].remaining = orders[o].remaining \/
             (req[r].at = "settle" /\ orders'[o].remaining = req[r].n)
    BY <1>0, <1>5, <2>1 DEF UtilizeCommit, SettleCommit
  <2> HIDE DEF o
  <2>3. \A q \in Orders : orders'[q].value = orders[q].value
    BY <2>1, <2>2
  <2>4. orders'[o].remaining <= orders[o].value
    BY <2>1, <2>2 DEF DebtsBounded, o
  <2>5. \A q \in Orders : orders'[q].remaining <= orders'[q].value
    BY <2>2, <2>3, <2>4 DEF DebtsBounded
  <2>6. \A q \in Requests : req'[q].at = "settle" => req'[q].o \in Orders /\ req'[q] = req[q]
    BY <2>1 DEF ReadsStand
  <2>. QED  BY <2>3, <2>5, <2>6 DEF DebtsBounded
<1>6. ASSUME UNCHANGED <<orders, req>> PROVE DebtsBounded'
  BY <1>0, <1>1, <1>6
<1>. QED  BY <1>2, <1>3, <1>4, <1>5, <1>6 DEF Next, vars, Approve, Reassess

\* The debts of the abstract line, in both states of a step.
LEMMA DebtsSeen ==
  /\ \A o \in Orders :
       Debts[o] = Line!Debt(Stage(o), orders[o].value, orders[o].remaining)
  /\ \A o \in Orders :
       Debts'[o] = Line!Debt(Stage(o)', orders'[o].value, orders'[o].remaining)
  /\ Debts = [o \in Orders |-> Debts[o]]
  /\ Debts' = [o \in Orders |-> Debts'[o]]
  BY DEF Debts, Line!Debt

\* The sums of the line are those of the ledger.
LEMMA LineTotals ==
  ASSUME NEW w, NEW S
  PROVE  Line!Total(w, S) = Sum(w, S)
<1>1. Line!SumFunctionOnSet(w, S) = Summing(w, S)[S]
  BY DEF Line!SumFunctionOnSet, Line!FoldFunctionOnSet, Line!MapThenFoldSet, Summing, Step, Pick
<1>. QED  BY <1>1, SumIsSumming DEF Line!Total, Sum

\* The line reserves and owes what the ledger does.
LEMMA LineSums ==
  ASSUME RowsTyped'
  PROVE  (Line!Reserved)' = Reserved' /\ (Line!Owed)' = Owed'
<1>1. orders' \in [Orders -> Order]
  BY DEF RowsTyped
<1>2. \A o \in Orders : /\ Debts'[o].value = orders'[o].value
                        /\ Debts'[o].left = orders'[o].remaining
                        /\ Debts'[o].stage = Stage(o)'
  BY DebtsSeen DEF Line!Debt
<1>3. \A o \in Orders :
        /\ Stage(o)' = "placed" <=> orders'[o].open = 1 /\ orders'[o].dispatches = 0
        /\ Stage(o)' = "drawn" <=> orders'[o].dispatches > 0
  BY <1>1 DEF Stage
<1>4. /\ [o \in Orders |-> Debts'[o].value] = [o \in Orders |-> orders'[o].value]
      /\ [o \in Orders |-> Debts'[o].left] = [o \in Orders |-> orders'[o].remaining]
      /\ {o \in Orders : Debts'[o].stage = "placed"}
           = {o \in Orders : orders'[o].open = 1 /\ orders'[o].dispatches = 0}
      /\ {o \in Orders : Debts'[o].stage = "drawn"} = {o \in Orders : orders'[o].dispatches > 0}
  BY <1>2, <1>3
<1>. QED  BY <1>4, LineTotals DEF Line!Reserved, Line!Owed, Reserved, Owed

\* A step that changes one order at most.
LEMMA OneDebt ==
  ASSUME NEW o \in Orders, \A q \in Orders \ {o} : orders'[q] = orders[q]
  PROVE  Debts' = [Debts EXCEPT ![o] = Debts'[o]]
<1>1. \A q \in Orders \ {o} : Debts'[q] = Debts[q]
  BY DebtsSeen DEF Stage
<1>. QED  BY <1>1, DebtsSeen

LEMMA SameDebts ==
  ASSUME UNCHANGED orders
  PROVE  UNCHANGED Debts
  BY DEF Debts, Stage

\* A reservation that is recorded places its order.
LEMMA LinePlace ==
  ASSUME LedgerInv, StoredBalanceIsExact, IsFiniteSet(Orders), LimitIsNat, RowsTyped',
         NEW r \in Requests, ReserveCommit(r)
  PROVE  [Line!Next]_(Line!line)
<1>1. CASE UNCHANGED <<orders, profile>>
  BY <1>1, SameDebts DEF Line!line
<1>2. CASE orders' # orders
  <2>0. PICK o \in Orders, n \in Nat \ {0} : o = req[r].o /\ n = req[r].n
    BY Reserving
  <2>1. orders[o].open = 0 /\ orders[o].dispatches = 0
    BY <2>0, Reserving
  <2>2. /\ \A q \in Orders \ {o} : orders'[q] = orders[q]
        /\ orders'[o] = [open |-> 1, value |-> n, remaining |-> n,
                         reserved |-> 1, utilized |-> 0, dispatches |-> 0]
    BY <1>2, <2>0, Reserving
  <2>3. profile'.approved = profile.approved
    BY <1>2 DEF ReserveCommit, Refresh, Refreshed
  <2>4. Reserved' + Owed' <= profile.approved
    <3>1. FitsInTheLimit
      BY ReservationFits DEF LimitIsNat
    <3>. QED  BY <2>1, <2>2, <2>3, <3>1 DEF FitsInTheLimit
  <2>5. Stage(o) = "none" /\ Stage(o)' = "placed"
    BY <2>1, <2>2 DEF Stage
  <2>6. Debts'[o] = Line!Debt("placed", n, n) /\ Debts[o].stage = "none"
    BY <2>1, <2>2, <2>5, DebtsSeen DEF Line!Debt
  <2>7. Debts' = [Debts EXCEPT ![o] = Line!Debt("placed", n, n)] /\ Debts'[o].value = n
    BY <2>1, <2>2, <2>6, OneDebt DEF Line!Debt
  <2>8. Line!Place(o)
    BY <2>1, <2>3, <2>4, <2>6, <2>7, LineSums DEF Line!Place
  <2>. QED  BY <2>1, <2>8 DEF Line!Next
<1>3. CASE orders' = orders
  <2>1. PICK o \in Orders : o = req[r].o /\ orders[o].open = 0
    BY Reserving
  <2>2. orders[o] # [open |-> 1, value |-> req[r].n, remaining |-> req[r].n,
                     reserved |-> 1, utilized |-> 0, dispatches |-> 0]
    BY <2>1
  <2>3. UNCHANGED profile
    BY <1>3, <2>1, <2>2 DEF ReserveCommit, LedgerInv, RowsTyped
  <2>. QED  BY <1>1, <1>3, <2>3
<1>. QED  BY <1>2, <1>3

\* The first dispatch draws its order; a later one, or one at the same time,
\* changes nothing of the line.
LEMMA LineDraw ==
  ASSUME LedgerInv, NEW r \in Requests, UtilizeCommit(r)
  PROVE  [Line!Next]_(Line!line)
<1>0. PICK o \in Orders : o = req[r].o /\ orders[o].open = 1
  BY DEF LedgerInv, ReadsStand, UtilizeCommit
<1>1. orders[o] \in Order /\ orders \in [Orders -> Order]
  BY DEF LedgerInv, RowsTyped
<1>2. /\ \A q \in Orders \ {o} : orders'[q] = orders[q]
      /\ orders'[o].value = orders[o].value /\ orders'[o].remaining = orders[o].remaining
      /\ orders'[o].dispatches = orders[o].dispatches + 1
  BY <1>0, <1>1 DEF UtilizeCommit
<1>3. profile'.approved = profile.approved
  BY DEF UtilizeCommit, Refresh, Refreshed
<1>4. /\ Stage(o) = IF orders[o].dispatches = 0 THEN "placed" ELSE "drawn"
      /\ Stage(o)' = "drawn"
  BY <1>0, <1>1, <1>2 DEF Stage
<1>5. /\ Debts[o] = Line!Debt(Stage(o), orders[o].value, orders[o].remaining)
      /\ Debts'[o] = Line!Debt("drawn", orders[o].value, orders[o].remaining)
      /\ Debts' = [Debts EXCEPT ![o] = Debts'[o]]
  BY <1>1, <1>2, <1>4, DebtsSeen, OneDebt
<1>6. CASE orders[o].dispatches = 0
  <2>1. Debts[o].stage = "placed" /\ Debts'[o] = [Debts[o] EXCEPT !.stage = "drawn"]
    BY <1>4, <1>5, <1>6 DEF Line!Debt
  <2>2. Line!Draw(o)
    BY <1>3, <1>5, <2>1 DEF Line!Draw
  <2>. QED  BY <1>1, <2>2 DEF Line!Next
<1>7. CASE orders[o].dispatches # 0
  <2>1. Debts'[o] = Debts[o]
    BY <1>4, <1>5, <1>7
  <2>2. Debts' = Debts
    BY <1>1, <1>5, <2>1, DebtsSeen
  <2>. QED  BY <1>3, <2>2 DEF Line!line
<1>. QED  BY <1>6, <1>7

\* A verification pays some of its order.
LEMMA LinePay ==
  ASSUME LedgerInv, DebtsBounded, NEW r \in Requests, SettleCommit(r)
  PROVE  Line!Next
<1>0. PICK o \in Orders, n \in Nat : o = req[r].o /\ n = req[r].n /\ orders[o].open = 1
  BY DEF LedgerInv, ReadsStand, SettleCommit
<1>1. n <= orders[o].value /\ orders[o] \in Order /\ orders \in [Orders -> Order]
  BY <1>0 DEF LedgerInv, RowsTyped, SettleCommit, DebtsBounded
<1>2. /\ \A q \in Orders \ {o} : orders'[q] = orders[q]
      /\ orders'[o].value = orders[o].value /\ orders'[o].remaining = n
      /\ orders'[o].dispatches = orders[o].dispatches /\ orders'[o].open = orders[o].open
  BY <1>0, <1>1 DEF SettleCommit
<1>3. profile'.approved = profile.approved
  BY DEF SettleCommit, Refresh, Refreshed
<1>4. Stage(o) # "none" /\ Stage(o)' = Stage(o)
  BY <1>0, <1>1, <1>2 DEF Stage
<1>5. /\ Debts[o] = Line!Debt(Stage(o), orders[o].value, orders[o].remaining)
      /\ Debts'[o] = Line!Debt(Stage(o), orders[o].value, n)
      /\ Debts' = [Debts EXCEPT ![o] = Debts'[o]]
  BY <1>1, <1>2, <1>4, DebtsSeen, OneDebt
<1>6. /\ Debts[o].stage # "none" /\ Debts[o].value = orders[o].value
      /\ Debts'[o] = [Debts[o] EXCEPT !.left = n]
  BY <1>4, <1>5 DEF Line!Debt
<1>7. Line!Pay(o, n)
  BY <1>3, <1>5, <1>6 DEF Line!Pay
<1>8. n \in 0 .. Debts[o].value
  BY <1>1, <1>6
<1>. QED  BY <1>1, <1>7, <1>8 DEF Line!Next

\* Every step of the ledger is one of the line, or changes none of it.
LEMMA LineStep ==
  ASSUME LedgerInv, DebtsBounded, StoredBalanceIsExact, IsFiniteSet(Orders), LimitIsNat,
         RowsTyped', [Next]_vars
  PROVE  [Line!Next]_(Line!line)
<1>1. CASE UNCHANGED <<orders, profile>>
  BY <1>1, SameDebts DEF Line!line
<1>2. ASSUME NEW limit \in Limits, Approve(limit) PROVE [Line!Next]_(Line!line)
  <2>1. UNCHANGED orders /\ profile'.approved = limit /\ limit \in Nat
    BY <1>2, AmountsAssumption DEF Approve, Refresh, Refreshed, WithStatus
  <2>. QED  BY <2>1, SameDebts DEF Line!Next, Line!SetLimit
<1>3. CASE Reassess
  <2>1. UNCHANGED orders /\ profile'.approved = profile.approved
    BY <1>3 DEF Reassess, WithStatus
  <2>. QED  BY <2>1, SameDebts DEF Line!line
<1>4. ASSUME NEW r \in Requests, ReserveCommit(r) \/ UtilizeCommit(r) \/ SettleCommit(r)
      PROVE  [Line!Next]_(Line!line)
  BY <1>4, LinePlace, LineDraw, LinePay
<1>5. \/ \E r \in Requests : ReserveCommit(r) \/ UtilizeCommit(r) \/ SettleCommit(r)
      \/ \E limit \in Limits : Approve(limit)
      \/ Reassess
      \/ UNCHANGED <<orders, profile>>
  BY DEF Next, vars, ReserveRead, UtilizeRead, SettleRead, Abort
<1>. QED  BY <1>1, <1>2, <1>3, <1>4, <1>5

LEMMA LineInit == Init => Line!Init /\ DebtsBounded
<1> SUFFICES ASSUME Init PROVE Line!Init /\ DebtsBounded
  OBVIOUS
<1>1. profile.approved = 0 /\ orders = [o \in Orders |-> NoRow] /\ req = [r \in Requests |-> Idle]
  BY DEF Init
<1>2. \A o \in Orders : /\ Stage(o) = "none"
                        /\ orders[o].value = 0 /\ orders[o].remaining = 0
  BY <1>1 DEF Stage, NoRow
<1>3. Debts = [o \in Orders |-> Line!Debt("none", 0, 0)]
  BY <1>2 DEF Debts, Line!Debt
<1>4. DebtsBounded
  BY <1>1, <1>2 DEF DebtsBounded, Idle
<1>. QED  BY <1>1, <1>3, <1>4 DEF Line!Init

-----------------------------------------------------------------------------
(* Types *)

\* A refresh stores natural numbers, whatever it read.
LEMMA BalancesTyped ==
  ASSUME IsFiniteSet(Orders), NEW ords \in [Orders -> Order], NEW row \in Profile
  PROVE  /\ Pending(ords) \in Nat
         /\ \A S \in SUBSET Orders : Outstanding(ords, S) \in Nat
         /\ Used(ords) \in SUBSET Orders
         /\ Refresh(row, ords) \in Profile
<1>1. Used(ords) \in SUBSET Orders /\ Waiting(ords) \in SUBSET Orders
  BY DEF Used, Waiting
<1>2. \A S \in SUBSET Orders : IsFiniteSet(S)
  BY FS_Subset
<1>3. /\ \A o \in Orders : [q \in Orders |-> ords[q].value][o] \in Nat
      /\ \A o \in Orders : [q \in Orders |-> ords[q].remaining][o] \in Nat
  OBVIOUS
<1>4. Pending(ords) \in Nat
  BY <1>1, <1>2, <1>3, SumIsNat DEF Pending
<1>5. \A S \in SUBSET Orders : Outstanding(ords, S) \in Nat
  BY <1>2, <1>3, SumIsNat DEF Outstanding
<1>6. ASSUME NEW pending \in Nat, NEW owed \in Nat
      PROVE  Refreshed(row, row.approved, pending, owed) \in Profile
  BY DEF Refreshed, NotNegative, Profile
<1>. QED  BY <1>1, <1>4, <1>5, <1>6 DEF Refresh

LEMMA StatusTyped ==
  ASSUME profile \in Profile, NEW s \in CreditStatus, NEW a \in {"ACTIVE", "SUSPENDED"},
         NEW l \in Nat
  PROVE  WithStatus(s, a, l) \in Profile
  BY DEF Profile, WithStatus

LEMMA RequestTyped ==
  ASSUME LedgerInv, req \in [Requests -> Request], [Next]_vars
  PROVE  req' \in [Requests -> Request]
<1>1. Idle \in Request
  BY DEF Idle, Request
<1>2. ASSUME NEW r \in Requests, NEW o \in Orders, NEW v \in Values, ReserveRead(r, o, v)
      PROVE  req' \in [Requests -> Request]
  <2>1. [at |-> "reserve", o |-> o, p |-> NoPayment, n |-> v] \in Request
    BY AmountsAssumption DEF Request
  <2>. QED  BY <1>2, <2>1 DEF ReserveRead
<1>3. ASSUME NEW r \in Requests, NEW o \in Orders, UtilizeRead(r, o)
      PROVE  req' \in [Requests -> Request]
  <2>1. [at |-> "utilize", o |-> o, p |-> NoPayment,
         n |-> IF orders[o].utilized > 0 THEN 1 ELSE 0] \in Request
    BY DEF Request
  <2>. QED  BY <1>3, <2>1 DEF UtilizeRead
<1>4. ASSUME NEW r \in Requests, NEW p \in Payments, SettleRead(r, p)
      PROVE  req' \in [Requests -> Request]
  <2>1. PICK o \in Orders : o = PayOf[p]
    BY AmountsAssumption
  <2>2. PayAmount[p] \in Nat /\ orders[o].remaining \in Nat /\ PayAmount[p] <= orders[o].remaining
    BY <1>4, <2>1, AmountsAssumption DEF SettleRead, LedgerInv, RowsTyped
  <2>3. [at |-> "settle", o |-> o, p |-> p, n |-> orders[o].remaining - PayAmount[p]] \in Request
    BY <2>1, <2>2 DEF Request
  <2>. QED  BY <1>4, <2>1, <2>3 DEF SettleRead
<1>5. ASSUME NEW r \in Requests, Done(r) PROVE req' \in [Requests -> Request]
  BY <1>1, <1>5 DEF Done
<1>6. CASE UNCHANGED req
  BY SMTT(30), <1>6
<1>. QED  BY <1>2, <1>3, <1>4, <1>5, <1>6
          DEF Next, vars, ReserveCommit, UtilizeCommit, SettleCommit, Abort, Approve, Reassess

LEMMA ProfileTyped ==
  ASSUME IsFiniteSet(Orders), profile \in Profile, orders' \in [Orders -> Order], [Next]_vars
  PROVE  profile' \in Profile
<1>1. Refresh(profile, orders') \in Profile
  BY BalancesTyped
<1>2. ASSUME NEW limit \in Limits, Approve(limit) PROVE profile' \in Profile
  <2>1. WithStatus("APPROVED", "ACTIVE", limit) \in Profile
    BY AmountsAssumption, StatusTyped DEF CreditStatus
  <2>2. Refresh(WithStatus("APPROVED", "ACTIVE", limit), orders') \in Profile
    BY <2>1, BalancesTyped
  <2>. QED  BY <1>2, <2>2 DEF Approve
<1>3. CASE Reassess
  <2>1. profile.account \in {"ACTIVE", "SUSPENDED"} /\ profile.approved \in Nat
    BY DEF Profile
  <2>2. WithStatus("IN_PROCESS", profile.account, profile.approved) \in Profile
    BY <2>1, StatusTyped DEF CreditStatus
  <2>. QED  BY <1>3, <2>2 DEF Reassess
<1>4. CASE profile' = profile
  BY <1>4
<1>5. CASE profile' = Refresh(profile, orders')
  BY <1>1, <1>5
<1>. QED  BY <1>2, <1>3, <1>4, <1>5
          DEF Next, vars, ReserveRead, ReserveCommit, UtilizeRead, UtilizeCommit, SettleRead,
              SettleCommit, Abort

LEMMA TypeNext == ASSUME IsFiniteSet(Orders), LedgerInv, TypeOK, [Next]_vars PROVE TypeOK'
<1>1. LedgerInv'
  BY LedgerNext DEF KeepsLedger
<1>. QED  BY <1>1, RequestTyped, ProfileTyped DEF TypeOK, LedgerInv, RowsTyped

\* The pages keep what they read: natural numbers and a set of orders.
LEMMA PageTyped ==
  ASSUME IsFiniteSet(Orders), LedgerInv, PagesTypeOK, NEW a \in Pagers,
         \/ \E limit \in Limits : AdjustLimit(a, limit)
         \/ SuspendRead(a) \/ Suspend(a) \/ ReactivateRead(a) \/ Reactivate(a)
         \/ PageProfile(a) \/ PageLedger(a) \/ PageSchedules(a) \/ PageWrite(a)
  PROVE  PagesTypeOK'
<1>1. /\ profile \in Profile /\ page \in [Pagers -> Page] /\ page[a] \in Page
      /\ orders \in [Orders -> Order]
  BY DEF PagesTypeOK, TypeOK, RowsTyped
<1>2. /\ profile.status \in CreditStatus /\ profile.account \in {"ACTIVE", "SUSPENDED"}
      /\ profile.approved \in Nat
      /\ page[a].pending \in Nat /\ page[a].used \in SUBSET Orders
      /\ page[a].outstanding \in Nat /\ page[a].approved \in Nat
  BY <1>1 DEF Profile, Page
<1>3. UNCHANGED <<orders, settled, verified, req>>
  BY DEF AdjustLimit, SuspendRead, Suspend, ReactivateRead, Reactivate, PageProfile,
         PageLedger, PageSchedules, PageWrite, vars
<1>4. profile' \in Profile
  <2>1. ASSUME NEW limit \in Limits, AdjustLimit(a, limit) PROVE profile' \in Profile
    <3>1. WithStatus(profile.status, profile.account, limit) \in Profile
      BY <1>1, <1>2, AmountsAssumption, StatusTyped
    <3>2. Refresh(WithStatus(profile.status, profile.account, limit), orders) \in Profile
      BY <1>1, <3>1, BalancesTyped
    <3>. QED  BY <2>1, <3>2 DEF AdjustLimit
  <2>2. CASE Suspend(a) \/ Reactivate(a)
    <3>1. /\ WithStatus("SUSPENDED", "SUSPENDED", profile.approved) \in Profile
          /\ WithStatus("APPROVED", "ACTIVE", profile.approved) \in Profile
      BY <1>1, <1>2, StatusTyped DEF CreditStatus
    <3>. QED  BY <2>2, <3>1 DEF Suspend, Reactivate
  <2>3. CASE PageWrite(a)
    <3>1. Refreshed(profile, page[a].approved, page[a].pending, page[a].outstanding) \in Profile
      BY <1>1, <1>2 DEF Refreshed, NotNegative, Profile
    <3>. QED  BY <2>3, <3>1 DEF PageWrite
  <2>4. CASE \/ SuspendRead(a) \/ ReactivateRead(a)
             \/ PageProfile(a) \/ PageLedger(a) \/ PageSchedules(a)
    BY <1>1, <2>4 DEF SuspendRead, ReactivateRead, PageProfile, PageLedger, PageSchedules, vars
  <2>. QED  BY <2>1, <2>2, <2>3, <2>4
<1>5. page' \in [Pagers -> Page]
  <2>1. /\ Pending(orders) \in Nat /\ Used(orders) \in SUBSET Orders
        /\ Outstanding(orders, page[a].used) \in Nat
    BY <1>1, <1>2, BalancesTyped
  <2>2. PICK p : page' = [page EXCEPT ![a] = p] /\ p \in Page
    <3>1. CASE \/ \E limit \in Limits : AdjustLimit(a, limit)
               \/ SuspendRead(a) \/ Suspend(a) \/ ReactivateRead(a) \/ Reactivate(a)
      <4>1. PICK at \in {"suspend", "reactivate", "profile"} : Goes(a, at)
        BY <3>1 DEF AdjustLimit, SuspendRead, Suspend, ReactivateRead, Reactivate
      <4>2. page' = [page EXCEPT ![a] = [page[a] EXCEPT !.at = at]]
        BY <1>1, <4>1 DEF Goes
      <4>3. [page[a] EXCEPT !.at = at] \in Page
        BY <1>1, <4>1 DEF Page
      <4>. QED  BY <4>2, <4>3
    <3>2. CASE PageProfile(a)
      <4>1. page' = [page EXCEPT ![a] = [page[a] EXCEPT !.at = "ledger",
                                                        !.approved = profile.approved]]
        BY <1>1, <3>2 DEF PageProfile
      <4>2. [page[a] EXCEPT !.at = "ledger", !.approved = profile.approved] \in Page
        BY <1>1, <1>2 DEF Page
      <4>. QED  BY <4>1, <4>2
    <3>3. CASE PageLedger(a)
      <4>1. page' = [page EXCEPT ![a] = [page[a] EXCEPT !.at = "schedules",
                        !.pending = Pending(orders), !.used = Used(orders)]]
        BY <1>1, <3>3 DEF PageLedger
      <4>2. [page[a] EXCEPT !.at = "schedules", !.pending = Pending(orders),
                            !.used = Used(orders)] \in Page
        BY <1>1, <2>1 DEF Page
      <4>. QED  BY <4>1, <4>2
    <3>4. CASE PageSchedules(a)
      <4>1. page' = [page EXCEPT ![a] = [page[a] EXCEPT !.at = "write",
                        !.outstanding = Outstanding(orders, page[a].used)]]
        BY <1>1, <3>4 DEF PageSchedules
      <4>2. [page[a] EXCEPT !.at = "write",
                            !.outstanding = Outstanding(orders, page[a].used)] \in Page
        BY <1>1, <2>1 DEF Page
      <4>. QED  BY <4>1, <4>2
    <3>5. CASE PageWrite(a)
      <4>1. NoPage \in Page
        BY DEF NoPage, Page
      <4>. QED  BY <3>5, <4>1 DEF PageWrite
    <3>. QED  BY <3>1, <3>2, <3>3, <3>4, <3>5
  <2>. QED  BY <1>1, <2>2
<1>. QED  BY <1>3, <1>4, <1>5 DEF PagesTypeOK, TypeOK, RowsTyped

LEMMA PagesTypeNext ==
  ASSUME IsFiniteSet(Orders), LedgerInv, PagesTypeOK, [PagesNext]_pageVars
  PROVE  PagesTypeOK'
<1>1. CASE [Next]_vars /\ UNCHANGED page
  BY <1>1, TypeNext DEF PagesTypeOK
<1>2. ASSUME NEW a \in Pagers,
             \/ \E limit \in Limits : AdjustLimit(a, limit)
             \/ SuspendRead(a) \/ Suspend(a) \/ ReactivateRead(a) \/ Reactivate(a)
             \/ PageProfile(a) \/ PageLedger(a) \/ PageSchedules(a) \/ PageWrite(a)
      PROVE  PagesTypeOK'
  BY <1>2, PageTyped
<1>. QED  BY <1>1, <1>2 DEF PagesNext, pageVars

LEMMA PagesTypeInit == PagesInit => PagesTypeOK
<1>1. Init => TypeOK
  <2> SUFFICES ASSUME Init PROVE TypeOK
    OBVIOUS
  <2>1. profile \in Profile
    BY DEF Init, Profile, CreditStatus
  <2>2. RowsTyped
    BY InvInit DEF LedgerInv
  <2>3. Idle \in Request
    BY DEF Idle, Request
  <2>. QED  BY <2>1, <2>2, <2>3 DEF Init, TypeOK
<1>2. NoPage \in Page
  BY DEF NoPage, Page
<1>. QED  BY <1>1, <1>2 DEF PagesInit, PagesTypeOK

-----------------------------------------------------------------------------
\* For every instance without reopened payments, and while no account page
\* writes (CreditAccountPages): the stored balances are what the orders say, in
\* every reachable state (refreshBalances under the lock).
THEOREM BalancesAreExact == Locked /\ Spec => []StoredBalanceIsExact
<1>1. Init => LedgerInv /\ StoredBalanceIsExact
  BY InvInit
<1>2. Locked /\ LedgerInv /\ StoredBalanceIsExact /\ [Next]_vars =>
        LedgerInv' /\ StoredBalanceIsExact'
  BY LedgerNext DEF KeepsLedger
<1>3. Locked => Locked'
  BY DEF Locked
<1> QED BY <1>1, <1>2, <1>3, PTL DEF Spec

\* With finitely many orders, and under the same condition: an order is put on
\* credit only if, with it, the customer owes no more than the limit, however
\* many reservations raced for the rest of it (reserveForPurchaseOrder).
THEOREM ReservationsStayInTheLimit ==
  ASSUME Locked, IsFiniteSet(Orders)
  PROVE  Spec => ReservationsFit
<1> DEFINE I == LedgerInv /\ StoredBalanceIsExact /\ LimitIsNat
<1>1. Init => I
  BY InvInit DEF Init, LimitIsNat
<1>2. I /\ [Next]_vars => I'
  BY LedgerNext, LimitNext DEF KeepsLedger
<1>3. I /\ [Next]_vars => [FitsInTheLimit]_vars
  BY FitsNext DEF LimitIsNat
<1> HIDE DEF I
<1>. QED  BY <1>1, <1>2, <1>3, PTL DEF Spec, ReservationsFit

\* Under the same conditions: the ledger implements the abstract credit line
\* (CreditLine).  Orders are placed once and within the limit, drawn once by
\* their first dispatch, and never owe more than their value, whatever
\* reservations, dispatches and verifications run at once.
THEOREM LedgerImplementsCreditLine ==
  ASSUME Locked, IsFiniteSet(Orders)
  PROVE  Spec => LineOfCredit
<1> DEFINE I == LedgerInv /\ StoredBalanceIsExact /\ LimitIsNat /\ DebtsBounded
<1>1. Init => I /\ Line!Init
  BY InvInit, LineInit DEF Init, LimitIsNat
<1>2. I /\ [Next]_vars => I'
  BY LedgerNext, LimitNext, DebtsNext DEF KeepsLedger
<1>3. I /\ [Next]_vars => [Line!Next]_(Line!line)
  <2>1. SUFFICES ASSUME I, [Next]_vars PROVE [Line!Next]_(Line!line)
    OBVIOUS
  <2>2. RowsTyped'
    BY <1>2, <2>1 DEF LedgerInv
  <2>. QED  BY <2>1, <2>2, LineStep
<1> HIDE DEF I
<1>. QED  BY <1>1, <1>2, <1>3, PTL DEF Spec, LineOfCredit, Line!Spec

\* Whatever the account pages write and however often a payment is verified:
\* it settles credit at most once (the look for an earlier settlement in
\* repayForPayment).
THEOREM PaymentsSettleOnce == PagesSpec => []SettledOnce
<1>1. PagesInit => LedgerInv
  BY InvInit DEF PagesInit
<1>2. LedgerInv /\ [PagesNext]_pageVars => LedgerInv'
  BY PagesStep
<1>3. LedgerInv => SettledOnce
  BY DEF LedgerInv
<1>. QED  BY <1>1, <1>2, <1>3, PTL DEF PagesSpec

\* Whatever the account pages write: a step that adds a ledger row or changes
\* the limit leaves exact balances behind (every one of them refreshes under
\* the lock, after its rows).
THEOREM LedgerMovesAreExact == PagesSpec => [][LedgerStep]_pageVars
<1>1. PagesInit => LedgerInv
  BY InvInit DEF PagesInit
<1>2. LedgerInv /\ [PagesNext]_pageVars => LedgerInv' /\ LedgerStep
  BY PagesStep
<1>. QED  BY <1>1, <1>2, PTL DEF PagesSpec

\* With finitely many orders: profile, orders, requests and account pages are
\* well typed; the stored balances, the available credit among them, are never
\* negative, whatever stale balances the pages store.
THEOREM AccountIsTyped ==
  ASSUME IsFiniteSet(Orders)
  PROVE  PagesSpec => []PagesTypeOK
<1>1. PagesInit => LedgerInv /\ PagesTypeOK
  BY InvInit, PagesTypeInit DEF PagesInit
<1>2. LedgerInv /\ PagesTypeOK /\ [PagesNext]_pageVars => LedgerInv' /\ PagesTypeOK'
  BY PagesStep, PagesTypeNext
<1>. QED  BY <1>1, <1>2, PTL DEF PagesSpec
=============================================================================
