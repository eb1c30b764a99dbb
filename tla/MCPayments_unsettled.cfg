CONSTANTS
  Method = "MILESTONE_PAYMENT"
  Total = 3
  Payments = {p1, p2, p3}
  Requests = {r1, r2}
  Keys = {}
  Utrs = {u1, u2, u3}
  InputAmounts = {1}
  NoPayment = NoPayment
  NoKey = NoKey
  NoUtr = NoUtr
SPECIFICATION Spec
SYMMETRY Symmetry
CHECK_DEADLOCK FALSE
INVARIANTS
  FullyPaidIsSettled
