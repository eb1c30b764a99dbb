CONSTANTS
  o1 = o1
  o2 = o2
  p1 = p1
  p2 = p2
  Orders = {o1, o2}
  Values = {1, 2}
  Limits = {2, 3}
  Payments = {p1, p2}
  PayOf <- TwoPayments
  PayAmount <- OneEach
  Reopened = {}
  MaxDispatches = 2
  Requests = {r1, r2}
  NoOrder = NoOrder
  NoPayment = NoPayment
SPECIFICATION Spec
SYMMETRY Symmetry
CHECK_DEADLOCK FALSE
INVARIANTS
  StoredBalanceIsExact
PROPERTIES
  LineOfCredit
