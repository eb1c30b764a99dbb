CONSTANTS
  Sellers = {s1, s2}
  Customer = Customer
  Requests = {r1}
  MaxCounters = 2
SPECIFICATION Spec
SYMMETRY Symmetry
CHECK_DEADLOCK FALSE
INVARIANTS
  OffererGetsTheOrder
