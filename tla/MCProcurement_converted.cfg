CONSTANTS
  Sellers = {s1, s2}
  Customer = Customer
  Requests = {r1, r2}
  MaxCounters = 2
SPECIFICATION Spec
SYMMETRY Symmetry
CHECK_DEADLOCK FALSE
PROPERTIES
  ConvertedIsFinal
