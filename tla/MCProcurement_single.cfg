CONSTANTS
  Sellers = {s1, s2}
  Customer = Customer
  Requests = {r1}
  MaxCounters = 3
SPECIFICATION FairSpec
CHECK_DEADLOCK FALSE
INVARIANTS
  RequestNamesItsOrder
  OnePendingCounter
PROPERTIES
  ClosedIsFinal
  DueRequestsClose
