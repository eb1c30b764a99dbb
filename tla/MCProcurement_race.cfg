CONSTANTS
  Sellers = {s1, s2}
  Customer = Customer
  Requests = {r1, r2}
  MaxCounters = 1
SPECIFICATION Spec
SYMMETRY Symmetry
CHECK_DEADLOCK FALSE
INVARIANTS
  ConvertedHasOrder
  OneWinner
PROPERTIES
  SoldOnce
  MatchesStayClosed
  SellersSellOpenRequests
