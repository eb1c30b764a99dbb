CONSTANTS
  s1 = s1
  n1 = n1
  n2 = n2
  x = x
  y = y
  Sells = {s1}
  Buys = {}
  Negotiations = {n1, n2}
  Primary <- OneListing
  Counterpart <- NotLinked
  Opener <- TwoOpeners
  Requests = {r1, r2}
  MaxRounds = 2
  Kinds = {"OPEN", "COUNTER", "ACCEPT"}
  NoListing = NoListing
  NoNegotiation = NoNegotiation
SPECIFICATION Spec
SYMMETRY Symmetry
CHECK_DEADLOCK FALSE
INVARIANTS
  OneDealAListing
