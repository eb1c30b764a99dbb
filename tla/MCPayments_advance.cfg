CONSTANTS
  Method = "ADVANCE"
  Total = 3
  Payments = {p1, p2}
  Requests = {r1, r2}
  Keys = {k1}
  Utrs = {u1, u2}
  InputAmounts = {1, 2}
  NoPayment = NoPayment
  NoKey = NoKey
  NoUtr = NoUtr
SPECIFICATION FairSpec
CHECK_DEADLOCK FALSE
INVARIANTS
  LedgersBalance
  ClearanceIsFunded
  NoDuplicatePayments
PROPERTIES
  OnlySubmitReopens
  SellerIsProtected
  TransactionsFinish
