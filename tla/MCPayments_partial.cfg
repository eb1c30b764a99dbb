CONSTANTS
  Method = "PARTIAL_PAYMENT"
  Total = 2
  Payments = {p1, p2}
  Requests = {r1, r2}
  Keys = {}
  Utrs = {u1, u2}
  InputAmounts = {1}
  NoPayment = NoPayment
  NoKey = NoKey
  NoUtr = NoUtr
SPECIFICATION ReportedSpec
CHECK_DEADLOCK FALSE
PROPERTIES
  LinesBecomeDue
