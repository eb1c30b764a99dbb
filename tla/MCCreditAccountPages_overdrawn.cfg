CONSTANTS
  o1 = o1
  o2 = o2
  p1 = p1
  Orders = {o1, o2}
  Values = {1, 2}
  Limits = {2}
  Payments = {p1}
  PayOf <- OnePayment
  PayAmount <- One
  Reopened = {}
  Pagers = {a1}
  MaxDispatches = 2
  Requests = {r1, r2}
  NoOrder = NoOrder
  NoPayment = NoPayment
SPECIFICATION PagesSpec
SYMMETRY Symmetry
CHECK_DEADLOCK FALSE
PROPERTIES
  ReservationsFit
