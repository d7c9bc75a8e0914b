CONSTANTS
  a1 = a1
  a2 = a2
  p1 = p1
  p2 = p2
  i1 = i1
  i2 = i2
  d1 = d1
  d2 = d2
  quote = quote
  zero = zero
  Askers = {a1, a2}
  Pollers = {p1, p2}
  Ids = {i1, i2}
  Deals = {d1, d2}
  ValidDeals = {d1}
  Prices = {quote, zero}
  Positive = {quote}
  Unused = Unused
  Foreign = Foreign
  MaxConfirms = 2
  None = None
SPECIFICATION Spec
SYMMETRY Symmetry
INVARIANTS
  TypeOK
  NoConfirmMissed
  OrdersMatchRequests
PROPERTY RecordsAreFinal
