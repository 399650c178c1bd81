SPECIFICATION MarketSpec
CONSTANTS
  s1 = s1
  Orders = {o1, o2}
  Legacy = {}
  Products = {p1}
  Callers = {c1}
  Requests = {r1}
  Payouts = {q1, q2}
  Sellers = {s1}
  Requesters = {w1, w2}
  Destinations = {d1}
  NoDestination = NoDestination
  NoPayout = NoPayout
  NoRequest = NoRequest
  NoCall = NoCall
  Never = Never
  Qty <- MCQty
  InitialStock <- MCInitialStock
  SellerOf <- MCSellerOf
  Net <- MCNet
  MinPayout = 1
  CoolingOff = 1
  ReturnWindow = 1
  MaxTime = 2
  MaxForced = 1
CHECK_DEADLOCK FALSE
SYMMETRY DeskSymmetry
INVARIANTS
  OneOpenPayout
  PayoutBacked
PROPERTIES
  ReservedOnlyWhenSettled
  PaidToASettledDestination
  ImplementsPayouts
