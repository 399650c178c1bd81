SPECIFICATION Spec
CONSTANTS
  o1 = o1
  o2 = o2
  s1 = s1
  r1 = r1
  Slots = {t1, t2}
  Orders = {o1, o2}
  Sellers = {s1}
  Requests = {r1}
  Payouts = {q1, q2}
  NoPayout = NoPayout
  Idle = Idle
  Products <- MCProducts
  OrderProducts <- MCOrderProducts
  SellerOf <- MCSellerOf
  RequestOrder <- MCRequestOrder
INVARIANTS
  NoDeadlock
  DecisionsStand
PROPERTIES
  EveryTransactionEnds
