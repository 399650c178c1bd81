SPECIFICATION Spec
CONSTANTS
  fresh = fresh
  legacy = legacy
  p1 = p1
  p2 = p2
  c1 = c1
  c2 = c2
  Orders = {fresh, legacy}
  Legacy = {legacy}
  Products = {p1, p2}
  Callers = {c1, c2}
  Requests = {r1, r2}
  Payouts = {}
  NoPayout = NoPayout
  NoRequest = NoRequest
  NoCall = NoCall
  Never = Never
  Qty <- MCQty
  InitialStock <- MCInitialStock
  ReturnWindow = 0
  MaxTime = 1
  MaxForced = 1
CHECK_DEADLOCK FALSE
SYMMETRY CallSymmetry
INVARIANTS
  TypeOK
  StockConserved
  HoldLastsAsLongAsTheSale
  CancelledHidesNoCash
  PaymentMatchesTransaction
  EarningFollowsSale
  RefundedOnce
PROPERTIES
  FinalStatusesAbsorb
  ImplementsLedger
