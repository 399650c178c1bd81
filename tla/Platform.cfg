SPECIFICATION PlatformSpec
CONSTANTS
  p1 = p1
  p2 = p2
  s1 = s1
  s2 = s2
  Products = {p1, p2}
  Sellers = {s1, s2}
  SellerOf <- MCSellerOf
  Screens = {web}
  WebScreens = {web}
  Keys = {y1, y2}
  Attempts = {a1, a2}
  NoKey = NoKey
  NoAttempt = NoAttempt
  MaxUnits = 1
  Clerks = {c1, c2}
  Edits <- MCEdits
  MaxStock = 2
  MaxSold = 1
  None = None
  Workers = {w1, w2}
  Goods = {g1, g2}
  Files = {f1, f2, f3}
  MaxImages = 1
  NoGood = NoGood
  Papers = {d1, d2}
  PaperTypes = {idcard}
  Required = {idcard}
  Hands = {h1, h2}
  NoPaper = NoPaper
  Devices = {phone}
  Phones = {phone}
  Refreshes = {r1, r2}
  Tokens = {t1, t2, t3}
  NoToken = NoToken
  MaxCode = 2
  Askers = {i1, i2}
  Calls = {k1, k2}
  MaxAttempts = 2
  VerifyLimit = 1
  IssueLimit = 1
  b1 = b1
  b2 = b2
  b3 = b3
  g1 = g1
  g2 = g2
  Slots = {b1, b2, b3}
  Items = {g1, g2}
  ItemOf <- MCItemOf
  Writers = {w1, w2}
  Ratings = {1, 2}
  MaxRequests = 3
  Scale = 10
  Rates = {5}
  Amounts = {3}
  Admins = {a1, a2}
  MaxTrail = 2
  NoRate = NoRate
  TreeEdits = {x1, x2}
  MaxNode = 4
  MaxAtStart = 4
  MaxDepth = 3
  Top = Top
  m1 = m1
  tA = tA
  Towns = {tA, tB}
  Communes = {m1}
  TownOf <- MCTownOf
  MaxRow = 2
  Visits = {v1, v2}
  NoPlace = NoPlace
  Users = {u1, u2}
  Senders = {e1, e2}
  BatchSize = 1
CHECK_DEADLOCK FALSE
INVARIANTS
  PlatformTypeOK
  RetryFindsItsOrders
  StockEditsKeepSales
  OrderedProductKeepsItsRow
  FoundRowsKeepTheirFiles
  CeilingHolds
  LiveDocumentHasItsFile
  RacesKeepTheSession
  SpentCodeStaysSpent
  RatingsFollowVisible
  OverridesChain
  OneDeliveryAddress
  
  SentReachesAll
PROPERTIES
  ImplementsIntents
  EditsInTurnKeepTheTree
