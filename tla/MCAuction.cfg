CONSTANTS
  u1 = u1
  u2 = u2
  u3 = u3
  shop = shop
  usd = usd
  p1 = p1
  p2 = p2
  NoPool = NoPool
  NoTerms = NoTerms
  Assets = {usd}
  Users = {u1, u2}
  Payees = {shop}
  Mandates = {m1, m2, m3}
  Pools = {p1, p2}
  PoolTerms <- AuctionPools
  MandateTerms <- AuctionTerms
  InitialFunds = 4
  AllowanceValues = {}
  BalanceValues = {}
  Freezable = {u1}
  MaxSchedulePoints = 2
  MaxUnitPrice = 2
  MaxQty = 3
  BpsDenom = 10
  MaxPoolMembers = 2
  CaptureWindow = 1
  MaxPoolHorizon = 3
  ProbedAssets = {usd}
  PaymentAmounts = {2}
  MaxSeq = 1
  MaxTime = 3
SPECIFICATION Spec
INVARIANTS BudgetKept BooksMatchLedger MetPoolSettles
PROPERTIES AuctionIsHonest SpendNeedsConsent FinalityHolds ImplementsMandateLedger
SYMMETRY MandateSymmetry
CHECK_DEADLOCK FALSE
