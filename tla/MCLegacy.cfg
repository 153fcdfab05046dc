CONSTANTS
  u1 = u1
  u2 = u2
  shop = shop
  usd = usd
  p1 = p1
  NoPool = NoPool
  NoTerms = NoTerms
  Assets = {usd}
  Users = {u1, u2}
  Payees = {shop}
  Mandates = {m1, m2}
  Pools = {p1}
  PoolTerms <- LongPools
  MandateTerms <- LongTerms
  InitialFunds = 3
  AllowanceValues = {0}
  BalanceValues = {}
  Freezable = {u1}
  MaxSchedulePoints = 2
  MaxUnitPrice = 2
  MaxQty = 3
  BpsDenom = 10
  MaxPoolMembers = 2
  CaptureWindow = 1
  MaxPoolHorizon = 7
  ProbedAssets = {}
  PaymentAmounts = {2}
  MaxSeq = 1
  MaxTime = 9
  SecsPerLedger = 3
  TtlThreshold = 1
  TtlExtend = 2
  MinTtl = 1
  MinPace = 2
SPECIFICATION LegacySpec
INVARIANTS OpenPoolsStayUsable
PROPERTIES ImplementsComposites
CHECK_DEADLOCK FALSE
