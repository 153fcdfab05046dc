CONSTANTS
  u1 = u1
  u2 = u2
  u3 = u3
  shop = shop
  usd = usd
  p1 = p1
  p2 = p2
  NoPool = NoPool
  NoTerms = NoTerms
  Assets = {usd}
  Users = {u1, u2}
  Payees = {shop}
  Mandates = {m1, m2}
  Pools = {p1}
  PoolTerms <- LifecyclePools
  MandateTerms <- LifecycleTerms
  InitialFunds = 8
  AllowanceValues = {}
  BalanceValues = {}
  Freezable = {}
  MaxSchedulePoints = 2
  MaxUnitPrice = 2
  MaxQty = 3
  BpsDenom = 10
  MaxPoolMembers = 2
  CaptureWindow = 1
  MaxPoolHorizon = 3
  ProbedAssets = {usd}
  PaymentAmounts = {}
  MaxSeq = 1
  MaxTime = 3
SPECIFICATION Spec
PROPERTIES CommitBindsFromDeadline
SYMMETRY MandateSymmetry
CHECK_DEADLOCK FALSE
