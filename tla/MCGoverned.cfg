CONSTANTS
  c1 = c1
  safe = safe
  usd = usd
  v2 = v2
  v3 = v3
  u1 = u1
  shop = shop
  k1 = k1
  Nobody = Nobody
  NoGrant = NoGrant
  Controllers = {c1}
  Accounts = {safe}
  Principals = {c1, safe}
  Assets = {usd}
  Listable = {usd}
  WasmHashes = {v2, v3}
  Operations = {1, 2, 3, 4}
  ActionOf <- LiftingActions
  PredecessorOf <- NoOrder
  NoOperation = 0
  Delay = 2
  MaxSequence = 3
  MaxLedger = 3
  Users = {u1}
  Payees = {shop}
  InitialFunds = 1
  AllowanceValues = {}
  BalanceValues = {}
  Freezable = {}
  MandateTerms <- GovernedTerms
  Credentials = {k1}
  PaymentAmounts = {1}
  SetupAsset = usd
  MaxLifetime = 2
  MaxSeq = 1
  MaxTime = 0
SPECIFICATION GovernedSpec
PROPERTIES StopsHold
CHECK_DEADLOCK FALSE
