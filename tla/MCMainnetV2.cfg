CONSTANTS
  u1 = u1
  shop = shop
  mall = mall
  usd = usd
  safe = safe
  other = other
  v2 = v2
  k1 = k1
  k2 = k2
  Nobody = Nobody
  NoGrant = NoGrant
  Principals = {safe, other}
  Assets = {usd}
  Listable = {usd}
  WasmHashes = {v2}
  Users = {u1}
  Payees = {shop, mall}
  InitialFunds = 4
  AllowanceValues = {1}
  BalanceValues = {}
  Freezable = {shop}
  MandateTerms <- SignedTerms
  Credentials = {k1, k2}
  PaymentAmounts = {1, 2}
  SetupAsset = usd
  MaxLifetime = 2
  MaxSeq = 2
  MaxTime = 3
SPECIFICATION Spec
INVARIANTS InvalidStateUnreachable OneMandatePerCredential PreviewIsExact ReceiptsTellAll BooksMatchLedger
PROPERTIES SpendingIsAdmitted FinalityHolds ImplementsMandateLedger
CHECK_DEADLOCK FALSE
