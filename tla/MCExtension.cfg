CONSTANTS
  u1 = u1
  shop = shop
  usd = usd
  bot = bot
  policyContract = policyContract
  NoTerms = NoTerms
  NoPolicy = NoPolicy
  NoGrant = NoGrant
  Assets = {usd}
  Users = {u1}
  Payees = {shop}
  InitialFunds = 4
  AllowanceValues = {}
  BalanceValues = {1}
  Freezable = {}
  Mandates = {1, 2}
  MandateTerms <- ExtensionTerms
  Agents = {bot, policyContract}
  Extension = policyContract
  PaymentAmounts = {1, 2}
  MaxSeq = 2
  MaxTime = 3
  Caps = {1, 2}
  StartTimes = {0, 1}
  Nonces = {1, 2}
  MaxPolicyLifetime = 2
  MaxRequestLifetime = 1
SPECIFICATION Spec
INVARIANTS NoncesMatchPayments SpendWithinCaps
PROPERTIES PolicyIsTheOnlyDoor ImplementsMandateLedger
CHECK_DEADLOCK FALSE
