CONSTANTS
  u1 = u1
  shop = shop
  usd = usd
  bot = bot
  policyContract = policyContract
  agentContract = agentContract
  NoTerms = NoTerms
  NoPolicy = NoPolicy
  NoGrant = NoGrant
  Assets = {usd}
  Users = {u1}
  Payees = {shop}
  InitialFunds = 6
  AllowanceValues = {}
  BalanceValues = {1}
  Freezable = {}
  Mandates = {1, 2}
  MandateTerms <- FrameTerms
  Agents = {agentContract, bot, policyContract}
  Extension = policyContract
  AgentContract = agentContract
  PaymentAmounts = {2}
  MaxSeq = 2
  MaxTime = 1
  Caps = {2}
  StartTimes = {0}
  Nonces = {1, 2}
  MaxPolicyLifetime = 2
  MaxRequestLifetime = 1
  MaxDepth = 6
  MaxCalls = 2
SPECIFICATION FramesSpec
INVARIANTS BooksSurviveReentry OneInFlight
PROPERTIES TransactionsAreAtomic
CHECK_DEADLOCK FALSE
