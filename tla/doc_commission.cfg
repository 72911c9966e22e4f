CONSTANTS
  alice = alice  bob = bob  usd = usd  eur = eur
  d1 = d1  d2 = d2  w1 = w1  w2 = w2
  Fund = Fund  Core = Core  NoHash = NoHash  FundHash = FundHash  NoWork = NoWork
  NoCommission = NoCommission  TEN_PERCENTS = 1
  ONE = 4  YEAR = 1  ONE_HUNDRED_PERCENT = 4
  MAX_COMMISSION_STEP = 8  MAX_PERFORMANCE_FEE = 2  MAX_STEPS = 2
  Investors = {alice}
  Tokens = {usd}
  ValueToken = usd
  DepositRequests = {}
  WithdrawRequests = {w1}
  DepositBody <- Deposits
  WithdrawBody <- Withdrawals
  ClientVerification <- Verified
  InitialSettings <- FreeOfFees
  QueueLimit = 1
  DepositAmounts = {2}
  FundShares = {}
  MinOutputs = {0}
  TransferAmounts = {}
  CashLevels = {}
  LockupPeriods = {0}
  ClientTiers = {}
  OracleValues = {2}
  Commissions = {0, 1}
  Schedules = {}
  InvestmentRanges <- NoRange
  MinimumFundDeposits = {}
  PostActionDelays = {}
  FundStatuses = {1}
  PauseValues = {FALSE}
  MaxTime = 1
  MaxRequests = 3
SPECIFICATION Spec
INVARIANTS
  SpecificCommissionApplies
