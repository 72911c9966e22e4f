CONSTANTS
  alice = alice  bob = bob  usd = usd  eur = eur
  d1 = d1  d2 = d2  w1 = w1  w2 = w2
  Fund = Fund  Core = Core  NoHash = NoHash  FundHash = FundHash  NoWork = NoWork
  NoCommission = NoCommission  TEN_PERCENTS = 1
  ONE = 4  YEAR = 1  ONE_HUNDRED_PERCENT = 4
  MAX_COMMISSION_STEP = 8  MAX_PERFORMANCE_FEE = 2  MAX_STEPS = 2
  Investors = {alice}
  Tokens = {usd}
  ValueToken = usd
  DepositRequests = {}
  WithdrawRequests = {w1}
  DepositBody <- Deposits
  WithdrawBody <- Withdrawals
  ClientVerification <- Verified
  InitialSettings <- LargeMinimum
  QueueLimit = 1
  DepositAmounts = {4}
  FundShares = {}
  MinOutputs = {0}
  TransferAmounts = {1}
  CashLevels = {}
  LockupPeriods = {1}
  ClientTiers = {}
  OracleValues = {4}
  Commissions = {}
  Schedules = {}
  InvestmentRanges <- NoRange
  MinimumFundDeposits = {}
  PostActionDelays = {}
  FundStatuses = {1}
  PauseValues = {FALSE}
  MaxTime = 3
  MaxRequests = 3
SPECIFICATION Spec
PROPERTIES
  ActivatedWithMinimumDeposit
