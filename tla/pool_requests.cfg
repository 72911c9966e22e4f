CONSTANTS
  alice = alice  bob = bob  usd = usd  eur = eur
  d1 = d1  d2 = d2  w1 = w1  w2 = w2
  Fund = Fund  Core = Core  NoHash = NoHash  FundHash = FundHash  NoWork = NoWork
  NoCommission = NoCommission  TEN_PERCENTS = 1
  ONE = 4  YEAR = 1  ONE_HUNDRED_PERCENT = 4
  MAX_COMMISSION_STEP = 8  MAX_PERFORMANCE_FEE = 2  MAX_STEPS = 2
  Investors = {alice}
  Tokens = {usd}
  ValueToken = usd
  DepositRequests = {d1}
  WithdrawRequests = {w1}
  DepositBody <- Deposits
  WithdrawBody <- Withdrawals
  ClientVerification <- Verified
  InitialSettings <- FreeOfFees
  QueueLimit = 2
  DepositAmounts = {1}
  FundShares = {}
  MinOutputs = {0}
  TransferAmounts = {1}
  CashLevels = {}
  LockupPeriods = {0, 1}
  ClientTiers = {}
  OracleValues = {2}
  Commissions = {}
  Schedules = {}
  InvestmentRanges <- NarrowRange
  MinimumFundDeposits = {}
  PostActionDelays = {}
  FundStatuses = {1}
  PauseValues = {FALSE}
  MaxTime = 2
  MaxRequests = 3
SPECIFICATION Spec
INVARIANTS
  TypeOK
  DepositRequestExecutedOnce
  WithdrawRequestPaidOnce
  UnprocessedKeepsPoolDown
PROPERTIES
  UnprocessedClearedByExecution
