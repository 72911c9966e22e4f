CONSTANTS
  alice = alice  bob = bob  usd = usd  eur = eur
  d1 = d1  d2 = d2  w1 = w1  w2 = w2
  Fund = Fund  Core = Core  NoHash = NoHash  FundHash = FundHash  NoWork = NoWork
  NoCommission = NoCommission  TEN_PERCENTS = 1
  ONE = 4  YEAR = 1  ONE_HUNDRED_PERCENT = 4
  MAX_COMMISSION_STEP = 8  MAX_PERFORMANCE_FEE = 2  MAX_STEPS = 2
  Investors = {alice, bob}
  Tokens = {usd, eur}
  ValueToken = usd
  DepositRequests = {d2}
  WithdrawRequests = {w1}
  DepositBody <- Deposits
  WithdrawBody <- Withdrawals
  ClientVerification <- OnlyAliceVerified
  InitialSettings <- FreeAndFast
  QueueLimit = 1
  DepositAmounts = {2}
  FundShares = {0, 1}
  MinOutputs = {0}
  TransferAmounts = {}
  CashLevels = {0, 3}
  LockupPeriods = {0}
  ClientTiers = {0}
  OracleValues = {0, 2, 3}
  Commissions = {}
  Schedules = {}
  InvestmentRanges <- NoRange
  MinimumFundDeposits = {2}
  PostActionDelays = {}
  FundStatuses = {1, 2}
  PauseValues = {TRUE, FALSE}
  MaxTime = 1
  MaxRequests = 2
SPECIFICATION Spec
INVARIANTS
  OnlyFundItemsPanic
PROPERTIES
  AnswersAppliedOnceInOrder
  OnlyResetOrphansTheQueues
  FundKeepsMinimumStake
  KeepsPromise
