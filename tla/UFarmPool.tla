------------------------------ MODULE UFarmPool ------------------------------
(***************************************************************************)
(* One pool: UFarmPool.sol with the parts of PoolAdmin.sol, UFarmFund.sol  *)
(* and UFarmCore.sol that change what the pool reads.                      *)
(*                                                                         *)
(* Deposits and withdrawals only queue; the queues are settled when the    *)
(* Quex oracle answers with the value of the pool (quexCallback).  Every   *)
(* external call is one atomic step except the callback, which settles one *)
(* queue item per step.  The EVM's atomicity is kept: while a callback     *)
(* runs nothing else does, it works on a copy of the pool's ledger (work), *)
(* and the copy is committed at its end or dropped when it reverts.        *)
(*                                                                         *)
(* Abstracted: who holds the permission a manager's action asks for (the   *)
(* permission modules model that), the investors' wallets (a token         *)
(* transfer may fail), positions in other protocols (a protocol action may *)
(* leave any amount of a value token in the pool) and the oracle's feed    *)
(* (any value).  A signed request is named by its digest; an array of      *)
(* requests is named by the sequence of those that pass validation.        *)
(***************************************************************************)
EXTENDS PoolFees, FiniteSets

CONSTANTS
  Investors,            \* accounts other than the fund and the core
  Fund, Core,           \* the fund and the core, which hold shares too
  Tokens, ValueToken,   \* whitelisted value tokens; the pool's own one
  DepositRequests,      \* digests of signed deposit requests
  WithdrawRequests,     \* digests of signed withdrawal requests
  NoHash,               \* bytes32(0)
  FundHash,             \* the digest a withdrawal by the fund is given
  DepositBody,          \* what each deposit request says
  WithdrawBody,         \* what each withdrawal request says
  ClientVerification,   \* the attestation each investor presents
  InitialSettings,      \* what the pool is created with
  NoCommission,         \* no specific commission is set
  TEN_PERCENTS,         \* 1e17, the largest commission in time
  QueueLimit,           \* QUEUE_LIMIT = 10
  NoWork                \* no callback is running

CONSTANTS               \* inputs enumerated and bounds
  DepositAmounts, FundShares, MinOutputs, TransferAmounts, CashLevels,
  LockupPeriods, ClientTiers, OracleValues,
  Commissions, Schedules, InvestmentRanges, MinimumFundDeposits,
  PostActionDelays,
  FundStatuses,         \* what the fund's owner sets the fund to
  PauseValues,          \* values isPaused takes
  MaxTime,              \* bound of the clock
  MaxRequests           \* bound of the oracle requests

\* PoolStatus and FundStatus, ordered as the enums are.  Draft is left at
\* creation; no function of UFarmCore blocks a fund.
Created      == 1
Active       == 2
Deactivating == 3
Terminated   == 4
PoolStatus   == Created..Terminated

FundApproved   == 0
FundActive     == 1
FundTerminated == 2
FundStatus     == FundApproved..FundTerminated

Holders == Investors \cup {Fund, Core}

\* What PoolAdmin and the core hold and the pool reads: PoolConfig (but for
\* the lockup, which a termination changes too), the core's commission, also
\* the specific ones by the address that asks, and its other parameters.
Settings ==
  [managementCommission : Nat, packedPerformanceFee : Packed,
   minInvestment : Nat, maxInvestment : Nat,
   protocolCommission : Nat,
   specificCommission : [{"pool", "poolAdmin"} -> Nat \cup {NoCommission}],
   minimumFundDeposit : Nat, postActionDelay : Nat]

ASSUME PoolAssumption ==
  /\ IsFiniteSet(Investors)
  /\ Fund # Core /\ {Fund, Core} \cap Investors = {}
  /\ ValueToken \in Tokens
  /\ NoHash \notin DepositRequests \cup WithdrawRequests
  /\ FundHash \notin DepositRequests \cup WithdrawRequests \cup {NoHash}
  /\ DepositBody \in [DepositRequests ->
       [investor : Investors, amount : Nat \ {0}, minOutput : Nat,
        deadline : Nat, token : Tokens]]
  /\ WithdrawBody \in [WithdrawRequests ->
       [investor : Investors, amount : Nat \ {0}, minOutput : Nat]]
  /\ ClientVerification \in [Investors -> [tier : Nat, validTill : Nat]]
  /\ NoCommission \notin Nat
  /\ InitialSettings \in Settings
  /\ ValidSteps(UnpackPerformanceCommission(InitialSettings.packedPerformanceFee))
  /\ {TEN_PERCENTS, QueueLimit, MaxTime, MaxRequests} \subseteq Nat
  /\ DepositAmounts \subseteq Nat \ {0}
  /\ TransferAmounts \subseteq Nat \ {0}
  /\ FundShares \cup MinOutputs \cup CashLevels \cup LockupPeriods
       \cup ClientTiers \cup OracleValues \cup Commissions
       \cup MinimumFundDeposits \cup PostActionDelays \subseteq Nat
  /\ Schedules \subseteq Packed
  /\ InvestmentRanges \subseteq Nat \X Nat
  /\ FundStatuses \subseteq {FundActive, FundTerminated}
  /\ PauseValues \subseteq BOOLEAN

DepositItems ==
  [amount : Nat \ {0}, minOutput : Nat, hash : DepositRequests \cup {NoHash},
   investor : Investors \cup {Fund}, token : Tokens]

FundWithdrawals ==
  [amount : Nat, minOutput : Nat, hash : {FundHash},
   investor : {Fund}, token : Tokens]
InvestorWithdrawals ==
  [amount : Nat \ {0}, minOutput : Nat, hash : WithdrawRequests,
   investor : Investors, token : Tokens]
WithdrawItems == FundWithdrawals \cup InvestorWithdrawals

\* The storage a callback rewrites.  Three fields exist for the properties
\* only: the token transfers made for each signed request (pulls, payouts) and
\* the last oracle request whose answer was applied (answered).
Ledger ==
  [totalCost : Nat, highWaterMark : Nat, lastAccrual : Nat,
   supply : Nat, shares : [Holders -> Nat], cash : [Tokens -> Nat],
   depositQueue : Seq(DepositItems), withdrawQueue : Seq(WithdrawItems),
   usedDeposits : SUBSET DepositRequests,
   usedWithdrawals : SUBSET WithdrawRequests,
   pending : [WithdrawRequests -> Nat],
   unprocessed : WithdrawRequests \cup {NoHash},
   pulls : [DepositRequests -> Nat], payouts : [WithdrawRequests -> Nat],
   answered : Nat]

ASSUME NoWorkAssumption == NoWork \notin Ledger

VARIABLES
  pool,             \* the ledger
  status,           \* PoolStatus
  requestId,        \* the awaited oracle request, 0 if none
  delayExpiration,  \* actionDelayExpiration
  minClientTier,
  lockup,           \* poolConfig.withdrawalLockupPeriod
  stage,            \* where the running callback is
  work,             \* its copy of the ledger
  totalDeposit,     \* its running sum of deposits
  fundStatus,       \* UFarmFund.status
  paused,           \* UFarmCore.isPaused
  now,              \* block.timestamp
  issued,           \* number of oracle requests made so far
  settings

poolVars     == <<pool, status, requestId, delayExpiration, minClientTier, lockup>>
callbackVars == <<stage, work, totalDeposit>>
worldVars    == <<fundStatus, paused, now, issued, settings>>
vars         == <<poolVars, callbackVars, worldVars>>

Init ==
  /\ pool = [totalCost |-> 0, highWaterMark |-> 0, lastAccrual |-> 0,
             supply |-> 0, shares |-> [h \in Holders |-> 0],
             cash |-> [t \in Tokens |-> 0],
             depositQueue |-> <<>>, withdrawQueue |-> <<>>,
             usedDeposits |-> {}, usedWithdrawals |-> {},
             pending |-> [r \in WithdrawRequests |-> 0],
             unprocessed |-> NoHash,
             pulls |-> [r \in DepositRequests |-> 0],
             payouts |-> [r \in WithdrawRequests |-> 0],
             answered |-> 0]
  /\ status = Created
  /\ requestId = 0
  /\ delayExpiration = 0
  /\ minClientTier = 5
  /\ lockup \in LockupPeriods
  /\ stage = "idle" /\ work = NoWork /\ totalDeposit = 0
  /\ fundStatus = FundApproved
  /\ paused = FALSE
  /\ now = 1
  /\ issued = 0
  /\ settings = InitialSettings

-----------------------------------------------------------------------------
(* Checks shared by the entry points                                       *)

\* _checkStatusForFinancing(true); the fund deposits through depositToPool,
\* whose own status check admits the same two fund statuses.
FundMayDeposit     == fundStatus <= FundActive /\ status <= Deactivating
InvestorMayDeposit == fundStatus = FundActive /\ status = Active

\* ufarmIsNotPaused and _ensureActionDelayPassed
Open == ~paused /\ now >= delayExpiration

\* sendQuexRequest: at most one request is outstanding.
SendQuexRequest ==
  IF requestId # 0
  THEN UNCHANGED <<requestId, issued>>
  ELSE /\ issued < MaxRequests
       /\ issued' = issued + 1
       /\ requestId' = issued + 1

\* isAbleToManageFunds asks for an active fund and a permitted caller.
ManagerActs == ~paused /\ fundStatus = FundActive

-----------------------------------------------------------------------------
(* Deposits                                                                *)

Deposit(sender, amount, token) ==
  /\ Open
  /\ Len(pool.depositQueue) < QueueLimit
  /\ IF sender = Fund
     THEN FundMayDeposit /\ token = ValueToken
     ELSE /\ InvestorMayDeposit
          /\ amount \in settings.minInvestment..settings.maxInvestment
          /\ minClientTier > 0 =>
               /\ minClientTier <= ClientVerification[sender].tier
               /\ now <= ClientVerification[sender].validTill
  /\ pool' = [pool EXCEPT !.depositQueue = Append(@,
                [amount |-> amount, minOutput |-> 0, hash |-> NoHash,
                 investor |-> sender, token |-> token])]
  /\ SendQuexRequest
  /\ UNCHANGED <<status, delayExpiration, minClientTier, lockup,
                 fundStatus, paused, now, settings>>

ValidDepositRequest(r) ==
  /\ r \notin pool.usedDeposits
  /\ now <= DepositBody[r].deadline

DepositItem(r) ==
  [amount |-> DepositBody[r].amount, minOutput |-> DepositBody[r].minOutput,
   hash |-> r, investor |-> DepositBody[r].investor,
   token |-> DepositBody[r].token]

\* A manager submits an array whose valid requests are batch, in order; the
\* same request may occur twice, and invalid ones are skipped.
ApproveDeposits ==
  /\ Open
  /\ InvestorMayDeposit
  /\ \E n \in 0..QueueLimit - Len(pool.depositQueue) :
     \E batch \in [1..n -> {r \in DepositRequests : ValidDepositRequest(r)}] :
       pool' = [pool EXCEPT !.depositQueue =
                  @ \o [i \in 1..n |-> DepositItem(batch[i])]]
  /\ SendQuexRequest
  /\ UNCHANGED <<status, delayExpiration, minClientTier, lockup,
                 fundStatus, paused, now, settings>>

-----------------------------------------------------------------------------
(* Withdrawals                                                             *)

ValidWithdrawRequest(r) ==
  /\ r \notin pool.usedWithdrawals
  /\ WithdrawBody[r].amount <= pool.shares[WithdrawBody[r].investor]

WithdrawItem(r, token) ==
  [amount |-> WithdrawBody[r].amount, minOutput |-> WithdrawBody[r].minOutput,
   hash |-> r, investor |-> WithdrawBody[r].investor, token |-> token]

ApproveWithdrawals(token) ==
  /\ Open
  /\ \E n \in 0..QueueLimit - Len(pool.withdrawQueue) :
     \E batch \in [1..n -> {r \in WithdrawRequests : ValidWithdrawRequest(r)}] :
       pool' = [pool EXCEPT !.withdrawQueue =
                  @ \o [i \in 1..n |-> WithdrawItem(batch[i], token)]]
  /\ SendQuexRequest
  /\ UNCHANGED <<status, delayExpiration, minClientTier, lockup,
                 fundStatus, paused, now, settings>>

\* UFarmFund.withdrawFromPool asks for an approved or active fund.
WithdrawByFund(amount, minOutput, token) ==
  /\ Open
  /\ fundStatus <= FundActive
  /\ Len(pool.withdrawQueue) < QueueLimit
  /\ pool' = [pool EXCEPT !.withdrawQueue = Append(@,
                [amount |-> amount, minOutput |-> minOutput, hash |-> FundHash,
                 investor |-> Fund, token |-> token])]
  /\ SendQuexRequest
  /\ UNCHANGED <<status, delayExpiration, minClientTier, lockup,
                 fundStatus, paused, now, settings>>

\* withdraw(request): what every branch for an investor checks first.
MayWithdraw(r) ==
  /\ Open
  /\ Len(pool.withdrawQueue) < QueueLimit
  /\ ValidWithdrawRequest(r)

LockupPassed(r) == pool.pending[r] # 0 /\ now >= pool.pending[r] + lockup

RegisterWithdrawal(r) ==
  /\ MayWithdraw(r)
  /\ lockup > 0 /\ pool.pending[r] = 0
  /\ pool' = [pool EXCEPT !.pending[r] = now]
  /\ UNCHANGED <<status, requestId, delayExpiration, minClientTier, lockup,
                 worldVars>>

\* A withdrawal past its lockup forces a running pool to deactivate.
ForceDeactivation(r) ==
  /\ MayWithdraw(r)
  /\ lockup > 0 /\ LockupPassed(r)
  /\ status < Deactivating
  /\ pool' = [pool EXCEPT !.unprocessed = IF @ = NoHash THEN r ELSE @]
  /\ status' = Deactivating
  /\ UNCHANGED <<requestId, delayExpiration, minClientTier, lockup, worldVars>>

\* Mistake: a request is queued and the oracle is not asked.
QueueWithdrawal_Unasked(r) ==
  /\ MayWithdraw(r)
  /\ lockup > 0 => LockupPassed(r) /\ status >= Deactivating
  /\ pool' = [pool EXCEPT !.withdrawQueue = Append(@, WithdrawItem(r, ValueToken))]
  /\ UNCHANGED <<status, requestId, delayExpiration, minClientTier, lockup, worldVars>>

QueueWithdrawal(r) ==
  /\ MayWithdraw(r)
  /\ lockup > 0 => LockupPassed(r) /\ status >= Deactivating
  /\ pool' = [pool EXCEPT !.withdrawQueue = Append(@, WithdrawItem(r, ValueToken))]
  /\ SendQuexRequest
  /\ UNCHANGED <<status, delayExpiration, minClientTier, lockup,
                 fundStatus, paused, now, settings>>

\* Pool shares are an ERC20 token.  UFarmFund refuses to send or approve
\* them; UFarmCore.withdrawAssets sends the core's.
TransferShares(from, to, amount) ==
  /\ from # to
  /\ amount <= pool.shares[from]
  /\ pool' = [pool EXCEPT !.shares[from] = @ - amount, !.shares[to] = @ + amount]
  /\ UNCHANGED <<status, requestId, delayExpiration, minClientTier, lockup,
                 worldVars>>

-----------------------------------------------------------------------------
(* Administration and the world                                            *)

\* Mistake: a pool forced down by a withdrawal may run again before it is paid.
MayChangeStatus_Hasty(new) ==
  /\ status # Terminated /\ new # status
  /\ new = Active =>
       \/ status = Created /\ pool.totalCost >= settings.minimumFundDeposit
       \/ status = Deactivating
  /\ new = Deactivating => status = Active

MayChangeStatus(new) ==
  /\ status # Terminated /\ new # status
  /\ new = Active =>
       \/ status = Created /\ pool.totalCost >= settings.minimumFundDeposit
       \/ status = Deactivating /\ pool.unprocessed = NoHash
  /\ new = Deactivating => status = Active

ChangePoolStatus(new) ==
  /\ fundStatus = FundActive
  /\ new \in Active..Terminated
  /\ MayChangeStatus(new)
  /\ status' = new
  /\ lockup' = IF new = Terminated THEN 0 ELSE lockup
  /\ UNCHANGED <<pool, requestId, delayExpiration, minClientTier, worldVars>>

SetLockupPeriod(period) ==
  /\ status = Created
  /\ period # lockup
  /\ lockup' = period
  /\ UNCHANGED <<pool, status, requestId, delayExpiration, minClientTier,
                 worldVars>>

SetMinClientTier(tier) ==
  /\ minClientTier' = tier
  /\ UNCHANGED <<pool, status, requestId, delayExpiration, lockup, worldVars>>

\* The controller leaves an arbitrary amount of a value token in the pool.
ProtocolAction(token, left) ==
  /\ ManagerActs
  /\ status <= Deactivating
  /\ pool' = [pool EXCEPT !.cash[token] = left]
  /\ delayExpiration' = now + settings.postActionDelay
  /\ UNCHANGED <<status, requestId, minClientTier, lockup, worldVars>>

ResetOracleRequestId ==
  /\ ManagerActs
  /\ requestId' = 0
  /\ UNCHANGED <<pool, status, delayExpiration, minClientTier, lockup, worldVars>>

\* UFarmFund.changeStatus by its owner.
ChangeFundStatus(new) ==
  /\ ~paused
  /\ new # fundStatus
  /\ fundStatus' = new
  /\ UNCHANGED <<poolVars, paused, now, issued, settings>>

SwitchPause ==
  /\ paused' \in PauseValues /\ paused' # paused
  /\ UNCHANGED <<poolVars, fundStatus, now, issued, settings>>

Tick ==
  /\ now < MaxTime
  /\ now' = now + 1
  /\ UNCHANGED <<poolVars, fundStatus, paused, issued, settings>>

-----------------------------------------------------------------------------
(* Settings                                                                *)

\* A change that changes nothing is refused (ActionAlreadyDone), or is no step.
ChangeSettings(new) ==
  /\ new # settings
  /\ settings' = new
  /\ UNCHANGED <<poolVars, fundStatus, paused, now, issued>>

SetCommissions(management, packed) ==
  LET steps == UnpackPerformanceCommission(packed) IN
  /\ ManagerActs
  /\ status = Created
  /\ management <= TEN_PERCENTS
  /\ ValidSteps(steps)
  /\ ChangeSettings([settings EXCEPT
        !.managementCommission = management,
        !.packedPerformanceFee = PackPerformanceCommission(steps)])

SetInvestmentRange(min, max) ==
  /\ fundStatus = FundActive
  /\ status <= Active
  /\ min <= max
  /\ ChangeSettings([settings EXCEPT !.minInvestment = min, !.maxInvestment = max])

SetProtocolCommission(commission) ==
  /\ commission <= TEN_PERCENTS
  /\ ChangeSettings([settings EXCEPT !.protocolCommission = commission])

\* The specific oracle set along with it is not modelled.
SetSpecificOracle(account, commission) ==
  /\ commission <= TEN_PERCENTS
  /\ ChangeSettings([settings EXCEPT !.specificCommission[account] = commission])

RemoveSpecificOracle(account) ==
  ChangeSettings([settings EXCEPT !.specificCommission[account] = NoCommission])

SetMinimumFundDeposit(minimum) ==
  ChangeSettings([settings EXCEPT !.minimumFundDeposit = minimum])

SetPostActionDelay(delay) ==
  ChangeSettings([settings EXCEPT !.postActionDelay = delay])

\* UFarmCore.protocolCommission() as the given account is told.
ProtocolCommission(account) ==
  LET specific == settings.specificCommission[account]
  IN  IF specific = NoCommission THEN settings.protocolCommission ELSE specific

\* The fees of an accrual: calculateFee runs in PoolAdmin and asks the core
\* from there.
Fees == [protocol   |-> ProtocolCommission("poolAdmin"),
         management |-> settings.managementCommission,
         packed     |-> settings.packedPerformanceFee]

-----------------------------------------------------------------------------
(* quexCallback: accrual                                                   *)

\* _accrueFee on the ledger l, whose totalCost is the oracle's answer.
AccrueFee(l) ==
  LET fee == CalculateFee(Fees, l.totalCost, l.highWaterMark,
                          now - l.lastAccrual, l.supply)
      minted == fee.sharesToUFarm + fee.sharesToFund
  IN  IF l.lastAccrual = 0
      THEN [l EXCEPT !.lastAccrual = now, !.highWaterMark = l.totalCost]
      ELSE [l EXCEPT
              !.highWaterMark = IF l.totalCost > @ THEN l.totalCost ELSE @,
              !.shares[Core]  = @ + fee.sharesToUFarm,
              !.shares[Fund]  = @ + fee.sharesToFund,
              !.supply        = @ + minted,
              !.lastAccrual   = IF minted > 0 THEN now ELSE @]

AccrualReverts(value) ==
  /\ pool.lastAccrual # 0
  /\ FeesRevert(Fees, value, pool.highWaterMark, now - pool.lastAccrual)

\* The core of the Quex network answers request id.  An answer to a request
\* the pool no longer awaits is rejected; an answer may come again and again.
BeginCallback(id, value) ==
  /\ stage = "idle"
  /\ id = requestId
  /\ ~AccrualReverts(value)
  /\ stage' = "deposits"
  /\ work' = AccrueFee([pool EXCEPT !.totalCost = value, !.answered = id])
  /\ totalDeposit' = 0
  /\ UNCHANGED <<poolVars, worldVars>>

-----------------------------------------------------------------------------
(* quexCallback: deposits                                                  *)

\* One more transfer for request hash, which may be no signed request.
Counted(transfers, hash) ==
  [r \in DOMAIN transfers |-> transfers[r] + (IF r = hash THEN 1 ELSE 0)]

\* Mistake: shares are rounded up.
Minted_RoundedUp(l, item) == SharesByQuote(item.amount, l.supply, l.totalCost) + 1

Minted(l, item) == SharesByQuote(item.amount, l.supply, l.totalCost)

\* Mistake: only the approval checks that a request is not used.
DepositDue_AnyHash(l, item) == Minted(l, item) >= item.minOutput

\* Not executed before, and enough shares for the investor.
DepositDue(l, item) ==
  /\ item.hash \notin l.usedDeposits
  /\ Minted(l, item) >= item.minOutput

NextDeposit ==
  /\ stage = "deposits"
  /\ work.depositQueue # <<>>
  /\ UNCHANGED <<stage, poolVars, worldVars>>

\* Used, too few shares, or the token transfer fails (also when due).
SkipDeposit ==
  /\ NextDeposit
  /\ work' = [work EXCEPT !.depositQueue = Tail(@)]
  /\ UNCHANGED totalDeposit

PullDeposit ==
  /\ NextDeposit
  /\ LET item == Head(work.depositQueue) IN
     /\ DepositDue(work, item)
     /\ work' = [work EXCEPT
           !.depositQueue = Tail(@),
           !.cash[item.token] = @ + item.amount,
           !.shares[item.investor] = @ + Minted(work, item),
           !.supply = @ + Minted(work, item),
           !.totalCost = @ + item.amount,
           !.usedDeposits = @ \cup ({item.hash} \ {NoHash}),
           !.pulls = Counted(@, item.hash)]
     /\ totalDeposit' = totalDeposit + item.amount

\* Mistake: deposits do not raise the high-water mark.
FinishDeposits_NoMark ==
  /\ stage = "deposits"
  /\ work.depositQueue = <<>>
  /\ stage' = "withdrawals"
  /\ UNCHANGED <<work, totalDeposit, poolVars, worldVars>>

FinishDeposits ==
  /\ stage = "deposits"
  /\ work.depositQueue = <<>>
  /\ stage' = "withdrawals"
  /\ work' = [work EXCEPT !.highWaterMark = @ + totalDeposit]
  /\ UNCHANGED <<totalDeposit, poolVars, worldVars>>

-----------------------------------------------------------------------------
(* quexCallback: withdrawals                                               *)

\* What must stay behind the fund's shares.
ValueToRemain(l, item) ==
  IF status < Deactivating THEN settings.minimumFundDeposit
  ELSE l.totalCost - l.cash[item.token]

\* Mistake: the stake is computed for every item.
MandatoryPanics_ForAll(l, item) == ValueToRemain(l, item) < 0 \/ l.totalCost = 0

\* The subtraction underflows, or the division is by zero.
MandatoryPanics(l, item) ==
  /\ item.investor = Fund
  /\ ValueToRemain(l, item) < 0 \/ l.totalCost = 0

\* Mistake: the fund may withdraw all it holds.
AvailableToWithdraw_NoStake(l, item) == l.shares[item.investor]

AvailableToWithdraw(l, item) ==
  LET mandatoryShares == (ValueToRemain(l, item) * l.supply) \div l.totalCost
      held            == l.shares[item.investor]
  IN  IF item.investor # Fund THEN held
      ELSE IF held > mandatoryShares THEN held - mandatoryShares ELSE 0

\* Mistake: only the approval checks that a request is not used.
WithdrawalDue_AnyHash(l, item) == item.amount <= AvailableToWithdraw(l, item)

WithdrawalDue(l, item) ==
  /\ item.amount <= AvailableToWithdraw(l, item)
  /\ item.hash \notin l.usedWithdrawals

BurnedCost(l, item) == (l.totalCost * item.amount) \div l.supply

\* Mistake: the recorded value is taken for what the pool holds.
Affordable_ByValue(l, item) == BurnedCost(l, item) <= l.totalCost

Affordable(l, item) == BurnedCost(l, item) <= l.cash[item.token]

\* The items on which the callback panics: the mandatory stake, the price of
\* a share of an empty supply, or a cost above the recorded total.
WithdrawalPanics(l, item) ==
  \/ MandatoryPanics(l, item)
  \/ /\ ~MandatoryPanics(l, item)
     /\ WithdrawalDue(l, item)
     /\ \/ l.supply = 0
        \/ /\ l.supply > 0
           /\ BurnedCost(l, item) >= item.minOutput
           /\ Affordable(l, item)
           /\ BurnedCost(l, item) > l.totalCost

NextWithdrawal ==
  /\ stage = "withdrawals"
  /\ work.withdrawQueue # <<>>
  /\ UNCHANGED <<poolVars, worldVars>>

Settles == UNCHANGED <<stage, totalDeposit>>

\* An investor's request that was executed, with or without a payment.
MarkExecuted(l, item) ==
  IF item.investor = Fund THEN l
  ELSE [l EXCEPT
          !.unprocessed = IF @ = item.hash THEN NoHash ELSE @,
          !.usedWithdrawals = @ \cup {item.hash},
          !.pending[item.hash] = 0]

\* Mistake: a skipped request is forgotten altogether.
DropPending_Forgotten(l, item) ==
  IF item.investor = Fund THEN l
  ELSE [l EXCEPT !.pending[item.hash] = 0,
                 !.unprocessed = IF @ = item.hash THEN NoHash ELSE @]

\* delete pendingWithdrawalsRequests[hash]
DropPending(l, item) ==
  IF item.investor = Fund THEN l ELSE [l EXCEPT !.pending[item.hash] = 0]

DequeueWithdrawal(l) == [l EXCEPT !.withdrawQueue = Tail(@)]

\* Too few shares left, or executed before.
SkipWithdrawal ==
  /\ NextWithdrawal /\ Settles
  /\ LET item == Head(work.withdrawQueue) IN
     /\ ~MandatoryPanics(work, item)
     /\ ~WithdrawalDue(work, item)
     /\ work' = DropPending(DequeueWithdrawal(work), item)

\* The payment is below the request's minimum, or the transfer out fails:
\* nothing is paid or burned, yet the request counts as executed.
RefuseWithdrawal ==
  /\ NextWithdrawal /\ Settles
  /\ LET item == Head(work.withdrawQueue) IN
     /\ ~MandatoryPanics(work, item)
     /\ WithdrawalDue(work, item)
     /\ work.supply > 0
     /\ BurnedCost(work, item) < item.minOutput \/ Affordable(work, item)
     /\ work' = MarkExecuted(DequeueWithdrawal(work), item)

\* The pool lacks the token: the request stays valid, the item goes.
DeferWithdrawal ==
  /\ NextWithdrawal /\ Settles
  /\ LET item == Head(work.withdrawQueue) IN
     /\ ~MandatoryPanics(work, item)
     /\ WithdrawalDue(work, item)
     /\ work.supply > 0
     /\ BurnedCost(work, item) >= item.minOutput
     /\ ~Affordable(work, item)
     /\ work' = DequeueWithdrawal(work)

PayWithdrawal ==
  /\ NextWithdrawal /\ Settles
  /\ LET item == Head(work.withdrawQueue)
         cost == BurnedCost(work, item)
     IN
     /\ ~WithdrawalPanics(work, item)
     /\ WithdrawalDue(work, item)
     /\ cost >= item.minOutput
     /\ Affordable(work, item)
     /\ work' = MarkExecuted([DequeueWithdrawal(work) EXCEPT
           !.cash[item.token] = @ - cost,
           !.shares[item.investor] = @ - item.amount,
           !.supply = @ - item.amount,
           !.highWaterMark = IF @ > cost THEN @ - cost ELSE 0,
           !.totalCost = @ - cost,
           !.payouts = Counted(@, item.hash)], item)

\* Mistake: what the callback did before the panic is kept.
RevertCallback_Commits ==
  /\ stage = "withdrawals" /\ work.withdrawQueue # <<>>
  /\ WithdrawalPanics(work, Head(work.withdrawQueue))
  /\ pool' = work
  /\ stage' = "idle" /\ work' = NoWork /\ totalDeposit' = 0
  /\ UNCHANGED <<requestId, status, delayExpiration, minClientTier, lockup, worldVars>>

\* A panic undoes the whole callback: the request stays outstanding and the
\* queues stay as they were.
RevertCallback ==
  /\ NextWithdrawal
  /\ WithdrawalPanics(work, Head(work.withdrawQueue))
  /\ stage' = "idle" /\ work' = NoWork /\ totalDeposit' = 0

\* Mistake: the request is still awaited after its answer.
FinishCallback_StillAwaited ==
  /\ stage = "withdrawals"
  /\ work.withdrawQueue = <<>>
  /\ pool' = work
  /\ stage' = "idle" /\ work' = NoWork /\ totalDeposit' = 0
  /\ UNCHANGED <<requestId, status, delayExpiration, minClientTier, lockup, worldVars>>

FinishCallback ==
  /\ stage = "withdrawals"
  /\ work.withdrawQueue = <<>>
  /\ pool' = work
  /\ requestId' = 0
  /\ stage' = "idle" /\ work' = NoWork /\ totalDeposit' = 0
  /\ UNCHANGED <<status, delayExpiration, minClientTier, lockup, worldVars>>

-----------------------------------------------------------------------------

Transaction ==
  \/ \E s \in Investors \cup {Fund}, a \in DepositAmounts, t \in Tokens :
       Deposit(s, a, t)
  \/ ApproveDeposits
  \/ \E t \in Tokens : ApproveWithdrawals(t)
  \/ \E a \in FundShares, m \in MinOutputs, t \in Tokens : WithdrawByFund(a, m, t)
  \/ \E r \in WithdrawRequests : RegisterWithdrawal(r)
  \/ \E r \in WithdrawRequests : ForceDeactivation(r)
  \/ \E r \in WithdrawRequests : QueueWithdrawal(r)
  \/ \E from \in Investors \cup {Core}, to \in Holders, a \in TransferAmounts :
       TransferShares(from, to, a)
  \/ \E new \in PoolStatus : ChangePoolStatus(new)
  \/ \E p \in LockupPeriods : SetLockupPeriod(p)
  \/ \E c \in ClientTiers : SetMinClientTier(c)
  \/ \E t \in Tokens, c \in CashLevels : ProtocolAction(t, c)
  \/ ResetOracleRequestId
  \/ \E new \in FundStatuses : ChangeFundStatus(new)
  \/ SwitchPause
  \/ Tick
  \/ \E c \in Commissions, p \in Schedules : SetCommissions(c, p)
  \/ \E r \in InvestmentRanges : SetInvestmentRange(r[1], r[2])
  \/ \E c \in Commissions : SetProtocolCommission(c)
  \/ \E a \in {"pool", "poolAdmin"}, c \in Commissions : SetSpecificOracle(a, c)
  \/ \E a \in {"pool", "poolAdmin"} : RemoveSpecificOracle(a)
  \/ \E m \in MinimumFundDeposits : SetMinimumFundDeposit(m)
  \/ \E d \in PostActionDelays : SetPostActionDelay(d)

\* One transaction at a time.
External == /\ stage = "idle"
            /\ UNCHANGED callbackVars
            /\ Transaction

Answer == \E id \in 1..issued, value \in OracleValues : BeginCallback(id, value)

Settlement ==
  \/ SkipDeposit \/ PullDeposit \/ FinishDeposits
  \/ SkipWithdrawal \/ RefuseWithdrawal \/ DeferWithdrawal \/ PayWithdrawal
  \/ RevertCallback \/ FinishCallback

Next == External \/ Answer \/ Settlement

Spec == Init /\ [][Next]_vars

\* The oracle answers a request it was sent with a value the pool accepts, as
\* long as there is one; a callback that started runs to its end.
FairSpec == Spec /\ WF_vars(Answer) /\ WF_vars(Settlement)

-----------------------------------------------------------------------------
(* Properties                                                              *)

\* Every variable keeps its type; a callback runs exactly when it has a copy
\* of the ledger to work on.
TypeOK ==
  /\ pool \in Ledger
  /\ status \in PoolStatus
  /\ requestId \in 0..issued
  /\ delayExpiration \in Nat /\ minClientTier \in Nat /\ lockup \in Nat
  /\ stage \in {"idle", "deposits", "withdrawals"}
  /\ work \in Ledger \cup {NoWork}
  /\ (work = NoWork) <=> (stage = "idle")
  /\ totalDeposit \in Nat
  /\ fundStatus \in FundStatus
  /\ paused \in BOOLEAN
  /\ now \in Nat \ {0}
  /\ issued \in Nat
  /\ settings \in Settings

\* The high-water mark never falls below the recorded value of the pool once
\* fees accrue, so that no deposit is ever taken for profit (_accrueFee,
\* quexCallback, _processWithdrawal).
HighWaterMarkCoversCost ==
  /\ pool.lastAccrual # 0 \/ pool.totalCost = 0
  /\ pool.highWaterMark >= pool.totalCost

\* A signed deposit request moves its investor's tokens at most once, and
\* exactly when it is marked used, whatever batches it is in, whichever
\* callbacks revert and however often it is approved again.
DepositRequestExecutedOnce ==
  \A r \in DepositRequests :
    pool.pulls[r] = IF r \in pool.usedDeposits THEN 1 ELSE 0

\* A signed withdrawal request is paid at most once, and then it is used; a used
\* one no longer waits for its lockup, whatever was registered again meanwhile.
WithdrawRequestPaidOnce ==
  \A r \in WithdrawRequests :
    /\ pool.payouts[r] <= IF r \in pool.usedWithdrawals THEN 1 ELSE 0
    /\ r \in pool.usedWithdrawals => pool.pending[r] = 0

\* The request that forced a deactivation is not executed yet, and while it is
\* remembered the pool is not running (withdraw, changePoolStatus).
UnprocessedKeepsPoolDown ==
  pool.unprocessed # NoHash =>
    /\ status >= Deactivating
    /\ pool.unprocessed \notin pool.usedWithdrawals

\* Only a withdrawal of the fund can make the callback panic: no queued
\* request of an investor can block the settlement of the others.
OnlyFundItemsPanic ==
  (stage = "withdrawals" /\ work.withdrawQueue # <<>>) =>
    LET item == Head(work.withdrawQueue)
    IN  WithdrawalPanics(work, item) => item.investor = Fund

\* Settling an item never lowers the value of a share: what the investors
\* who neither deposit nor withdraw own is not diluted by rounding.
SettlementNeverDilutes ==
  [][(work # NoWork /\ work' # NoWork /\ work.supply > 0) =>
        work'.supply * work.totalCost <= work.supply * work'.totalCost]_vars

\* While the pool is not winding down, burning shares of the fund leaves it
\* the minimum fund deposit, up to the value of one share.
FundKeepsMinimumStake ==
  [][(/\ PayWithdrawal /\ status < Deactivating
       /\ Head(work.withdrawQueue).investor = Fund
       /\ Head(work.withdrawQueue).amount > 0) =>
        (work'.shares[Fund] + 1) * work'.totalCost
           >= settings.minimumFundDeposit * work'.supply]_vars

\* Whatever schedules a manager submits, before and between accruals, no
\* accrual takes more of the profit over the high-water mark than the largest
\* commission (setCommissions, PerformanceFeeLib, calculateFee).
PerformanceFeeCapped ==
  [][(/\ stage = "idle" /\ stage' = "deposits"
       /\ pool.lastAccrual # 0 /\ now > pool.lastAccrual) =>
        LET net == NetOfTimeFees(Fees, work'.totalCost, now - pool.lastAccrual)
            fee == PerformanceFee(net, pool.highWaterMark, Fees.packed)
        IN  net > pool.highWaterMark =>
              fee * ONE_HUNDRED_PERCENT
                <= (net - pool.highWaterMark) * MAX_PERFORMANCE_FEE]_vars

\* An accrual takes from the other holders no more than the fees it reports, as
\* the answer values the shares afterwards, and what the core and the fund get
\* falls short of their fees by less than a share's rounding: the fund, which is
\* served last, pays the price of a supply with the core's shares in it
\* (calculateFee, _accrueFee).
AccrualTakesItsFees ==
  [][(/\ stage = "idle" /\ stage' = "deposits"
       /\ pool.lastAccrual # 0 /\ pool.supply > 0 /\ work'.totalCost > 0) =>
        LET value   == work'.totalCost
            fee     == CalculateFee(Fees, value, pool.highWaterMark,
                                    now - pool.lastAccrual, pool.supply)
            fundFee == (4 * (fee.performanceFee + fee.managementFee)) \div 5
            coreFee == fundFee \div 4 + fee.protocolFee
            toCore  == work'.shares[Core] - pool.shares[Core]
            toFund  == work'.shares[Fund] - pool.shares[Fund]
        IN  /\ (toCore + toFund) * value
                 <= (fee.protocolFee + fee.managementFee + fee.performanceFee)
                      * work'.supply
            /\ coreFee * pool.supply < (toCore + 1) * value
            /\ fundFee * (pool.supply + toCore) < (toFund + 1) * value]_vars

\* The request that forced the deactivation is forgotten only once executed.
UnprocessedClearedByExecution ==
  [][(pool.unprocessed # NoHash /\ pool'.unprocessed # pool.unprocessed) =>
        pool.unprocessed \in pool'.usedWithdrawals]_vars

\* An answer is applied once, and never after the answer to a later request:
\* neither a repeated answer nor a late one, after the manager has reset the
\* request, values the pool again (quexCallback, resetOracleRequestId).
AnswersAppliedOnceInOrder ==
  [][(stage # "idle" /\ pool' # pool) => pool'.answered > pool.answered]_vars

Waiting == pool.depositQueue # <<>> \/ pool.withdrawQueue # <<>>

\* Only a manager's reset leaves queued items without an oracle request that
\* will settle them (sendQuexRequest, quexCallback, resetOracleRequestId).
OnlyResetOrphansTheQueues ==
  [][(Waiting' /\ requestId' = 0 /\ (requestId # 0 \/ ~Waiting))
       => ResetOracleRequestId]_vars

\* With a fair oracle and no withdrawal of the fund in the queue, whatever
\* waits for an outstanding request is settled, unless a manager resets it.
QueuesAreSettled ==
  (Waiting /\ requestId # 0) ~> (~Waiting \/ requestId = 0)

-----------------------------------------------------------------------------
(* What the documentation says and the code does not do                    *)

\* ARCHITECTURE.md: a pool cannot be activated without the minimum deposit.
ActivatedWithMinimumDeposit ==
  [][(status # Active /\ status' = Active)
       => pool.totalCost >= settings.minimumFundDeposit]_vars

\* UFarmCore.sol: a specific oracle is set with a commission for the pool.
SpecificCommissionApplies ==
  settings.specificCommission["pool"] # NoCommission =>
    Fees.protocol = settings.specificCommission["pool"]
=============================================================================
