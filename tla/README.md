# A TLA+ model of the UFarm EVM contracts

This directory holds TLA+ modules that model the UFarm contracts, the scripts
that deploy them and the tools their operators use, TLC configurations that
check them on small instances, and proofs of the main safety properties that
TLAPS checks for every value of the constants. Paths below are relative to the
repository; `pool/…`, `fund/…`, `core/…`, `oracle/…`
and `permissions/…` abbreviate `contracts/main/contracts/…`.

## 1. Inventory

| Component | State it keeps | Operations that change it | Interacts with |
|---|---|---|---|
| **UFarmPool** (`pool/UFarmPool.sol`) | status, recorded total cost, high-water mark, last accrual, ERC20 shares, deposit and withdrawal queue, used and pending request hashes, the request that forced a deactivation, outstanding oracle request, action delay, client tier | deposit, approveDeposits, approveWithdrawals, withdrawByFund, withdraw, protocolAction, changeStatus, resetOracleRequestId, setMinClientTier, quexCallback, signMessage, setUseArbitraryController | PoolAdmin (permissions, fees, status), UFarmFund, UFarmCore (pause, minimum deposit, delay, oracle), PriceOracle (requests), Quex core (callback), controllers (delegatecall) |
| **PoolAdmin** (`pool/PoolAdmin.sol`), **PerformanceFeeLib** | pool configuration: commissions, packed fee schedule, investment range, lockup; the pool's permissions | changePoolStatus, setCommissions, setLockupPeriod, setInvestmentRange, updatePermissions; calculateFee (view) | UFarmPool, UFarmFund's permissions, UFarmCore's commission |
| **UFarmFund** (`fund/UFarmFund.sol`) | status, pools, members' permissions, accepted invitations | acceptInvitation, updatePermissions, createPool, changeStatus, depositToPool, withdrawFromPool, withdrawAsset, approveAssetTo | pools, PoolFactory, UFarmCore |
| **UFarmCore** (`core/UFarmCore.sol`), **CoreWhitelist** | pause, minimum fund deposit, protocol commission (global and specific), action delay, specific oracles, funds, operators' permissions; whitelisted tokens, value tokens, protocols | switchPause, setters, createFund, updatePermissions, whitelist and blacklist | everything reads it |
| **Permissions** (`permissions/UFarmPermissionsModel.sol`) | one bit mask per account | _updatePermissions | base contract of core, fund and PoolAdmin |
| **PriceOracle** (`oracle/PriceOracle.sol`) | Quex core, flow of each pool, versions | setQuexCore, setQuexFlow, quexRequest | pools, Quex core |
| **Controllers** (`controllers/…`) | none | encoding of swaps and liquidity calls | delegatecalled by pools |
| **Guard2** (`controllers/ArbitraryController/Guard2.sol`) | directives of the calls to each address of a dapp, directives of the messages of a domain | whitelistProtocol, unwhitelistProtocol, whitelistEIP712, unwhitelistEIP712; isProtocolAllowed, eip712Hash (views) | the arbitrary controller and the pools ask it; operators list what the guard scripts print |
| **Guard scripts** (`scripts/…GuardDir.ts`, `scripts/encodeEIP712Singature.ts`) | none | print directives for a call, a method or a message; say whether a directive allows a call | Guard2 |
| **Deployment** (`deploy/…`, `scripts/_deploy_helpers.ts`) | the records of what was deployed, a file per contract | the scripts of the tags TestEnv, SepoliaEnv and ProductionENV, run for every release, and again after a failure | everything above: initializers, whitelist of tokens and controllers, funds and pools of the test environments |
| **Factories, whitelist views, proxies, helpers** | beacons | deployments | core and funds |

A *deposit* and a *withdrawal* do not move anything: they are queued and one
oracle request is made for all of them (`sendQuexRequest`). When Quex answers
with the value of the pool, `quexCallback` accrues fees, executes the deposit
queue, executes the withdrawal queue and clears the request. Investors reach the
queues directly (`deposit`, `withdraw`) or by signed requests that a manager
submits in batches.

What is hard here:

* **validated now, executed later**: everything `deposit`, `approveDeposits`,
  `withdraw` check may have changed when the answer comes (status, pause, shares,
  used requests, duplicates in the queue);
* **the answer**: late, repeated, never, after a reset and a newer request;
* **one item failing**: a token transfer that fails must drop only its own item,
  but a checked subtraction or a division by zero undoes the whole callback;
* **rounding and the high-water mark** across mints, burns and fees;
* **long sequences of legal calls**: lockups, forced deactivation, restart,
  resets; permissions granted, revoked and granted again by old invitations;
* **a deployment that ends half-way**: transactions that fail or whose receipt is
  lost, a process that ends between a transaction and its record, or between two
  of the writes that replace a record; the next run knows only the records and
  the chain;
* **one format, five readers**: a directive is printed by one script, checked by
  another, measured by one loop of Guard2 and matched by the next.

What makes each part correct:

* pool: a signed request is executed once; fees are paid in shares worth what
  they are; nobody is diluted; no fee on deposits; investors cannot block each other; the fund's stake stays;
  the queues are settled; answers are applied once and in order;
* pool administration: the pool is activated only when funded; the configuration
  a pool runs with is one that `calculateFee` can read;
* fund and core permissions: an owner remains; nobody gains what no authorised
  account gave; an invitation is used once;
* whitelist: value tokens are whitelisted tokens; a protocol has a controller;
* oracle: a request of a pool is answered for the flow registered for it;
* deployment: what is recorded is wired to what is recorded; published addresses
  stay; running the scripts again completes what a failed run began;
* guard: what the scripts print allows what it was printed for, the validator
  says what the contract will say, the digest of a message is the standard's.

`PROJECT.json` lists every component and every hazard with its line.

## 2. Modules

| Module | Models |
|---|---|
| `PoolFees` | the pure arithmetic: share price, packed schedule, commission of a rate, `calculateFee` |
| `UFarmPool` | one pool with its settings, the fund's status, the platform's pause, time and the oracle around it; extends `PoolFees` |
| `MCUFarmPool` | instances for TLC, the lockup's documented maximum |
| `FundPermissions` | the permission masks of a fund: updates and signed invitations |
| `MCFundPermissions` | its instance for TLC |
| `QuexFlow` | several pools, their oracles, the Quex cores: flows, versions, requests, specific oracles |
| `MCQuexFlow` | its instance for TLC |
| `SharePool` | what a pool promises the holders of its shares: the abstract specification |
| `UFarmPool_refinement` | the mapping under which `UFarmPool` implements `SharePool` |
| `DeployScripts` | the deployment scripts as data: the steps of each, their dependencies, the order that follows, in three environments |
| `Deployment` | what the steps do: transactions, records, failures, crashes, releases; extends `DeployScripts` |
| `MCDeployment` | its instance for TLC |
| `Directives` | the directives of calls: Guard2's two loops as functions of bytes |
| `TypedData` | typed messages (EIP-712): Guard2's stack machine; extends `Directives` |
| `Guard2` | the two lists of Guard2 and the operations on them; extends `TypedData` |
| `GuardScripts` | the operators' scripts that extract and validate the directives of a call, and what relates them to Guard2; extends `Guard2` |
| `SignEncoder` | the script for typed messages, the standard's hash, and what relates them to Guard2; recursive functions over messages; extends `Guard2` |
| `GuardEncoders` | the script that encodes directives from a method's signature, and what relates it to Guard2; recursive functions over types; extends `GuardScripts` and `SignEncoder` |
| `MCGuard2` | its instance for TLC |
| `Recursion_proofs` | running sums along a list of a finite set's members, and loops, have solutions, and what follows from one round at a time |
| `UFarmPool_proofs` | the fee arithmetic with the bound on the performance fee; the type invariant, proved inductive, with the sum of the shares; the pool's safety and action properties, proved |
| `UFarmPool_refinement_proofs` | the refinement, proved |
| `Guard2_proofs` | what stays true of Guard2's lists, and that its two loops agree with each other and with the scripts, proved |
| `GuardEncoders_proofs` | Guard2 hashes messages as the standard does, what the script composes for them allows what its tags say, and what is encoded for a method allows its calls, proved for messages and types of any depth |
| `FundPermissions_proofs` | the properties of the permissions, proved |
| `QuexFlow_proofs` | the properties of flows and requests, proved |
| `Deployment_proofs` | the safety properties of the deployment and that undisturbed runs end, proved for all scripts whose steps are in order |

### UFarmPool: state

`pool` is a record, the *ledger*, of all the storage `quexCallback` rewrites:

| Field | Code |
|---|---|
| `totalCost`, `highWaterMark`, `lastAccrual` | `_totalCost`, `highWaterMark`, `lastAccrual` |
| `supply`, `shares` | the ERC20 supply and balances |
| `cash[t]` | `IERC20(t).balanceOf(pool)` for a value token `t` |
| `depositQueue`, `withdrawQueue` | the queues, items as `QueueItem` |
| `usedDeposits`, `usedWithdrawals` | `__usedDepositsRequests`, `__usedWithdrawalsRequests` |
| `pending[r]` | `pendingWithdrawalsRequests[r]` |
| `unprocessed` | `unprocessedWithdraw` |
| `pulls`, `payouts`, `answered` | not in the code: transfers made per signed request, last request whose answer was applied |

`status`, `requestId`, `delayExpiration`, `minClientTier` are the pool's other
storage; `lockup` is `poolConfig.withdrawalLockupPeriod`; `fundStatus`, `paused`
and `now` are `UFarmFund.status`, `UFarmCore.isPaused` and the block's time;
`issued` counts the oracle requests (their ids are 1, 2, …). `settings` holds
what PoolAdmin and the core keep and the pool reads: the rest of `poolConfig`,
the core's commission, the specific commissions by the address that asks for
them (the pool or its admin), the minimum fund deposit and the action delay.

### UFarmPool: actions

Every external call is one atomic action whose guard is the conjunction of the
checks that make it revert. The exception is the callback, one action per queue
item: `BeginCallback` (id check, recorded value, accrual) copies the ledger to
`work`; `SkipDeposit`, `PullDeposit`, `FinishDeposits`, `SkipWithdrawal`,
`RefuseWithdrawal`, `DeferWithdrawal`, `PayWithdrawal` work on the copy;
`FinishCallback` commits it and clears the request, `RevertCallback` drops it.
While `stage # "idle"` no other action is enabled (the EVM runs one transaction
at a time), so the steps are a fine-grained view of an atomic call, which lets a
property speak of every single item. What the rounds of the loops do to one
item is in `DepositDue`, `WithdrawalDue`, `AvailableToWithdraw`,
`WithdrawalPanics`, `MarkExecuted` and `DropPending`, each the translation of
the lines `map` gives.

`withdraw(request)` is three actions, one per branch: `RegisterWithdrawal`
(first call with a lockup), `ForceDeactivation` (the lockup is over and the pool
runs), `QueueWithdrawal`. Its branch for the fund as the request's signer is
never taken, since the fund is a contract and its withdrawals go through
`withdrawByFund`.

Abstractions: who holds the permission a manager's action needs; the investors'
wallets (any transfer may fail: `SkipDeposit` and `RefuseWithdrawal` are always
possible); positions in other protocols (`ProtocolAction` leaves any amount of a
value token); the feed (any value of `OracleValues`); signatures (a request is
named by its digest, so one that recovers to another account is another
request).
What a pool knows of the oracle (its address, its flow) is the module
`QuexFlow`; here a request is one of a stream of ids. Amounts are natural numbers, with Solidity's panics at zero kept as
`FeesRevert` and `WithdrawalPanics`; overflow at 2^256 is left out.

The settings change by one action per setter (`SetCommissions`,
`SetInvestmentRange`, `SetProtocolCommission`, `SetSpecificOracle`,
`RemoveSpecificOracle`, `SetMinimumFundDeposit`, `SetPostActionDelay`), at any
moment between two transactions. `Fees` is what `calculateFee` reads when the
answer comes, so a change applies to the time since the last accrual.

### FundPermissions

`mask` is `_accountMask` (a mask is the set of its bits; the bits that no check
names are `OtherPermissions`), `acceptedInvites` is `__acceptedInvites`.
`CanUpdatePermissions` is `_canUpdatePermissions` with its three cases: a change
of the Owner bit, a change by an owner, a change by a manager of permissions.
`UpdatePermissions` and `AcceptInvitation` are the two functions that reach
`_updatePermissions`; an invitation's digest covers invitee, mask and deadline,
not the inviter, so any account may have signed it and the action is
parameterised by who has. `delegated` (the bits owners have given so far) and
`acceptances` (how often each digest was accepted) exist for the properties.
The permissions are independent of the pool's state: `UFarmPool` lets any
manager's action happen that its other checks allow.

### QuexFlow

`oracle[o]` is the storage of a `PriceOracle` (`quexCore`, the action data as a
`feed`, `quexFlowVersion`), `specificOracle` the core's mapping, `pool[p]` the
three variables of a pool that `sendQuexRequest` and `quexCallback` use. `flows`
and `requests` are what the Quex cores, which are not in the repository, must
remember: numbered from 1 per core, a request refused if its flow is not known
(`Flow_NotFound` in `IQuexActionRegistry.sol`), the answer sent to the flow's
consumer, at any time, any number of times. `sendQuexRequest` with
`createFlow` and `quexRequest` is one action in two forms, for the flow the pool
has and for a new one. `origin` remembers for the properties which oracle a
pool's flow and its last request are from. Left out: the subscription number,
gas, and flows that accounts other than pools register, whose requests
`quexRequest` refuses.

### SharePool

The abstract pool has shares, a set of waiting deposits and one of waiting
withdrawals, and the requests that were executed. All that waits is settled in
one step, `Settle`, in which only those whose deposits waited gain shares (the
fund and the core also by fees) and only those whose withdrawal was consumed lose
any; shares move otherwise by transfers of their holder alone. The pool
implements it under the mapping that reads the queues as sets and does not look
at the callback's working copy: the begin of a callback, every item and a revert
are stutters, the commit is `Settle`.

### Deployment

A run (`pc`, `step`, `phase`, `failures`, `plan`) goes through the steps of the
scripts in the order hardhat-deploy gives them, which `DeployScripts` computes
from the tags and the dependencies each script declares. A step looks at the
records and the chain (`Needed`), sends its transaction (`Transact`) and, if it
deployed something, writes the record (`Save`). `records` and `newRecords` are
the files of `deployments/<network>/`, under a contract's name and under the name
with `_NEW`; `chain[n]` holds the instances of a contract, each with the release
of its code and the addresses it was given; `core` is what the scripts read of
and write to UFarmCore; `facts` are effects that need no more than a name; and
`deposits` the seed money of the test pools.

Every attempt may fail with and without being mined; a transaction the chain
refuses is refused by all attempts and ends the run; the process may end between
any two steps (`Crash`), and between the three writes that replace a record
(`ForgetRecord`, `RewriteRecord`, `DropNewRecord`). When one of the writes fails,
the script of the oracle restores the old record; that of the controllers has no
`try` around them, so the process ends (`Crash`). The contracts have immutable variables, so the comparison of the chain's
code with the artifact never succeeds: every run upgrades all proxies and
redeploys the replaceable controllers.

Facts about the scripts that the model makes visible, none of them a statement
a document makes:

* the credentials of the Lido mock are set under an inverted condition
  (`deploy/3_deploy_lido.ts:73-90`) and therefore never; the step that sets the
  Quex core, and in production the one that sets the action delay, have nothing
  to do, because an initializer did it;
* an uninitialised UUPS proxy has no owner and is not upgraded, which is why the
  initializers of a failed run can still be sent by the next one;
* a complete run may whitelist a controller of an earlier release, when a `_NEW`
  record stayed behind;
* the Uniswap V2 controller, the factories and the mocks are never replaced;
* `createFund`, unlike `createPool`, has an address that depends on nothing that
  changes: after a lost receipt the retry is refused, and so is every later run
  (`FundWedged`);
* delisting a token to give it a new oracle is undone by a later script; if the
  new oracle's record was not written, listing finds the old one (`FeedWedged`).

Three things are taken for granted. A step's transaction is mined before the next
step, also where a script does not wait for it (`22_deploy_wsteth_oracle.ts:57`
and others): a delisting mined late could let `70_whitelist_tokens.ts` see the
token as listed and leave it unlisted afterwards, so `FeedsFollowRecords` and
`EventuallyComplete` speak of chains that are not slower than the scripts. The
deployer owns the core, so that the scripts of the two live environments do not
return early (`1000_prepare_arb_sepolia_env.ts:51-59`, `2_deploy_ufarm.ts:49-57`).
And in production nobody else sets the minimum deposit, which the script sets
only if it is zero (`2_deploy_ufarm.ts:59-61`).

Left out: repeated calls of `setMinClientTier`, top-ups of test balances, the
demonstration withdrawals of `100_test_env_setup.ts:330-356`, and everything
that only prints.

### Guard2, GuardScripts, SignEncoder and GuardEncoders

A blob of directives is a sequence of bytes, and so is a call. The lengths of
words, addresses and selectors, and the largest span of a header, are constants,
so that the instance can have words of 3 bytes where the code has 32 and still
meet every case: padded and packed addresses, runs longer than a header can say,
patterns across words. `PayloadLength` and `Match` are the two loops of Guard2,
`Validate`, `Generate` and `Encode` the three scripts, `Compose` and `Ops` the
script for messages, `EIP712Hash` the stack machine, each written as a function
of the positions the code's loop keeps; `Canonical` is the hash EIP-712 defines,
by which the stack machine is judged. Hashes are free constructors. A message is
a tree of values (`Values`, of the given `Depth`), and so is an input of a method
with its components (`Inputs`, `InputDepth`); what the scripts make of them are
recursive functions of the values and of the inputs.

The state is the list of one dapp and of one domain: the mappings keep others
apart. The operators' permission is not modelled. `whitelistProtocol` accepts a
blob that ends within its exact bytes; asking about a call of its length may then
panic, and so may a call that is too short for an entry for any length. Entries
behind such a one are not reached. `RunsOut` says for which calls an entry does
that, with the place where its directives end (`EndOf`); `EntriesAreSound` says
that no other panics, and what the scripts promise is stated for an entry that has
nothing else ahead of it (`Admits`).

`ProcessInput` takes every type `encodeGuardDir.ts` takes: words, bytes and
tuples with any brackets, components and tags. It does what the script does with
them: only the last bracket counts (`LastDim`), a type is dynamic if that bracket
is empty or if it is plain `bytes` (`HasDynamic`, also by a component), a span that
is too long runs into the type bits, or beyond the byte, of its header (`Or`,
`SpillingHeader`, `Printed`). `IsDynamic` and `WordsOf` are the ABI's view of the same type.
`Supported` names the inputs for which both agree: if the type is of fixed size,
one bracket; if it is dynamic, `bytes` or a last bracket that is empty; a tag only
on a single word. `EncodedDirectivesAllow` is claimed for
methods of these, with whatever tail their calls have. For the others
(`string[2]`, `uint256[2][3]`, tuples with a `string`, tagged arrays) the script
prints directives for another layout and nothing is claimed.

`EIP712Hash` runs on operations as the script composes them: the reverts on
truncated operations and unknown opcodes and the check of the domain
(`Guard2.sol:314-319`, `:347`, `:375`, `:423`) are left out.

Left out as well: parsing of arguments and files, sending of the transaction;
patterns that are empty (the script does not end) or longer than a header can
say.

## 3. What the runs check

Amounts in the instances are in units of `ONE = 4`, one period is one year and
100% is 4, so that a single step of TLC's clock accrues a fee and a division
rounds. Each run asks one question, and its bounds are the smallest at which the
interesting case was seen to happen (a mutant of the code that breaks the
property is listed for each in `PROJECT.json`).

| Run | Question | Why the bounds are enough |
|---|---|---|
| `pool_requests` | Is a signed request executed at most once, and what is remembered of it consistent? | queues of 2 hold the same request twice; 3 oracle requests allow approve, settle or defer and approve again; 2 time steps: registration and end of a lockup; shares given away make a request fall short |
| `pool_fees` | Are fee shares worth the fees, does the mark cover the value, is nobody diluted, is the performance fee bounded? | 3 time steps and 3 answers: first accrual, an accrual with profit, one with a loss, with mints and burns between; schedules within and above the largest commission, and out of order |
| `pool_emergency` | Are answers applied in order, do queues get orphaned, can an item block the queue, does the fund keep its stake? | pauses, terminated fund, resets, two requests so that a late answer, a current one and a repeated one occur; a request and a verification that expire; the minimum deposit is zero at first, so that two requests make an investor or the fund deposit and withdraw; cash of 0 or 3 against values of 0, 2, 3 gives every sign of "value minus cash" |
| `pool_settles` | Are queued items settled? | liveness, two items per queue, transfers that fail, a value of zero |
| `fund_permissions` | Does an owner remain, do rights come from owners, is an invitation used once? | three accounts: an owner, one who becomes owner and removes the first, a member; invitations to two of them, signed by anybody |
| `quex_flow` | Is a pool's flow current, can its request be answered? | two oracles and two cores whose versions and ids coincide, two feeds, three requests per core |
| `deployment` | Is what is recorded wired to what is recorded, do addresses outlive releases, does the core follow the records, does a command that is started again in the end complete? | all scripts of three environments, with four tokens (the ones the scripts treat differently), one pair and one member; three releases, so that a `_NEW` record is made, promoted and made again; a fault at every step, of every kind, and two in production |
| `guard_tools` | Do the two loops, the scripts and the standard agree on which calls and messages are allowed? | two addresses, one of them a token, two pools; two entries of all lists together, so that one is moved by unlisting another; every directive the scripts print for the calls, for ten methods, five of which have inputs that are not supported, and for the messages, and eleven written by hand, acceptable and not, one cut off and one for any length, so that both kinds of panic occur; messages with nested structs and arrays, one of them too long for its buffer |
| `doc_minimum`, `doc_commission`, `doc_restart`, `doc_buffer` | Four statements of the documentation the code does not keep | the shortest counterexample |

Bounds in guards: `MaxTime` (clock), `MaxRequests` (oracle requests; a call
that would need one more is disabled), `MaxVersion` (feeds set per oracle;
releases of the contracts), `MaxFaults` (failed or lost attempts, failed writes
and crashes), `MaxInstances` (instances of a contract when a run begins) and
`MaxListed` (entries of Guard2's lists). Deadlock is checked in every run but
`deployment`, which stops when the last release is deployed.

### Fairness

`FairSpec` assumes weak fairness of `Answer` and of `Settlement`. The second is
the EVM itself: a transaction runs to its end. The first is the service the
oracle network provides: as long as a request is outstanding and some value is
acceptable to the pool, it is answered. Nothing is assumed of investors and
managers. `pool_settles` has no withdrawals of the fund, because these can make
every answer revert (hazard at `UFarmPool.sol:970`); `OnlyFundItemsPanic` shows
that nothing else can.

`Deployment` assumes that a run goes on (`WF_vars(Run)`: a script that waits for
nobody) and that somebody starts the next one while the last has not completed
(`WF_vars(Start)`). Neither says that a transaction succeeds; that is what
`MaxFaults` is for: `EventuallyComplete` speaks of what follows the last fault.

### Findings

* `doc_minimum`: a pool without the minimum deposit can be activated by way of
  Deactivating; `ARCHITECTURE.md:116` says this cannot happen.
* `doc_commission`: a specific commission set for a pool's address is never
  used, because `protocolCommission()` answers by its caller and the caller is
  the pool's admin; the comment at `UFarmCore.sol:379-384` says it is set for the
  pool.
* `doc_restart`: `60_init_contracts.ts` initialises the oracle and the core under
  one condition that reads the core; a run that ends between the two leaves a
  core that no run initialises. The comment at line 94 says that it is
  initialised if any of its addresses is not set.
* `doc_buffer`: `eip712Hash` sizes its buffer for "2 bytes per frame in the worst
  case" (`Guard2.sol:331`), but an empty array has two bytes of operations and
  leaves one word: a message with six empty arrays panics. For messages without
  empty arrays the comment is true (`BufferSufficesForFullArrays`).

Other places where the model follows the code and a document says otherwise,
each visible in the modules named, without a run of its own: the callback settles
the queues of a paused platform (`ARCHITECTURE.md:32`; `BeginCallback` has no
guard on `paused`); a refused withdrawal consumes its request
(`ARCHITECTURE.md:243`; `RefuseWithdrawal`); no lockup is bounded by
`MAX_LOCKUP_PERIOD` (`ARCHITECTURE.md:104`, `:124`; `SetLockupPeriod`); versions
are counted per oracle, so with a new specific oracle of an equal version a pool
asks for the flow of another oracle (`ARCHITECTURE.md:343`; `SetSpecificOracle`
of `QuexFlow`); a call that an entry allows panics when an entry ahead of it runs
out, although the NatSpec promises "true" (`Guard2.sol:211`; `RunsOut`); a method
with a fixed array of a dynamic type, such as `string[2]`, gets no wildcard for any
length, although a comment says that methods with dynamic types do
(`encodeGuardDir.ts:133`; `HasDynamic`).

## 4. What is proved

All theorems are about `Spec` for every value of the constants that satisfies
the assumptions `FeeUnitsAssumption`, `PoolAssumption` and `NoWorkAssumption`
(the pool), `PermissionsAssumption` (the fund's permissions), `QuexAssumption`
(flows), `GuardAssumption` and the assumptions of `Directives`, `GuardScripts`,
`SignEncoder` and `GuardEncoders` (the guard and its scripts), or `DeploymentAssumption`, `OrderAssumption`,
`AcceptanceAssumption` and `FeedsAssumption` (the deployment): any finite set of
investors, any queue limit, amounts, values, fees, settings and clock; any
accounts, bits and invitations; any addresses, calls, directives, messages and methods; any tokens,
releases and number of faults. None of the proofs uses fairness.

`TypeInv` (`UFarmPool_proofs`) is the inductive invariant everything rests on.
`TypeOK` alone is not inductive: that `PayWithdrawal` leaves `supply` and
`shares` natural needs that a holder's shares are at most the supply, hence that
all shares add up to it (`SharesSumUp`, in the committed and in the working
ledger: what ERC20 guarantees, and no claim about the pool); that `totalCost` stays natural needs `WithdrawalPanics`; and the items
of a queue must have their own type. The sum is the last value of a running sum along a list of
the holders, which exists because the set is finite (`Recursion_proofs`); only
its behaviour under a change of one or two summands is used.

The last section of `UFarmPool_proofs` proves each safety property from `TypeInv` and, where it is
not inductive by itself, from a strengthening to the working copy of a running
callback: a copy keeps the same relation as the ledger (used and paid requests,
pending and used ones), and while deposits are running the mark plus the running
total of deposits covers the value (`HighWaterMarkCoversCost`). `NobodyIsDiluted`
and `FundStakeKept` are facts about rounding: floor division in `Minted`,
`BurnedCost` and `AvailableToWithdraw` always rounds for the pool.
`AnswersInOrder` needs that the awaited id is above every answered one,
`OnlyResetOrphans` that every action that queues leaves a request outstanding.

`UFarmPool_refinement_proofs` proves that the pool implements `SharePool`. The
invariant it adds to `TypeInv`, `Settling`, says of a running callback that what
its copy differs in from the committed ledger is within one step of `Settle`:
whoever has more shares in the copy had a deposit in the queue (or is paid fees),
whoever has fewer had a withdrawal in the queue that the copy has consumed, and
used requests came from the queues. Every item keeps it, `FinishCallback` turns
it into the abstract step, all other actions of the callback map to stutters.

The first section of `UFarmPool_proofs` proves that a performance fee never exceeds the largest
commission of the profit it is taken from, for a schedule whose words are within
that commission, and that packing what was unpacked gives the same schedule.
`AccrualsFairlyPriced` proves `AccrualTakesItsFees`. A purchase of shares is
rounded down by less than a share (`SharesRoundDown`), and two purchases of which
the second is priced at the supply that the first one left take from the holders
no more than what was paid for both (`PurchasesNeverOverpaid`): the fund's shares
are priced with the core's in the supply, and nothing but the two is minted
(`AccrueFeeMints`).
`FeesCapped` joins the cap of the fee to the pool: `FeesInv` says that the schedule in force is
always such a one, since the pool is created with one and `SetCommissions`, by
`PackUnpack`, lets in no other.

`FundPermissions_proofs` needs one inductive invariant, `PermissionsInv`: types,
an owner, and for every account either ownership or a mask of delegated bits.
The lemma `MaskChange` covers both actions that write a mask: the owner who
changes another's Owner bit stays one, and whoever else changes a mask stays
within its own.

`QuexFlow_proofs` needs `QuexInv`: the flow of a pool and its outstanding
request are both known to the core of the oracle they are from, the flow's
version is not ahead of that oracle's, and equal only with the oracle's feed.
`SendKeepsHome` is the step that registers and requests; every other action is a
`QuietStep`, because `setQuexCore` cannot replace a core and versions only grow.

`Guard2_proofs` begins with the lists: they stay within their limits and hold
only accepted directives (`GuardInv`), and because listing appends and unlisting
moves the last entry to the place of the removed one, an address gets on
FROM_LIST's list, or off it, only with its first entry. (What an address counts
for when its first entry is removed is decided by the entry that takes its
place, and may so change either way: that is what the code does, and the
statement allows it.) The rest is about the
loops over bytes. Guard2 walks a blob twice, once to measure the calls it covers
(`LengthLoop`) and once to compare one (`MatchLoop`), and the scripts walk it or
build it their own way. Each loop is a recursive function of the place it is at;
`LoopHasSolution` (`Recursion_proofs`) says that such a function satisfies its
own equation when every round goes forward, and the proofs go backward over the
places, from the end of the blob to its begin, by the round alone:

* `LengthsStaySound`: what is stored with an entry is the length of the calls
  its directives cover, and an entry panics only for calls for which it runs out
  (`EntriesAreSound`): a panic at a place means that what follows ends beyond the
  blob or the call (`PanicsBeyondTheEnd`), and an entry for one length ends where
  the call does (`LengthIsTheEnd`);
* `ValidatorAgreement`: the validator's verdict on a blob and a call is the
  contract's, panics included (`ValidatorAgrees`);
* `PrintedDirectivesAllow`: the directives that `extractGuardDir.ts` prints for
  a call allow that call once they are listed, unless an entry ahead of them runs
  out and panics (`ExtractedDirectivesAllow`). Its lemma is that `Generate` emits, for
  the bytes between two addresses, runs that `MatchRound` skips or finds equal.

`GuardEncoders_proofs` is about messages and methods. A value is a tree, and the functions of it
(`Canonical`, `Ops`, `Fields`, `Slots`) satisfy their equations because the
items of a value are less deep than it (`ValuesAssumption`). The library's
induction theorems take an operator, so the induction over trees is made of
sets: the depths at which a property fails have no least member. What
`eip712Hash` does to a value is stated of every state a run can be in (`Reads`):
if there is room for the slots of the value, the run ends with the value's hash
on top of the words it had and with the frames it had; otherwise with a panic.
It is proved for a value from the same statement about its items, one after the
other (`ReadsItems`), and the whole run is the case of the empty buffer.

* `DigestsAreCanonical`: the hash is the standard's and a digest is given exactly
  if a single directive allows every field, or the run panics because the
  message does not fit (`DigestIsCanonical`);
* `TagsMeanWhatTheySay`: what the script composes for a message allows the
  messages whose fields are as the operator's tags say, and no other
  (`ComposedMeansTags`);
* `BufferSufficesForFullArrays`: the buffer suffices when no array is empty. A
  value then needs no more slots than its operations carry words.

It also needs that no message has the hash 0, by which the code says that there is
no digest (`HashAssumption`).

Its last part is about `encodeGuardDir.ts`. The inputs of a method are trees too,
and what is emitted for an input suits the input's words (`Suits`): wherever the
directives stand in a blob and the words in a call, Guard2's loop gets from the
begin of both to the end of both. That is proved for supported words, bytes and
arrays from the rounds of the loop, for tuples and arrays of tuples because what suits can be
put one after the other (`SuitsTogether`, `SuitsFlattened`), and for all supported inputs by
the induction over trees. For these the script notices that a call has a tail
exactly when the ABI gives it one (`DynamicNoticed`). The pass that joins neighbouring wildcards changes the
directives but not how they are read (`PrintsTheSame`): going backward, what
it prints from a place on leads to "yes" wherever the directives from that place
do, with the words it has saved up skipped first. It takes six bits of a header
for the span where Guard2 takes five; the lemmas `WildcardField` and
`SelectorField` show that for the headers it reads so the sixth is 0.

* `EncodedDirectivesMatch`: what is printed for a method of supported inputs
  allows, once it is listed, the calls of the method whose tagged words are the
  pool and addresses on the list, with any tail, unless an entry ahead runs
  out and panics (`EncodedDirectivesAllow`). Methods with other inputs are in the
  domain, and `Supported` excludes them by name.

`Deployment_proofs` is about every list of scripts whose steps are in order:
`OrderAssumption` (`Deployment`) says that a contract is made once and before
it is read or linked, that a list is surveyed right before it is sent, that a
record is replaced by three writes after the core was told, and that a script
tells the core of everything. TLC evaluates it for the scripts of all three
environments, so it is a checked fact of `DeployScripts` and not a restriction.
`DeploymentInv` has two halves. `DataInv` speaks of the chain and the disk:
a record that is not of an external contract is of an instance that exists, with
its code's interface unless the contract is upgraded in place; links lead only
to what is recorded and never replaced; feeds and controllers are the recorded
ones. `PlaceInv` speaks of the run: whether to send was decided before the first
attempt and stays decided (`DecidedInv`); what is planned is what was surveyed,
and a record is only forgotten when the core knows its successor (`PlanInv`);
what the scripts have made before this step is recorded, but for the moment
between two of the three writes (`PassedMade`); and every step the run has
passed has had its effect (`PassedInv`), which is what a complete run consists
of. There is a lemma for each action; `CommandInv` and `LocalInv` are the common
part of the steps that send a transaction and of those that only write a record.

`CleanRunsReachTheirEnd` proves `CleanRunsEnd`: after runs without faults a run
without faults stops nowhere but at its end. The contracts refuse much of what
is sent twice or too early, so the proof is a list of why nothing is.
`AcceptanceAssumption`, again evaluated by TLC for the scripts of all three
environments, says which steps come before which (a pool after its fund was
activated, a deposit after its pool was, the delisting of a token before the
list that has it again). `CleanInv` says what they left: what every instance is
linked to (`LinksInv`, which needs no luck: faults do not change it), and, as
long as there was no fault, `Undisturbed`: a fund that exists is recorded, or
about to be; the oracle is initialised only with the core, or earlier in this
run; a token with a feed is listed, or was delisted earlier in this run; a plan
has nothing in it that the core refuses; and a minimum deposit was set when
every pool had been activated, or earlier in this run. The first three exclude
the three wedged states of `EventuallyComplete`.

Only model-checked are the liveness properties `QueuesAreSettled` and
`EventuallyComplete`: the prover has no rule for fairness. Every other property of
the passing runs is stated by a theorem.

## 5. What is left

Done: the pool with its abstract specification, the fund's permissions, the flows
of the oracle, the deployment, the guard and its scripts.

Worth adding next, in this order:

1. the fund's own assets: deposits queued into two pools, allowances;
2. `signMessage` of a pool, which joins `UFarmPool` with `TypedData`;
3. the arithmetic of the Uniswap V2 controller against a reference definition.

Not modelled, and why:

* the factories, proxies and whitelist views keep no state of their own; what a
  deployment does with them is in `Deployment`;
* the controllers encode calls to other protocols and keep no state: their effect
  on a pool is `ProtocolAction`. The arbitrary controller asks the guard and
  makes the call; `Guard.sol` is replaced by `Guard2.sol`;
* the pools' and the core's own permission masks gate who may call; the other
  modules let any such call happen, so that nothing they show depends on it;
* Chainlink feeds, signature recovery, math and string helpers are stateless
  conversions;
* the remaining scripts and tasks (`scripts/createPool.ts`, `swap…`, `tasks/…`)
  send one call an operator chooses or print what the chain holds; `pool-data.ts`
  and `sendQuexLogic.ts` assemble queries for external services.
