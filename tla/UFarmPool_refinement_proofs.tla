--------------------- MODULE UFarmPool_refinement_proofs ---------------------
(***************************************************************************)
(* UFarmPool implements SharePool, for any investors, tokens and requests. *)
(*                                                                         *)
(* A callback settles item by item on a copy of the ledger which its end   *)
(* commits in one step.  Settling (below) says that what the copy differs  *)
(* in from the ledger by now is within what one Settle step may do, so the *)
(* commit is such a step and every step before it a stutter.               *)
(***************************************************************************)
EXTENDS UFarmPool_refinement, UFarmPool_proofs

-----------------------------------------------------------------------------
(* Queues as sets                                                          *)

Ticket(item) == [investor |-> item.investor, hash |-> item.hash]

LEMMA WaitsOfTail ==
  ASSUME NEW S, NEW q \in Seq(S), q # <<>>
  PROVE  /\ Waits(Tail(q)) \subseteq Waits(q)
         /\ Ticket(Head(q)) \in Waits(q)
<1>1. Range(q) = {q[i] : i \in 1..Len(q)} /\ Len(q) \in Nat
  BY RangeEquality
<1>2. /\ Tail(q) \in Seq(S) /\ Len(Tail(q)) = Len(q) - 1
      /\ Head(q) = q[1] /\ 1 \in 1..Len(q)
      /\ \A i \in 1..Len(Tail(q)) : Tail(q)[i] = q[i + 1] /\ i + 1 \in 1..Len(q)
  BY HeadTailProperties, EmptySeq, <1>1
<1>3. Range(Tail(q)) = {Tail(q)[i] : i \in 1..Len(Tail(q))}
  BY <1>2, RangeEquality
<1>4. Range(Tail(q)) \subseteq Range(q)
  BY <1>1, <1>2, <1>3
<1>5. Head(q) \in Range(q)
  BY <1>1, <1>2
<1> QED BY <1>4, <1>5 DEF Waits, Ticket

LEMMA WaitsOfEmpty == Waits(<<>>) = {}
<1>1. Range(<<>>) = {}
  BY DEF Range
<1> QED BY <1>1 DEF Waits

\* Queueing adds the tickets of what is queued and nothing else.
LEMMA WaitsOfConcat ==
  ASSUME NEW S, NEW q \in Seq(S), NEW items \in Seq(S)
  PROVE  /\ Waits(q) \subseteq Waits(q \o items)
         /\ \A t \in Waits(q \o items) \ Waits(q) :
              \E i \in 1..Len(items) : t = Ticket(items[i])
<1>1. Range(q \o items) = Range(q) \cup Range(items)
  BY RangeConcatenation
<1>2. Range(items) = {items[i] : i \in 1..Len(items)}
  BY RangeEquality
<1> QED BY <1>1, <1>2 DEF Waits, Ticket

LEMMA WaitsOfAppend ==
  ASSUME NEW S, NEW q \in Seq(S), NEW item \in S
  PROVE  /\ Waits(q) \subseteq Waits(Append(q, item))
         /\ \A t \in Waits(Append(q, item)) \ Waits(q) : t = Ticket(item)
<1> PICK one : one = <<item>>
  OBVIOUS
<1>1. one \in Seq(S) /\ \A i \in 1..Len(one) : one[i] = item
  OBVIOUS
<1>2. Append(q, item) = q \o one
  BY AppendIsConcat
<1>3. /\ Waits(q) \subseteq Waits(q \o one)
      /\ \A t \in Waits(q \o one) \ Waits(q) :
           \E i \in 1..Len(one) : t = Ticket(one[i])
  BY <1>1, WaitsOfConcat
<1> QED BY <1>1, <1>2, <1>3

-----------------------------------------------------------------------------
(* The transactions                                                        *)

\* The steps the abstract specification does not see.
LEMMA Unseen ==
  ASSUME pool'.shares = pool.shares, SameQueues(pool', pool),
         pool'.usedDeposits = pool.usedDeposits,
         pool'.usedWithdrawals = pool.usedWithdrawals,
         requestId' = requestId
  PROVE  UNCHANGED Abstract!promised
BY DEF Abstract!promised, SameQueues

\* More deposits are queued, and the oracle is asked.
LEMMA DepositsAreAsked ==
  ASSUME pool \in Ledger, TypeOK, SendQuexRequest,
         NEW q, pool' = [pool EXCEPT !.depositQueue = q],
         Waits(pool.depositQueue) \subseteq Waits(q),
         \A t \in Waits(q) \ Waits(pool.depositQueue) :
           t \in Abstract!Deposits /\ t.hash \notin pool.usedDeposits
  PROVE  Abstract!AskDeposits
<1>1. /\ pool'.depositQueue = q /\ pool'.shares = pool.shares
      /\ pool'.withdrawQueue = pool.withdrawQueue
      /\ pool'.usedDeposits = pool.usedDeposits
      /\ pool'.usedWithdrawals = pool.usedWithdrawals
  BY DEF Ledger
<1>2. requestId' # 0
  BY DEF SendQuexRequest, TypeOK
<1> QED BY <1>1, <1>2 DEF Abstract!AskDeposits

LEMMA WithdrawalsAreAsked ==
  ASSUME pool \in Ledger, TypeOK, SendQuexRequest,
         NEW q, pool' = [pool EXCEPT !.withdrawQueue = q],
         Waits(pool.withdrawQueue) \subseteq Waits(q),
         \A t \in Waits(q) \ Waits(pool.withdrawQueue) :
           /\ t \in Abstract!Withdrawals /\ t.hash \notin pool.usedWithdrawals
           /\ t.hash # FundHash =>
                /\ t.hash \in WithdrawRequests
                /\ t.investor = WithdrawBody[t.hash].investor
           /\ t.hash = FundHash => t.investor = Fund
  PROVE  Abstract!AskWithdrawals
<1>1. /\ pool'.withdrawQueue = q /\ pool'.shares = pool.shares
      /\ pool'.depositQueue = pool.depositQueue
      /\ pool'.usedDeposits = pool.usedDeposits
      /\ pool'.usedWithdrawals = pool.usedWithdrawals
  BY DEF Ledger
<1>2. requestId' # 0
  BY DEF SendQuexRequest, TypeOK
<1> QED BY <1>1, <1>2 DEF Abstract!AskWithdrawals

\* Shares move between holders only, and the fund's do not.
LEMMA SharesAreTransferred ==
  ASSUME pool \in Ledger, NEW from \in Investors \cup {Core}, NEW to \in Holders,
         NEW a \in TransferAmounts, TransferShares(from, to, a)
  PROVE  Abstract!Transfer
<1>1. /\ from \in Holders \ {Fund} /\ from # to /\ a \in Nat /\ a <= pool.shares[from]
      /\ pool.shares \in [Holders -> Nat]
  BY PoolAssumption, LedgerElim DEF Holders, TransferShares
<1> DEFINE more == [[pool.shares EXCEPT ![from] = @ - a] EXCEPT ![to] = @ + a]
<1>2. pool' = [pool EXCEPT !.shares[from] = @ - a, !.shares[to] = @ + a]
  BY DEF TransferShares
<1>3. pool'.shares = more
  BY <1>1, <1>2 DEF Ledger
<1>4. /\ pool'.depositQueue = pool.depositQueue /\ pool'.withdrawQueue = pool.withdrawQueue
      /\ pool'.usedDeposits = pool.usedDeposits
      /\ pool'.usedWithdrawals = pool.usedWithdrawals
  BY <1>2 DEF Ledger
<1>5. requestId' = requestId
  BY DEF TransferShares
<1>6. more[from] = pool.shares[from] - a /\ more[to] = pool.shares[to] + a
  BY <1>1
<1>7. more = [pool.shares EXCEPT ![from] = more[from], ![to] = more[to]]
  BY <1>1, <1>6
<1> HIDE DEF more
<1>8. /\ more[from] <= pool.shares[from] /\ more[to] >= pool.shares[to]
      /\ pool.shares[from] + pool.shares[to] = more[from] + more[to]
  BY <1>1, <1>6
<1> QED BY <1>1, <1>3, <1>4, <1>5, <1>7, <1>8
        DEF Abstract!Transfer, Abstract!Holders, Holders

LEMMA TransactionsRefine ==
  ASSUME TypeInv, External
  PROVE  Abstract!PromiseNext \/ UNCHANGED Abstract!promised
<1> DEFINE Goal == Abstract!PromiseNext \/ UNCHANGED Abstract!promised
<1>0. Transaction /\ pool \in Ledger /\ TypeOK
  BY DEF External, TypeInv, TypeOK
<1> USE <1>0
<1>t. /\ pool.depositQueue \in Seq(DepositItems)
      /\ pool.withdrawQueue \in Seq(WithdrawItems)
      /\ pool.usedDeposits \subseteq DepositRequests
      /\ pool.usedWithdrawals \subseteq WithdrawRequests
  BY LedgerElim
<1>c. /\ NoHash \notin DepositRequests /\ FundHash \notin WithdrawRequests
      /\ Fund \notin Investors
  BY PoolAssumption
<1>k. ASSUME pool' = pool, requestId' = requestId PROVE Goal
  BY <1>k, Unseen DEF SameQueues
<1>o. ASSUME NEW q, requestId' = requestId,
             \/ pool' = [pool EXCEPT !.pending = q]
             \/ pool' = [pool EXCEPT !.unprocessed = q]
             \/ pool' = [pool EXCEPT !.cash = q]
      PROVE  Goal
  <2>1. /\ pool'.shares = pool.shares /\ pool'.depositQueue = pool.depositQueue
        /\ pool'.withdrawQueue = pool.withdrawQueue
        /\ pool'.usedDeposits = pool.usedDeposits
        /\ pool'.usedWithdrawals = pool.usedWithdrawals
    BY <1>o DEF Ledger
  <2> QED BY <1>o, <2>1, Unseen DEF SameQueues
<1>1. ASSUME NEW s \in Investors \cup {Fund}, NEW a \in DepositAmounts, NEW t \in Tokens,
             Deposit(s, a, t)
      PROVE  Goal
  <2> PICK item : item = [amount |-> a, minOutput |-> 0, hash |-> NoHash,
                          investor |-> s, token |-> t]
    OBVIOUS
  <2>1. item \in DepositItems /\ Ticket(item) \in Abstract!Deposits /\ item.hash = NoHash
    BY PoolAssumption DEF DepositItems, Ticket, Abstract!Deposits
  <2>2. pool' = [pool EXCEPT !.depositQueue = Append(pool.depositQueue, item)]
        /\ SendQuexRequest
    BY <1>1 DEF Deposit
  <2>3. Ticket(item).hash \notin pool.usedDeposits
    BY <1>t, <1>c, <2>1 DEF Ticket
  <2>4. /\ Waits(pool.depositQueue) \subseteq Waits(Append(pool.depositQueue, item))
        /\ \A x \in Waits(Append(pool.depositQueue, item)) \ Waits(pool.depositQueue) :
             x = Ticket(item)
    BY <1>t, <2>1, WaitsOfAppend
  <2>5. Abstract!AskDeposits
    BY <2>1, <2>2, <2>3, <2>4, DepositsAreAsked
  <2> QED BY <2>5 DEF Abstract!PromiseNext
<1>2. ASSUME ApproveDeposits PROVE Goal
  <2>0. PICK n \in 0..QueueLimit - Len(pool.depositQueue) :
          \E batch \in [1..n -> {r \in DepositRequests : ValidDepositRequest(r)}] :
            pool' = [pool EXCEPT !.depositQueue =
                       pool.depositQueue \o [i \in 1..n |-> DepositItem(batch[i])]]
    BY <1>2 DEF ApproveDeposits
  <2>1. PICK batch \in [1..n -> {r \in DepositRequests : ValidDepositRequest(r)}] :
          pool' = [pool EXCEPT !.depositQueue =
                     pool.depositQueue \o [i \in 1..n |-> DepositItem(batch[i])]]
    BY <2>0
  <2> DEFINE items == [i \in 1..n |-> DepositItem(batch[i])]
  <2>2. n \in Nat /\ \A i \in 1..n : /\ batch[i] \in DepositRequests
                                     /\ batch[i] \notin pool.usedDeposits
    BY <2>1 DEF ValidDepositRequest
  <2>3. \A r \in DepositRequests :
          /\ DepositItem(r) \in DepositItems
          /\ Ticket(DepositItem(r)) \in Abstract!Deposits
          /\ Ticket(DepositItem(r)).hash = r
    BY PoolAssumption DEF DepositItem, DepositItems, Ticket, Abstract!Deposits
  <2>4. items \in Seq(DepositItems) /\ Len(items) = n
        /\ \A i \in 1..n : items[i] = DepositItem(batch[i])
    BY <2>2, <2>3
  <2>5. pool' = [pool EXCEPT !.depositQueue = pool.depositQueue \o items]
    BY <2>1
  <2> HIDE DEF items
  <2>6. SendQuexRequest
    BY <1>2 DEF ApproveDeposits
  <2>7. \A i \in 1..Len(items) : /\ Ticket(items[i]) \in Abstract!Deposits
                                 /\ Ticket(items[i]).hash \notin pool.usedDeposits
    BY <2>2, <2>3, <2>4
  <2>8. /\ Waits(pool.depositQueue) \subseteq Waits(pool.depositQueue \o items)
        /\ \A t \in Waits(pool.depositQueue \o items) \ Waits(pool.depositQueue) :
             \E i \in 1..Len(items) : t = Ticket(items[i])
    BY <1>t, <2>4, WaitsOfConcat
  <2>9. Abstract!AskDeposits
    BY <2>5, <2>6, <2>7, <2>8, DepositsAreAsked
  <2> QED BY <2>9 DEF Abstract!PromiseNext
<1>w. ASSUME NEW r \in WithdrawRequests, NEW t \in Tokens, ValidWithdrawRequest(r)
      PROVE  LET w == Ticket(WithdrawItem(r, t)) IN
             /\ WithdrawItem(r, t) \in WithdrawItems
             /\ w \in Abstract!Withdrawals /\ w.hash \notin pool.usedWithdrawals
             /\ w.hash \in WithdrawRequests /\ w.hash # FundHash
             /\ w.investor = WithdrawBody[w.hash].investor
  BY <1>w, PoolAssumption DEF ValidWithdrawRequest, WithdrawItem, WithdrawItems,
     InvestorWithdrawals, Ticket, Abstract!Withdrawals
<1>3. ASSUME NEW t \in Tokens, ApproveWithdrawals(t) PROVE Goal
  <2>0. PICK n \in 0..QueueLimit - Len(pool.withdrawQueue) :
          \E batch \in [1..n -> {r \in WithdrawRequests : ValidWithdrawRequest(r)}] :
            pool' = [pool EXCEPT !.withdrawQueue =
                       pool.withdrawQueue \o [i \in 1..n |-> WithdrawItem(batch[i], t)]]
    BY <1>3 DEF ApproveWithdrawals
  <2>1. PICK batch \in [1..n -> {r \in WithdrawRequests : ValidWithdrawRequest(r)}] :
          pool' = [pool EXCEPT !.withdrawQueue =
                     pool.withdrawQueue \o [i \in 1..n |-> WithdrawItem(batch[i], t)]]
    BY <2>0
  <2> DEFINE items == [i \in 1..n |-> WithdrawItem(batch[i], t)]
  <2>2. n \in Nat /\ \A i \in 1..n : /\ batch[i] \in WithdrawRequests
                                     /\ ValidWithdrawRequest(batch[i])
    BY <2>1
  <2>3. \A i \in 1..n : WithdrawItem(batch[i], t) \in WithdrawItems
    BY <1>w, <2>2
  <2>4. items \in Seq(WithdrawItems) /\ Len(items) = n
        /\ \A i \in 1..n : items[i] = WithdrawItem(batch[i], t)
    BY <2>2, <2>3
  <2>5. pool' = [pool EXCEPT !.withdrawQueue = pool.withdrawQueue \o items]
    BY <2>1
  <2> HIDE DEF items
  <2>6. SendQuexRequest
    BY <1>3 DEF ApproveWithdrawals
  <2>8. /\ Waits(pool.withdrawQueue) \subseteq Waits(pool.withdrawQueue \o items)
        /\ \A w \in Waits(pool.withdrawQueue \o items) \ Waits(pool.withdrawQueue) :
             \E i \in 1..n : w = Ticket(WithdrawItem(batch[i], t))
    BY <1>t, <2>4, WaitsOfConcat
  <2>9. Abstract!AskWithdrawals
    BY <1>w, <2>2, <2>5, <2>6, <2>8, WithdrawalsAreAsked, ZenonT(60)
  <2> QED BY <2>9 DEF Abstract!PromiseNext
<1>4. ASSUME NEW a \in FundShares, NEW m \in MinOutputs, NEW t \in Tokens,
             WithdrawByFund(a, m, t)
      PROVE  Goal
  <2> PICK item : item = [amount |-> a, minOutput |-> m, hash |-> FundHash,
                          investor |-> Fund, token |-> t]
    OBVIOUS
  <2>1. /\ item \in WithdrawItems /\ Ticket(item) \in Abstract!Withdrawals
        /\ Ticket(item).hash = FundHash /\ Ticket(item).investor = Fund
    BY PoolAssumption DEF WithdrawItems, FundWithdrawals, Ticket, Abstract!Withdrawals
  <2>2. pool' = [pool EXCEPT !.withdrawQueue = Append(pool.withdrawQueue, item)]
        /\ SendQuexRequest
    BY <1>4 DEF WithdrawByFund
  <2>3. FundHash \notin pool.usedWithdrawals
    BY <1>t, <1>c
  <2>4. /\ Waits(pool.withdrawQueue) \subseteq Waits(Append(pool.withdrawQueue, item))
        /\ \A x \in Waits(Append(pool.withdrawQueue, item)) \ Waits(pool.withdrawQueue) :
             x = Ticket(item)
    BY <1>t, <2>1, WaitsOfAppend
  <2>5. Abstract!AskWithdrawals
    BY <2>1, <2>2, <2>3, <2>4, WithdrawalsAreAsked
  <2> QED BY <2>5 DEF Abstract!PromiseNext
<1>5. ASSUME NEW r \in WithdrawRequests, RegisterWithdrawal(r) PROVE Goal
  BY <1>5, <1>o DEF RegisterWithdrawal
<1>6. ASSUME NEW r \in WithdrawRequests, ForceDeactivation(r) PROVE Goal
  BY <1>6, <1>o DEF ForceDeactivation
<1>7. ASSUME NEW r \in WithdrawRequests, QueueWithdrawal(r) PROVE Goal
  <2> PICK item : item = WithdrawItem(r, ValueToken)
    OBVIOUS
  <2>0. ValidWithdrawRequest(r) /\ ValueToken \in Tokens
    BY <1>7, ConstantTypes DEF QueueWithdrawal, MayWithdraw
  <2> PICK w : w = Ticket(item)
    OBVIOUS
  <2>1. /\ item \in WithdrawItems
        /\ w \in Abstract!Withdrawals /\ w.hash \notin pool.usedWithdrawals
        /\ w.hash \in WithdrawRequests /\ w.hash # FundHash
        /\ w.investor = WithdrawBody[w.hash].investor
    BY <1>w, <2>0
  <2>2. pool' = [pool EXCEPT !.withdrawQueue = Append(pool.withdrawQueue, item)]
        /\ SendQuexRequest
    BY <1>7 DEF QueueWithdrawal
  <2>3. /\ Waits(pool.withdrawQueue) \subseteq Waits(Append(pool.withdrawQueue, item))
        /\ \A x \in Waits(Append(pool.withdrawQueue, item)) \ Waits(pool.withdrawQueue) :
             x = Ticket(item)
    BY <1>t, <2>1, WaitsOfAppend
  <2>4. Abstract!AskWithdrawals
    BY <2>1, <2>2, <2>3, WithdrawalsAreAsked
  <2> QED BY <2>4 DEF Abstract!PromiseNext
<1>8. ASSUME NEW from \in Investors \cup {Core}, NEW to \in Holders,
             NEW a \in TransferAmounts, TransferShares(from, to, a)
      PROVE  Goal
  BY <1>8, SharesAreTransferred DEF Abstract!PromiseNext
<1>9. ASSUME NEW new \in PoolStatus, ChangePoolStatus(new) PROVE Goal
  BY <1>9, <1>k DEF ChangePoolStatus
<1>10. ASSUME NEW q \in LockupPeriods, SetLockupPeriod(q) PROVE Goal
  BY <1>10, <1>k DEF SetLockupPeriod
<1>11. ASSUME NEW c \in ClientTiers, SetMinClientTier(c) PROVE Goal
  BY <1>11, <1>k DEF SetMinClientTier
<1>12. ASSUME NEW t \in Tokens, NEW c \in CashLevels, ProtocolAction(t, c) PROVE Goal
  <2>1. pool' = [pool EXCEPT !.cash = [pool.cash EXCEPT ![t] = c]]
    BY <1>12 DEF ProtocolAction
  <2> QED BY <1>12, <1>o, <2>1 DEF ProtocolAction
<1>13. ASSUME ResetOracleRequestId PROVE Goal
  BY <1>13 DEF ResetOracleRequestId, Abstract!PromiseNext, Abstract!GiveUp
<1>14. ASSUME NEW new \in FundStatuses, ChangeFundStatus(new) PROVE Goal
  BY <1>14, <1>k DEF ChangeFundStatus, poolVars
<1>15. ASSUME SwitchPause PROVE Goal
  BY <1>15, <1>k DEF SwitchPause, poolVars
<1>16. ASSUME Tick PROVE Goal
  BY <1>16, <1>k DEF Tick, poolVars
<1>17. ASSUME SettingsAction PROVE Goal
  BY <1>17, <1>k, SettingsFacts DEF poolVars, TypeOK
<1> QED BY <1>1, <1>2, <1>3, <1>4, <1>5, <1>6, <1>7, <1>8, <1>9, <1>10, <1>11,
           <1>12, <1>13, <1>14, <1>15, <1>16, <1>17 DEF Transaction, SettingsAction

-----------------------------------------------------------------------------
(* The callback                                                            *)

MayLoseWith(h, used) ==
  \/ h = Fund /\ \E w \in Waits(pool.withdrawQueue) : w.hash = FundHash
  \/ \E w \in Waits(pool.withdrawQueue) :
       w.investor = h /\ w.hash \in used \ pool.usedWithdrawals

\* The copy m differs from the ledger in no more than a settlement may change.
QueuesWithin(m) ==
  /\ Waits(m.depositQueue) \subseteq Waits(pool.depositQueue)
  /\ Waits(m.withdrawQueue) \subseteq Waits(pool.withdrawQueue)

UsedWithin(m) ==
  /\ pool.usedDeposits \subseteq m.usedDeposits
  /\ m.usedDeposits \ pool.usedDeposits \subseteq {d.hash : d \in Waits(pool.depositQueue)}
  /\ pool.usedWithdrawals \subseteq m.usedWithdrawals
  /\ m.usedWithdrawals \ pool.usedWithdrawals
       \subseteq {w.hash : w \in Waits(pool.withdrawQueue)}

SharesWithin(m) ==
  \A h \in Holders :
    /\ m.shares[h] > pool.shares[h] => Abstract!MayGain(h)
    /\ m.shares[h] < pool.shares[h] => MayLoseWith(h, m.usedWithdrawals)

Within(m) == QueuesWithin(m) /\ UsedWithin(m) /\ SharesWithin(m)

Settling ==
  stage # "idle" =>
    /\ requestId # 0
    /\ Within(work)
    /\ stage = "withdrawals" => work.depositQueue = <<>>

\* A step of the callback leaves the ledger alone.
LEMMA SettlingStep ==
  ASSUME UNCHANGED <<poolVars, worldVars>>, requestId # 0, Within(work'),
         stage' = "withdrawals" => work'.depositQueue = <<>>
  PROVE  Settling'
BY DEF Settling, Within, QueuesWithin, UsedWithin, SharesWithin, MayLoseWith,
       Abstract!MayGain, poolVars

LEMMA AnswerWithin ==
  ASSUME TypeInv, Answer
  PROVE  Settling'
<1> PICK id \in 1..issued, value \in OracleValues : BeginCallback(id, value)
  BY DEF Answer
<1>1. SameRequests(work', pool) /\ OnlyFeesMinted(work', pool) /\ work' \in Ledger
  BY AnswerFacts
<1>2. QueuesWithin(work') /\ UsedWithin(work')
  BY <1>1 DEF SameRequests, QueuesWithin, UsedWithin
<1>3. SharesWithin(work')
  <2>1. pool.shares \in [Holders -> Nat] /\ work'.shares \in [Holders -> Nat]
    BY <1>1, LedgerElim DEF TypeInv, TypeOK
  <2>2. \A h \in {Fund, Core} : Abstract!MayGain(h)
    BY DEF Abstract!MayGain
  <2> QED BY <1>1, <2>1, <2>2 DEF OnlyFeesMinted, SharesWithin
<1>4. /\ UNCHANGED <<poolVars, worldVars>> /\ requestId # 0 /\ stage' = "deposits"
  BY DEF BeginCallback
<1> QED BY <1>2, <1>3, <1>4, SettlingStep DEF Within

\* The item a settlement step takes waits in the ledger too.
LEMMA HeadWaits ==
  ASSUME TypeInv, Settling
  PROVE  /\ NextDeposit =>
              /\ Waits(Tail(work.depositQueue)) \subseteq Waits(pool.depositQueue)
              /\ Ticket(DItem) \in Waits(pool.depositQueue)
         /\ NextWithdrawal =>
              /\ Waits(Tail(work.withdrawQueue)) \subseteq Waits(pool.withdrawQueue)
              /\ Ticket(WItem) \in Waits(pool.withdrawQueue)
<1>1. ASSUME NextDeposit
      PROVE  /\ Waits(Tail(work.depositQueue)) \subseteq Waits(pool.depositQueue)
             /\ Ticket(DItem) \in Waits(pool.depositQueue)
  <2>1. stage # "idle" /\ work.depositQueue # <<>>
    BY <1>1 DEF NextDeposit
  <2>2. work.depositQueue \in Seq(DepositItems)
    BY <2>1, WorkTypes, LedgerElim
  <2> QED BY <2>1, <2>2, WaitsOfTail DEF Settling, Within, QueuesWithin, DItem
<1>2. ASSUME NextWithdrawal
      PROVE  /\ Waits(Tail(work.withdrawQueue)) \subseteq Waits(pool.withdrawQueue)
             /\ Ticket(WItem) \in Waits(pool.withdrawQueue)
  <2>1. stage # "idle" /\ work.withdrawQueue # <<>>
    BY <1>2 DEF NextWithdrawal
  <2>2. work.withdrawQueue \in Seq(WithdrawItems)
    BY <2>1, WorkTypes, LedgerElim
  <2> QED BY <2>1, <2>2, WaitsOfTail DEF Settling, Within, QueuesWithin, WItem
<1> QED BY <1>1, <1>2

LEMMA DepositsWithin ==
  ASSUME TypeInv, Settling, SkipDeposit \/ PullDeposit \/ FinishDeposits
  PROVE  Settling'
<1>1. CASE SkipDeposit
  <2>1. /\ NextDeposit /\ stage = "deposits" /\ stage' = stage
        /\ UNCHANGED <<poolVars, worldVars>>
    BY <1>1 DEF SkipDeposit, NextDeposit
  <2>2. Within(work')
    BY <1>1, <2>1, SkipDepositFacts, HeadWaits
       DEF Settling, Within, QueuesWithin, UsedWithin, SharesWithin
  <2> QED BY <2>1, <2>2, SettlingStep DEF Settling
<1>2. CASE PullDeposit
  <2>1. /\ NextDeposit /\ stage = "deposits" /\ stage' = stage
        /\ UNCHANGED <<poolVars, worldVars>>
    BY <1>2 DEF PullDeposit, NextDeposit
  <2>2. /\ Waits(work'.depositQueue) \subseteq Waits(pool.depositQueue)
        /\ Ticket(DItem) \in Waits(pool.depositQueue)
    BY <1>2, <2>1, PullDepositFacts, HeadWaits
  <2>3. QueuesWithin(work')
    BY <1>2, <2>1, <2>2, PullDepositFacts DEF Settling, Within, QueuesWithin
  <2>4. UsedWithin(work')
    <3>1. DItem.hash \in {d.hash : d \in Waits(pool.depositQueue)}
      BY <2>2 DEF Ticket
    <3> QED BY <1>2, <2>1, <3>1, PullDepositFacts DEF Settling, Within, UsedWithin
  <2>5. SharesWithin(work')
    <3>1. /\ pool.shares \in [Holders -> Nat] /\ work.shares \in [Holders -> Nat]
          /\ work'.shares = [work.shares EXCEPT ![DItem.investor] = @ + Minted(work, DItem)]
          /\ work'.usedWithdrawals = work.usedWithdrawals
          /\ DItem.investor \in Holders /\ Minted(work, DItem) \in Nat
      BY <1>2, <2>1, PullDepositFacts, DepositHead, WorkTypes, LedgerElim DEF TypeInv, TypeOK
    <3>2. Abstract!MayGain(DItem.investor)
      BY <2>2 DEF Ticket, Abstract!MayGain
    <3>3. SharesWithin(work)
      BY <2>1 DEF Settling, Within
    <3>4. \A h \in Holders : work'.shares[h] > pool.shares[h] => Abstract!MayGain(h)
      BY <3>1, <3>2, <3>3 DEF SharesWithin
    <3>5. \A h \in Holders : work'.shares[h] < pool.shares[h] =>
            MayLoseWith(h, work'.usedWithdrawals)
      BY <3>1, <3>3 DEF SharesWithin
    <3> QED BY <3>4, <3>5 DEF SharesWithin
  <2> QED BY <2>1, <2>3, <2>4, <2>5, SettlingStep DEF Settling, Within
<1>3. CASE FinishDeposits
  <2>1. /\ stage = "deposits" /\ work.depositQueue = <<>>
        /\ UNCHANGED <<poolVars, worldVars>>
    BY <1>3 DEF FinishDeposits
  <2>2. Within(work')
    BY <1>3, <2>1, FinishDepositsFacts
       DEF Settling, Within, QueuesWithin, UsedWithin, SharesWithin
  <2> QED BY <1>3, <2>1, <2>2, FinishDepositsFacts, SettlingStep DEF Settling
<1> QED BY <1>1, <1>2, <1>3

\* More requests used allow more holders to lose shares.
LEMMA MayLoseMonotone ==
  ASSUME NEW h, NEW used, NEW more, used \subseteq more, MayLoseWith(h, used)
  PROVE  MayLoseWith(h, more)
BY DEF MayLoseWith

LEMMA WithdrawalsWithin ==
  ASSUME TypeInv, Settling,
         SkipWithdrawal \/ RefuseWithdrawal \/ DeferWithdrawal \/ PayWithdrawal
  PROVE  Settling'
<1>0. /\ NextWithdrawal /\ Settles /\ work'.withdrawQueue = Tail(work.withdrawQueue)
      /\ SameDeposits(work', work)
      /\ \/ work'.usedWithdrawals = work.usedWithdrawals
         \/ work'.usedWithdrawals =
              work.usedWithdrawals \cup ({WItem.hash} \cap WithdrawRequests)
  BY UnpaidFacts, PayFacts
<1>1. /\ stage = "withdrawals" /\ stage' = stage /\ UNCHANGED <<poolVars, worldVars>>
      /\ work'.depositQueue = <<>>
  BY <1>0 DEF NextWithdrawal, Settles, Settling, SameDeposits
<1>2. Ticket(WItem) \in Waits(pool.withdrawQueue)
  BY <1>0, HeadWaits
<1>3. QueuesWithin(work')
  BY <1>0, <1>1, HeadWaits DEF Settling, Within, QueuesWithin, SameDeposits
<1>4. UsedWithin(work')
  <2>1. WItem.hash \in {w.hash : w \in Waits(pool.withdrawQueue)}
    BY <1>2 DEF Ticket
  <2> QED BY <1>0, <1>1, <2>1 DEF Settling, Within, UsedWithin, SameDeposits
<1>5. SharesWithin(work')
  <2>1. SharesWithin(work) /\ work.usedWithdrawals \subseteq work'.usedWithdrawals
    BY <1>0, <1>1 DEF Settling, Within
  <2>2. CASE SkipWithdrawal \/ RefuseWithdrawal \/ DeferWithdrawal
    <3>1. work'.shares = work.shares
      BY <2>2, UnpaidFacts DEF SameValue
    <3> QED BY <2>1, <3>1, MayLoseMonotone DEF SharesWithin
  <2>3. CASE PayWithdrawal
    <3>1. /\ pool.shares \in [Holders -> Nat] /\ work.shares \in [Holders -> Nat]
          /\ work'.shares = [work.shares EXCEPT ![WItem.investor] = @ - WItem.amount]
          /\ WItem.hash \notin work.usedWithdrawals
          /\ work'.usedWithdrawals =
               work.usedWithdrawals \cup ({WItem.hash} \cap WithdrawRequests)
          /\ WItem.investor \in Holders /\ WItem.amount \in Nat
      BY <1>1, <2>3, PayFacts, WithdrawalHead, WorkTypes, LedgerElim DEF TypeInv, TypeOK
    <3>2. /\ WItem.investor = Fund => WItem.hash = FundHash
          /\ WItem.investor # Fund => WItem.hash \in WithdrawRequests
      BY <1>0, WithdrawalHead
    <3>3. WItem.hash \notin pool.usedWithdrawals
      BY <1>1, <3>1 DEF Settling, Within, UsedWithin
    <3>4. MayLoseWith(WItem.investor, work'.usedWithdrawals)
      BY <1>2, <3>1, <3>2, <3>3 DEF MayLoseWith, Ticket
    <3>5. \A h \in Holders : work'.shares[h] > pool.shares[h] => Abstract!MayGain(h)
      BY <2>1, <3>1 DEF SharesWithin
    <3>6. \A h \in Holders : work'.shares[h] < pool.shares[h] =>
            MayLoseWith(h, work'.usedWithdrawals)
      BY <2>1, <3>1, <3>4, MayLoseMonotone DEF SharesWithin
    <3> QED BY <3>5, <3>6 DEF SharesWithin
  <2> QED BY <2>2, <2>3
<1> QED BY <1>1, <1>3, <1>4, <1>5, SettlingStep DEF Settling, Within

\* The commit is a settlement.
LEMMA CommitSettles ==
  ASSUME TypeInv, Settling, FinishCallback
  PROVE  Abstract!Settle
<1>1. /\ stage = "withdrawals" /\ work.withdrawQueue = <<>> /\ work.depositQueue = <<>>
      /\ pool' = work /\ requestId # 0 /\ requestId' = 0 /\ Within(work)
  BY DEF FinishCallback, Settling
<1>2. Waits(pool'.depositQueue) = {} /\ Waits(pool'.withdrawQueue) = {}
  BY <1>1, WaitsOfEmpty
<1>3. pool'.shares \in [Holders -> Nat]
  BY <1>1, WorkTypes
<1>4. \A h \in Holders : pool'.shares[h] > pool.shares[h] => Abstract!MayGain(h)
  BY <1>1 DEF Within, SharesWithin
<1>5. \A h \in Holders : pool'.shares[h] < pool.shares[h] => Abstract!MayLose(h)
  BY <1>1 DEF Within, SharesWithin, MayLoseWith, Abstract!MayLose
<1>6. UsedWithin(pool')
  BY <1>1 DEF Within
<1> QED BY <1>1, <1>2, <1>3, <1>4, <1>5, <1>6
        DEF Abstract!Settle, Abstract!Holders, Holders, UsedWithin

-----------------------------------------------------------------------------

LEMMA SettlingPreserved ==
  ASSUME TypeInv, Settling, [Next]_vars
  PROVE  Settling'
<1>1. CASE External
  BY <1>1 DEF External, callbackVars, Settling
<1>2. CASE Answer
  BY <1>2, AnswerWithin
<1>3. CASE SkipDeposit \/ PullDeposit \/ FinishDeposits
  BY <1>3, DepositsWithin
<1>4. CASE SkipWithdrawal \/ RefuseWithdrawal \/ DeferWithdrawal \/ PayWithdrawal
  BY <1>4, WithdrawalsWithin
<1>5. CASE RevertCallback \/ FinishCallback
  BY <1>5 DEF RevertCallback, FinishCallback, Settling
<1>6. CASE UNCHANGED vars
  BY <1>6, SettlingStep DEF vars, callbackVars, Settling
<1> QED BY <1>1, <1>2, <1>3, <1>4, <1>5, <1>6 DEF Next, Settlement

\* A step is one the abstract specification allows, or one it does not see.
LEMMA StepsRefine ==
  ASSUME TypeInv, Settling, [Next]_vars
  PROVE  [Abstract!PromiseNext]_(Abstract!promised)
<1>1. ASSUME UNCHANGED <<pool, requestId>> PROVE UNCHANGED Abstract!promised
  BY <1>1, Unseen DEF SameQueues
<1>2. CASE External
  BY <1>2, TransactionsRefine
<1>3. CASE Answer
  BY <1>1, <1>3 DEF Answer, BeginCallback, poolVars
<1>4. CASE SkipDeposit \/ PullDeposit \/ FinishDeposits
  BY <1>1, <1>4 DEF SkipDeposit, PullDeposit, NextDeposit, FinishDeposits, poolVars
<1>5. CASE SkipWithdrawal \/ RefuseWithdrawal \/ DeferWithdrawal \/ PayWithdrawal
            \/ RevertCallback
  BY <1>1, <1>5 DEF SkipWithdrawal, RefuseWithdrawal, DeferWithdrawal, PayWithdrawal,
     RevertCallback, NextWithdrawal, poolVars
<1>6. CASE FinishCallback
  BY <1>6, CommitSettles DEF Abstract!PromiseNext
<1>7. CASE UNCHANGED vars
  BY <1>1, <1>7 DEF vars, poolVars
<1> QED BY <1>2, <1>3, <1>4, <1>5, <1>6, <1>7 DEF Next, Settlement

LEMMA InitRefines == Init => Abstract!PromiseInit
BY WaitsOfEmpty DEF Init, Abstract!PromiseInit, Abstract!Holders, Holders

\* Every behaviour of a pool keeps what SharePool promises: shares change only
\* by transfers and by settlements of what waits, each of them whole, and no
\* holder loses shares without a request of his being consumed (quexCallback).
THEOREM PoolKeepsPromise == Spec => KeepsPromise
<1>1. Init => Settling
  BY DEF Init, Settling
<1>2. Spec => []Settling
  BY <1>1, TypeInvariant, SettlingPreserved, PTL DEF Spec
<1> QED BY <1>2, InitRefines, TypeInvariant, StepsRefine, PTL
        DEF Spec, KeepsPromise, Abstract!Promise
=============================================================================
