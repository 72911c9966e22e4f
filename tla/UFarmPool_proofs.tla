------------------------- MODULE UFarmPool_proofs -------------------------
(***************************************************************************)
(* UFarmPool is type correct and safe, for any investors, tokens, requests *)
(* and amounts.  TypeOK alone is not inductive: the ledger's subtractions  *)
(* stay in the naturals only because the shares of all holders add up to   *)
(* the supply (a payment takes from both) and because fees never accrue    *)
(* from the future (the elapsed time is not negative).  TypeInv adds the   *)
(* two.  The first section is about the fee arithmetic alone.              *)
(*                                                                         *)
(* Each lemma ...Facts says what one step of the callback does to each     *)
(* field of the ledger.  The invariants of the second half rest on them: a *)
(* callback works on a copy of the ledger that only its end commits, so    *)
(* every invariant of pool is proved together with its counterpart for     *)
(* work, that what a callback has settled so far would be right to commit. *)
(***************************************************************************)
EXTENDS UFarmPool, Recursion_proofs, SequenceTheorems

(* What the fee arithmetic of PoolFees returns, for every schedule and     *)
(* every unit of the fees                                                  *)

FeeConfig == [protocol : Nat, management : Nat, packed : Packed]

\* The loop of _getPerformanceCommissionStepsCount stops: the count is the
\* number of words up to the last one that is not zero.
LEMMA StepsCountDef ==
  ASSUME NEW packed \in Packed
  PROVE  /\ StepsCount(packed) \in 0..MAX_STEPS
         /\ StepsCount(packed) > 0 => packed[StepsCount(packed)] # ZeroWord
         /\ \A i \in StepsCount(packed) + 1..MAX_STEPS : packed[i] = ZeroWord
<1> DEFINE S == {n \in 0..MAX_STEPS : \A i \in n + 1..MAX_STEPS : packed[i] = ZeroWord}
<1>1. MAX_STEPS \in S /\ S \in SUBSET Nat
  BY FeeUnitsAssumption
<1>2. PICK n \in S : \A m \in S : n <= m
  BY <1>1, LeastNatural
<1>3. n > 0 => packed[n] # ZeroWord
  <2> SUFFICES ASSUME n > 0, packed[n] = ZeroWord PROVE FALSE
    OBVIOUS
  <2>1. \A i \in (n - 1) + 1..MAX_STEPS : i = n \/ i \in n + 1..MAX_STEPS
    BY <1>2, FeeUnitsAssumption
  <2>2. n - 1 \in S
    BY <1>2, <2>1, FeeUnitsAssumption
  <2> QED BY <1>2, <2>2, FeeUnitsAssumption
<1>4. \E k \in 0..MAX_STEPS :
        /\ k > 0 => packed[k] # ZeroWord
        /\ \A i \in k + 1..MAX_STEPS : packed[i] = ZeroWord
  BY <1>2, <1>3
<1> QED BY <1>4 DEF StepsCount

\* A schedule survives being unpacked and packed again, and all its words are
\* within the largest commission once packPerformanceCommission accepts it.
LEMMA PackUnpack ==
  ASSUME NEW packed \in Packed
  PROVE  /\ PackPerformanceCommission(UnpackPerformanceCommission(packed)) = packed
         /\ ValidSteps(UnpackPerformanceCommission(packed)) =>
              \A i \in 1..MAX_STEPS : packed[i].commission <= MAX_PERFORMANCE_FEE
<1> PICK n \in 0..MAX_STEPS :
      /\ n = StepsCount(packed)
      /\ \A i \in n + 1..MAX_STEPS : packed[i] = ZeroWord
  BY StepsCountDef
<1> PICK steps : steps = UnpackPerformanceCommission(packed)
  OBVIOUS
<1>1. steps = [i \in 1..n |-> packed[i]]
  BY DEF UnpackPerformanceCommission
<1>2. n \in Nat /\ MAX_STEPS \in Nat /\ n <= MAX_STEPS
  BY FeeUnitsAssumption
<1>3. Len(steps) = n /\ DOMAIN steps = 1..n
  BY <1>1, <1>2
<1>4. \A i \in 1..MAX_STEPS :
        (IF i <= Len(steps) THEN steps[i] ELSE ZeroWord) = packed[i]
  BY <1>1, <1>2, <1>3
<1>5. packed = [i \in 1..MAX_STEPS |-> packed[i]]
  BY DEF Packed
<1>6. PackPerformanceCommission(steps) = packed
  BY <1>4, <1>5 DEF PackPerformanceCommission
<1>7. ASSUME ValidSteps(steps), NEW i \in 1..MAX_STEPS
      PROVE  packed[i].commission <= MAX_PERFORMANCE_FEE
  <2>1. CASE i <= n
    <3>1. i \in DOMAIN steps /\ steps[i] = packed[i]
      BY <1>1, <1>2, <1>3, <2>1
    <3>2. steps[i].commission <= MAX_PERFORMANCE_FEE
      BY <1>7, <3>1 DEF ValidSteps
    <3> QED BY <3>1, <3>2
  <2>2. CASE i > n
    BY <1>2, <2>2, FeeUnitsAssumption DEF ZeroWord
  <2> QED BY <1>2, <2>1, <2>2
<1> QED BY <1>6, <1>7

\* A rate never selects a commission above the largest one of the schedule.
LEMMA CommissionBound ==
  ASSUME NEW packed \in Packed, NEW apyRate \in Nat, NEW bound \in Nat,
         \A i \in 1..MAX_STEPS : packed[i].commission <= bound
  PROVE  PerformanceCommission(packed, apyRate) \in 0..bound
<1> DEFINE exceeded == {i \in 1..StepsCount(packed) :
                          \A j \in 1..i : apyRate > packed[j].step}
<1>1. StepsCount(packed) \in 0..MAX_STEPS
  BY StepsCountDef
<1>2. CASE apyRate = 0 \/ exceeded = {}
  BY <1>2 DEF PerformanceCommission
<1>3. CASE ~(apyRate = 0 \/ exceeded = {})
  <2> DEFINE Above == {k \in Nat : \A i \in exceeded : i <= k}
  <2>1. StepsCount(packed) \in Above /\ Above \in SUBSET Nat
    BY <1>1, FeeUnitsAssumption
  <2>2. PICK k \in Above : \A m \in Above : k <= m
    <3> HIDE DEF Above
    <3> QED BY <2>1, LeastNatural
  <2>3. k \in exceeded
    <3> SUFFICES ASSUME k \notin exceeded PROVE FALSE
      OBVIOUS
    <3>1. \A i \in exceeded : i \in Nat /\ i <= k /\ i # k /\ i > 0
      BY <1>1, <2>2, FeeUnitsAssumption
    <3>2. k - 1 \in Above
      BY <1>3, <3>1, <2>2
    <3> QED BY <2>2, <3>2
  <2>4. \E i \in exceeded : \A j \in exceeded : j <= i
    BY <2>2, <2>3
  <2>5. PICK i \in exceeded :
          PerformanceCommission(packed, apyRate) = packed[i].commission
    BY <1>3, <2>4 DEF PerformanceCommission
  <2>6. i \in 1..MAX_STEPS
    BY <1>1, <2>5, FeeUnitsAssumption
  <2>7. packed[i].commission \in Nat
    BY <2>6, FeeUnitsAssumption DEF Packed, Word
  <2> QED BY <2>5, <2>6, <2>7
<1> QED BY <1>2, <1>3

\* _sharesByQuote returns a number of shares.
LEMMA SharesByQuoteType ==
  ASSUME NEW q \in Nat, NEW s \in Nat, NEW c \in Nat
  PROVE  SharesByQuote(q, s, c) \in Nat
BY DEF SharesByQuote

LEMMA TimeFeeType ==
  ASSUME NEW cost \in Nat, NEW t \in Nat, NEW c \in Nat
  PROVE  TimeFee(cost, t, c) \in Nat
<1>1. (cost * t) \div YEAR \in Nat
  BY FeeUnitsAssumption
<1> QED BY <1>1, FeeUnitsAssumption DEF TimeFee

\* The performance fee is at most the largest commission a manager may set
\* (packPerformanceCommission) of the profit over the high-water mark, and
\* so never more than the profit: fees cannot push the pool below its mark.
THEOREM PerformanceFeeBound ==
  ASSUME NEW packed \in Packed, NEW net \in Nat, NEW hwm \in Nat,
         net > hwm => hwm > 0,
         \A i \in 1..MAX_STEPS : packed[i].commission <= MAX_PERFORMANCE_FEE
  PROVE  /\ PerformanceFee(net, hwm, packed) \in Nat
         /\ net > hwm => /\ PerformanceFee(net, hwm, packed) * ONE_HUNDRED_PERCENT
                              <= (net - hwm) * MAX_PERFORMANCE_FEE
                         /\ PerformanceFee(net, hwm, packed) <= net - hwm
<1>1. CASE net <= hwm
  BY <1>1 DEF PerformanceFee
<1>2. CASE net > hwm
  <2> DEFINE profit  == net - hwm
             rate    == (profit * ONE_HUNDRED_PERCENT) \div hwm
             apyRate == IF rate > MAX_COMMISSION_STEP THEN MAX_COMMISSION_STEP ELSE rate
             com     == PerformanceCommission(packed, apyRate)
             fee     == (profit * com) \div ONE_HUNDRED_PERCENT
  <2>1. profit \in Nat /\ hwm > 0
    BY <1>2
  <2>2. rate \in Nat
    BY <2>1, FeeUnitsAssumption
  <2>3. com \in 0..MAX_PERFORMANCE_FEE
    BY <2>2, CommissionBound, FeeUnitsAssumption
  <2>4. PerformanceFee(net, hwm, packed) = fee
    BY <1>2 DEF PerformanceFee
  <2> HIDE DEF com, profit
  <2>5. /\ fee \in Nat
        /\ fee * ONE_HUNDRED_PERCENT <= profit * com
    BY <2>1, <2>3, FeeUnitsAssumption
  <2>6. profit * com <= profit * MAX_PERFORMANCE_FEE
    BY <2>1, <2>3, FeeUnitsAssumption
  <2>7. fee * ONE_HUNDRED_PERCENT <= profit * MAX_PERFORMANCE_FEE
    BY <2>1, <2>3, <2>5, <2>6, FeeUnitsAssumption
  <2>8. fee <= profit
    BY <2>1, <2>5, <2>7, FeeUnitsAssumption
  <2> QED BY <1>2, <2>4, <2>5, <2>7, <2>8 DEF profit
<1> QED BY <1>1, <1>2

LEMMA PerformanceFeeType ==
  ASSUME NEW packed \in Packed, NEW net \in Nat, NEW hwm \in Nat,
         net > hwm => hwm > 0
  PROVE  PerformanceFee(net, hwm, packed) \in Nat
<1>1. CASE net <= hwm
  BY <1>1 DEF PerformanceFee
<1>2. CASE net > hwm
  <2> DEFINE profit  == net - hwm
             rate    == (profit * ONE_HUNDRED_PERCENT) \div hwm
             apyRate == IF rate > MAX_COMMISSION_STEP THEN MAX_COMMISSION_STEP ELSE rate
             com     == PerformanceCommission(packed, apyRate)
  <2>1. profit \in Nat /\ hwm > 0
    BY <1>2
  <2>2. apyRate \in Nat
    BY <2>1, FeeUnitsAssumption
  <2>3. \A i \in 1..MAX_STEPS : packed[i].commission <= MAX_COMMISSION_STEP
    BY FeeUnitsAssumption DEF Packed, Word
  <2>4. com \in Nat
    BY <2>2, <2>3, CommissionBound, FeeUnitsAssumption
  <2>5. PerformanceFee(net, hwm, packed) = (profit * com) \div ONE_HUNDRED_PERCENT
    BY <1>2 DEF PerformanceFee
  <2> HIDE DEF com, profit
  <2> QED BY <2>1, <2>4, <2>5, FeeUnitsAssumption
<1> QED BY <1>1, <1>2

\* Unless it reverts, calculateFee returns numbers of shares.
LEMMA CalculateFeeType ==
  ASSUME NEW fees \in FeeConfig, NEW cost \in Nat, NEW hwm \in Nat,
         NEW time \in Nat, NEW supply \in Nat,
         ~FeesRevert(fees, cost, hwm, time)
  PROVE  /\ CalculateFee(fees, cost, hwm, time, supply).sharesToUFarm \in Nat
         /\ CalculateFee(fees, cost, hwm, time, supply).sharesToFund \in Nat
<1>1. CASE time = 0
  BY <1>1 DEF CalculateFee, NoFee
<1>2. CASE time # 0
  <2> DEFINE net  == NetOfTimeFees(fees, cost, time)
             prot == TimeFee(cost, time, fees.protocol)
             mgmt == TimeFee(cost, time, fees.management)
             perf == PerformanceFee(net, hwm, fees.packed)
             totalFundFee   == (4 * (perf + mgmt)) \div 5
             totalUFarmFee  == (totalFundFee \div 4) + prot
             sharesToUFarm  == SharesByQuote(totalUFarmFee, supply, cost)
             sharesToFund   == SharesByQuote(totalFundFee, supply + sharesToUFarm, cost)
  <2>1. /\ fees.protocol \in Nat /\ fees.management \in Nat
        /\ fees.packed \in Packed
    BY DEF FeeConfig
  <2>2. prot \in Nat /\ mgmt \in Nat
    BY <2>1, TimeFeeType
  <2>3. net \in Int
    BY <2>2 DEF NetOfTimeFees
  <2>4. net \in Nat /\ (net > hwm => hwm > 0)
    BY <1>2, <2>3 DEF FeesRevert
  <2>5. perf \in Nat
    BY <2>1, <2>4, PerformanceFeeType
  <2>6. /\ CalculateFee(fees, cost, hwm, time, supply).sharesToUFarm = sharesToUFarm
        /\ CalculateFee(fees, cost, hwm, time, supply).sharesToFund = sharesToFund
    BY <1>2 DEF CalculateFee
  <2> HIDE DEF net, prot, mgmt, perf
  <2>7. totalFundFee \in Nat
    BY <2>2, <2>5
  <2>8. totalUFarmFee \in Nat
    BY <2>2, <2>7
  <2> HIDE DEF totalFundFee, totalUFarmFee
  <2>9. sharesToUFarm \in Nat
    BY <2>8, SharesByQuoteType
  <2> HIDE DEF sharesToUFarm
  <2>10. supply + sharesToUFarm \in Nat
    BY <2>9
  <2>11. sharesToFund \in Nat
    BY <2>7, <2>10, SharesByQuoteType
  <2> QED BY <2>6, <2>9, <2>11
<1> QED BY <1>1, <1>2

\* A purchase of shares rounds down, by less than one share.
LEMMA SharesRoundDown ==
  ASSUME NEW q \in Nat, NEW supply \in Nat \ {0}, NEW value \in Nat \ {0},
         NEW bought, bought = SharesByQuote(q, supply, value)
  PROVE  /\ bought \in Nat
         /\ bought * value <= q * supply
         /\ q * supply < (bought + 1) * value
<1> DEFINE product == q * supply
<1>1. product \in Nat
  OBVIOUS
<1>2. bought = product \div value
  BY DEF SharesByQuote
<1>. HIDE DEF product
<1>3. bought \in Nat /\ bought * value <= product /\ product < (bought + 1) * value
  BY <1>1, <1>2
<1>. QED BY <1>3 DEF product

\* Two purchases, the second at the supply the first one left, are worth at
\* most what was paid for them.
LEMMA PurchasesNeverOverpaid ==
  ASSUME NEW first \in Nat, NEW second \in Nat, NEW paid \in Nat,
         NEW supply \in Nat, NEW value \in Nat, NEW s \in Nat, NEW t \in Nat,
         s * value <= first * supply, t * value <= second * (supply + s),
         first + second <= paid
  PROVE  (s + t) * value <= paid * (supply + s + t)
<1>1. (s + t) * value = s * value + t * value
  OBVIOUS
<1>2. second * (supply + s) = second * supply + second * s
  OBVIOUS
<1>3. /\ first * supply + second * supply = (first + second) * supply
      /\ second * s <= (first + second) * s
  <2>1. (first + second) * s = first * s + second * s
    OBVIOUS
  <2>2. first * s \in Nat /\ second * s \in Nat
    OBVIOUS
  <2>3. first * supply + second * supply = (first + second) * supply
    OBVIOUS
  <2>. QED BY <2>1, <2>2, <2>3
<1> DEFINE both == first + second
<1>4. /\ both \in Nat /\ both <= paid
      /\ first * supply + second * supply = both * supply /\ second * s <= both * s
  BY <1>3
<1>. HIDE DEF both
<1>5. PICK d \in Nat : paid = both + d
  <2>1. paid - both \in Nat /\ paid = both + (paid - both)
    BY <1>4
  <2>. QED BY <2>1
<1>6. paid * (supply + s + t) = both * supply + both * s + both * t + d * (supply + s + t)
  BY <1>4, <1>5
<1>7. /\ both * t \in Nat /\ d * (supply + s + t) \in Nat /\ both * supply \in Nat
      /\ both * s \in Nat /\ s * value \in Nat /\ t * value \in Nat
      /\ first * supply \in Nat /\ second * supply \in Nat /\ second * s \in Nat
  BY <1>4, <1>5
<1> DEFINE v1 == s * value
           v2 == t * value
           w1 == first * supply
           w2 == second * supply
           w3 == second * s
           u1 == both * supply
           u2 == both * s
           u3 == both * t
           u4 == d * (supply + s + t)
           l  == (s + t) * value
           r  == paid * (supply + s + t)
<1>8. /\ l = v1 + v2 /\ v1 <= w1 /\ v2 <= w2 + w3 /\ w1 + w2 = u1 /\ w3 <= u2
      /\ r = u1 + u2 + u3 + u4
      /\ v1 \in Nat /\ v2 \in Nat /\ w1 \in Nat /\ w2 \in Nat /\ w3 \in Nat
      /\ u1 \in Nat /\ u2 \in Nat /\ u3 \in Nat /\ u4 \in Nat
  BY <1>1, <1>2, <1>4, <1>6, <1>7
<1>9. l <= r
  <2>. HIDE DEF v1, v2, w1, w2, w3, u1, u2, u3, u4, l, r
  <2>. QED BY <1>8
<1>. QED BY <1>9 DEF l, r

\* What calculateFee returns: the holders are not diluted beyond the fees, and
\* each recipient gets its fee in shares but for the rounding, the fund at the
\* supply that the core's shares leave.
LEMMA FeeSharesPriced ==
  ASSUME NEW fees \in FeeConfig, NEW value \in Nat \ {0}, NEW hwm \in Nat,
         NEW time \in Nat, NEW supply \in Nat \ {0},
         ~FeesRevert(fees, value, hwm, time),
         NEW fee, fee = CalculateFee(fees, value, hwm, time, supply),
         NEW fundFee, fundFee = (4 * (fee.performanceFee + fee.managementFee)) \div 5,
         NEW coreFee, coreFee = fundFee \div 4 + fee.protocolFee
  PROVE  /\ fee.sharesToUFarm \in Nat /\ fee.sharesToFund \in Nat
         /\ (fee.sharesToUFarm + fee.sharesToFund) * value
              <= (fee.protocolFee + fee.managementFee + fee.performanceFee)
                   * (supply + fee.sharesToUFarm + fee.sharesToFund)
         /\ coreFee * supply < (fee.sharesToUFarm + 1) * value
         /\ fundFee * (supply + fee.sharesToUFarm) < (fee.sharesToFund + 1) * value
<1>1. CASE time = 0
  <2>1. /\ fee.sharesToUFarm = 0 /\ fee.sharesToFund = 0 /\ fee.protocolFee = 0
        /\ fee.managementFee = 0 /\ fee.performanceFee = 0
    BY <1>1 DEF CalculateFee, NoFee
  <2>2. fundFee = 0 /\ coreFee = 0
    BY <2>1
  <2>. QED BY <2>1, <2>2
<1>2. CASE time # 0
  <2> DEFINE net  == NetOfTimeFees(fees, value, time)
             prot == TimeFee(value, time, fees.protocol)
             mgmt == TimeFee(value, time, fees.management)
             perf == PerformanceFee(net, hwm, fees.packed)
  <2>1. /\ fees.protocol \in Nat /\ fees.management \in Nat
        /\ fees.packed \in Packed
    BY DEF FeeConfig
  <2>2. prot \in Nat /\ mgmt \in Nat
    BY <2>1, TimeFeeType
  <2>3. net \in Int
    BY <2>2 DEF NetOfTimeFees
  <2>4. net \in Nat /\ (net > hwm => hwm > 0)
    BY <1>2, <2>3 DEF FeesRevert
  <2>5. perf \in Nat
    BY <2>1, <2>4, PerformanceFeeType
  <2>6. /\ fee.protocolFee = prot /\ fee.managementFee = mgmt /\ fee.performanceFee = perf
    BY <1>2 DEF CalculateFee
  <2>7. fundFee = (4 * (perf + mgmt)) \div 5 /\ coreFee = fundFee \div 4 + prot
    BY <2>6
  <2>8. /\ fee.sharesToUFarm = SharesByQuote(coreFee, supply, value)
        /\ fee.sharesToFund = SharesByQuote(fundFee, supply + fee.sharesToUFarm, value)
    BY <1>2, <2>7 DEF CalculateFee
  <2> HIDE DEF net, prot, mgmt, perf
  <2>9. /\ fundFee \in Nat /\ coreFee \in Nat
        /\ coreFee + fundFee <= prot + mgmt + perf
    BY <2>2, <2>5, <2>7
  <2>10. /\ fee.sharesToUFarm \in Nat
         /\ fee.sharesToUFarm * value <= coreFee * supply
         /\ coreFee * supply < (fee.sharesToUFarm + 1) * value
    BY <2>8, <2>9, SharesRoundDown
  <2>11. supply + fee.sharesToUFarm \in Nat \ {0}
    BY <2>10
  <2>12. /\ fee.sharesToFund \in Nat
         /\ fee.sharesToFund * value <= fundFee * (supply + fee.sharesToUFarm)
         /\ fundFee * (supply + fee.sharesToUFarm) < (fee.sharesToFund + 1) * value
    BY <2>8, <2>9, <2>11, SharesRoundDown, ZenonT(60)
  <2>13. prot + mgmt + perf \in Nat
    BY <2>2, <2>5
  <2>14. (fee.sharesToUFarm + fee.sharesToFund) * value
           <= (prot + mgmt + perf) * (supply + fee.sharesToUFarm + fee.sharesToFund)
    <3> DEFINE s == fee.sharesToUFarm
               t == fee.sharesToFund
               p == prot + mgmt + perf
    <3>1. /\ s \in Nat /\ t \in Nat /\ p \in Nat /\ coreFee + fundFee <= p
          /\ s * value <= coreFee * supply /\ t * value <= fundFee * (supply + s)
      BY <2>9, <2>10, <2>12, <2>13
    <3>2. value \in Nat /\ supply \in Nat /\ coreFee \in Nat /\ fundFee \in Nat
      BY <2>9
    <3>3. (s + t) * value <= p * (supply + s + t)
      <4>. HIDE DEF s, t, p
      <4>. QED BY <3>1, <3>2, PurchasesNeverOverpaid
    <3>. QED BY <3>3
  <2>. QED BY <2>6, <2>10, <2>12, <2>14
<1>. QED BY <1>1, <1>2

-----------------------------------------------------------------------------
(* What the constants are                                                  *)

\* What PoolAssumption says of the constants the types need.
LEMMA ConstantTypes ==
  /\ Fund \in Holders /\ Core \in Holders /\ Investors \subseteq Holders
  /\ ValueToken \in Tokens
  /\ InitialSettings \in Settings
BY PoolAssumption DEF Holders

\* The fees of an accrual, whatever the settings are by then.
LEMMA FeesType ==
  ASSUME settings \in Settings
  PROVE  Fees \in FeeConfig
BY DEF Settings, Fees, FeeConfig, ProtocolCommission

-----------------------------------------------------------------------------
(* Settings                                                                *)

\* The schedules packPerformanceCommission accepts.
Capped(packed) == \A i \in 1..MAX_STEPS : packed[i].commission <= MAX_PERFORMANCE_FEE

SettingsAction ==
  \/ \E c \in Commissions, p \in Schedules : SetCommissions(c, p)
  \/ \E r \in InvestmentRanges : SetInvestmentRange(r[1], r[2])
  \/ \E c \in Commissions : SetProtocolCommission(c)
  \/ \E a \in {"pool", "poolAdmin"}, c \in Commissions : SetSpecificOracle(a, c)
  \/ \E a \in {"pool", "poolAdmin"} : RemoveSpecificOracle(a)
  \/ \E m \in MinimumFundDeposits : SetMinimumFundDeposit(m)
  \/ \E d \in PostActionDelays : SetPostActionDelay(d)

\* Changing the settings changes nothing else, and no schedule above the
\* largest commission gets in.
LEMMA SettingsFacts ==
  ASSUME settings \in Settings, SettingsAction
  PROVE  /\ settings' \in Settings
         /\ UNCHANGED <<poolVars, fundStatus, paused, now, issued>>
         /\ \/ settings'.packedPerformanceFee = settings.packedPerformanceFee
            \/ Capped(settings'.packedPerformanceFee)
<1> DEFINE Goal == /\ settings' \in Settings
                   /\ UNCHANGED <<poolVars, fundStatus, paused, now, issued>>
                   /\ \/ settings'.packedPerformanceFee = settings.packedPerformanceFee
                      \/ Capped(settings'.packedPerformanceFee)
<1>1. ASSUME NEW c \in Commissions, NEW p \in Schedules, SetCommissions(c, p)
      PROVE  Goal
  <2>1. c \in Nat /\ p \in Packed
    BY PoolAssumption
  <2>2. PackPerformanceCommission(UnpackPerformanceCommission(p)) = p /\ Capped(p)
    BY <1>1, <2>1, PackUnpack DEF SetCommissions, Capped
  <2>3. settings' = [settings EXCEPT !.managementCommission = c,
                                     !.packedPerformanceFee = p]
    BY <1>1, <2>2 DEF SetCommissions, ChangeSettings
  <2>4. settings' \in Settings /\ settings'.packedPerformanceFee = p
    BY <2>1, <2>3 DEF Settings
  <2> QED BY <1>1, <2>2, <2>4 DEF SetCommissions, ChangeSettings
<1>2. ASSUME NEW r \in InvestmentRanges, SetInvestmentRange(r[1], r[2])
      PROVE  Goal
  <2>1. r[1] \in Nat /\ r[2] \in Nat
    BY PoolAssumption
  <2> QED BY <1>2, <2>1 DEF SetInvestmentRange, ChangeSettings, Settings
<1>3. ASSUME NEW c \in Commissions, SetProtocolCommission(c) PROVE Goal
  BY <1>3, PoolAssumption DEF SetProtocolCommission, ChangeSettings, Settings
<1>4. ASSUME NEW a \in {"pool", "poolAdmin"}, NEW c \in Nat \cup {NoCommission},
             ChangeSettings([settings EXCEPT !.specificCommission[a] = c])
      PROVE  Goal
  <2>1. [settings.specificCommission EXCEPT ![a] = c]
          \in [{"pool", "poolAdmin"} -> Nat \cup {NoCommission}]
    BY DEF Settings
  <2>2. settings' = [settings EXCEPT
          !.specificCommission = [settings.specificCommission EXCEPT ![a] = c]]
    BY <1>4 DEF ChangeSettings, Settings
  <2> QED BY <1>4, <2>1, <2>2 DEF ChangeSettings, Settings
<1>5. ASSUME NEW a \in {"pool", "poolAdmin"}, NEW c \in Commissions,
             SetSpecificOracle(a, c)
      PROVE  Goal
  BY <1>4, <1>5, PoolAssumption DEF SetSpecificOracle
<1>6. ASSUME NEW a \in {"pool", "poolAdmin"}, RemoveSpecificOracle(a) PROVE Goal
  BY <1>4, <1>6 DEF RemoveSpecificOracle
<1>7. ASSUME NEW m \in MinimumFundDeposits, SetMinimumFundDeposit(m) PROVE Goal
  BY <1>7, PoolAssumption DEF SetMinimumFundDeposit, ChangeSettings, Settings
<1>8. ASSUME NEW d \in PostActionDelays, SetPostActionDelay(d) PROVE Goal
  BY <1>8, PoolAssumption DEF SetPostActionDelay, ChangeSettings, Settings
<1> QED BY <1>1, <1>2, <1>3, <1>5, <1>6, <1>7, <1>8 DEF SettingsAction

-----------------------------------------------------------------------------
(* The ledger                                                              *)

\* A record with the fields of a ledger; the provers see through an EXCEPT on
\* a ledger one field at a time and need its shape stated.
Shaped(m) ==
  m = [totalCost |-> m.totalCost, highWaterMark |-> m.highWaterMark,
       lastAccrual |-> m.lastAccrual, supply |-> m.supply, shares |-> m.shares,
       cash |-> m.cash, depositQueue |-> m.depositQueue,
       withdrawQueue |-> m.withdrawQueue, usedDeposits |-> m.usedDeposits,
       usedWithdrawals |-> m.usedWithdrawals, pending |-> m.pending,
       unprocessed |-> m.unprocessed, pulls |-> m.pulls, payouts |-> m.payouts,
       answered |-> m.answered]

LEMMA LedgerIntro ==
  ASSUME NEW m, Shaped(m),
         m.totalCost \in Nat, m.highWaterMark \in Nat, m.lastAccrual \in Nat,
         m.supply \in Nat, m.shares \in [Holders -> Nat], m.cash \in [Tokens -> Nat],
         m.depositQueue \in Seq(DepositItems), m.withdrawQueue \in Seq(WithdrawItems),
         m.usedDeposits \in SUBSET DepositRequests,
         m.usedWithdrawals \in SUBSET WithdrawRequests,
         m.pending \in [WithdrawRequests -> Nat],
         m.unprocessed \in WithdrawRequests \cup {NoHash},
         m.pulls \in [DepositRequests -> Nat], m.payouts \in [WithdrawRequests -> Nat],
         m.answered \in Nat
  PROVE  m \in Ledger
BY DEF Shaped, Ledger

LEMMA LedgerElim ==
  ASSUME NEW m \in Ledger
  PROVE  /\ Shaped(m)
         /\ m.totalCost \in Nat /\ m.highWaterMark \in Nat /\ m.lastAccrual \in Nat
         /\ m.supply \in Nat /\ m.shares \in [Holders -> Nat] /\ m.cash \in [Tokens -> Nat]
         /\ m.depositQueue \in Seq(DepositItems) /\ m.withdrawQueue \in Seq(WithdrawItems)
         /\ m.usedDeposits \in SUBSET DepositRequests
         /\ m.usedWithdrawals \in SUBSET WithdrawRequests
         /\ m.pending \in [WithdrawRequests -> Nat]
         /\ m.unprocessed \in WithdrawRequests \cup {NoHash}
         /\ m.pulls \in [DepositRequests -> Nat] /\ m.payouts \in [WithdrawRequests -> Nat]
         /\ m.answered \in Nat
BY DEF Shaped, Ledger

-----------------------------------------------------------------------------
(* Types.  A ledger keeps its type only because no holder has more shares  *)
(* than the supply (a burn) and no accrual lies in the future (the elapsed *)
(* time), so the inductive invariant says both.                            *)

SharesSumUp(l) == AddUpTo(Holders, l.shares, l.supply)

TypeInv ==
  /\ TypeOK
  /\ pool.lastAccrual <= now
  /\ SharesSumUp(pool)
  /\ stage # "idle" => work.lastAccrual <= now /\ SharesSumUp(work)

LEMMA HoldersFinite == IsFiniteSet(Holders)
<1>1. IsFiniteSet(Investors)
  BY PoolAssumption
<1>2. IsFiniteSet(Investors \cup {Fund})
  BY <1>1, FS_AddElement
<1>3. IsFiniteSet((Investors \cup {Fund}) \cup {Core})
  BY <1>2, FS_AddElement
<1>4. Holders = (Investors \cup {Fund}) \cup {Core}
  BY DEF Holders
<1> QED BY <1>3, <1>4

LEMMA TypeInit == Init => TypeInv
<1> SUFFICES ASSUME Init PROVE TypeInv
  OBVIOUS
<1>1. Shaped(pool)
  BY DEF Init, Shaped
<1>2. pool \in Ledger
  <2>1. /\ pool.totalCost = 0 /\ pool.highWaterMark = 0 /\ pool.lastAccrual = 0
        /\ pool.supply = 0 /\ pool.answered = 0
        /\ pool.depositQueue = <<>> /\ pool.withdrawQueue = <<>>
        /\ pool.usedDeposits = {} /\ pool.usedWithdrawals = {}
        /\ pool.unprocessed = NoHash
    BY DEF Init
  <2>2. /\ pool.shares \in [Holders -> Nat] /\ pool.cash \in [Tokens -> Nat]
        /\ pool.pending \in [WithdrawRequests -> Nat]
        /\ pool.pulls \in [DepositRequests -> Nat]
        /\ pool.payouts \in [WithdrawRequests -> Nat]
    BY DEF Init
  <2>3. pool.depositQueue \in Seq(DepositItems) /\ pool.withdrawQueue \in Seq(WithdrawItems)
    BY <2>1, EmptySeq
  <2>4. /\ pool.totalCost \in Nat /\ pool.highWaterMark \in Nat /\ pool.lastAccrual \in Nat
        /\ pool.supply \in Nat /\ pool.answered \in Nat
        /\ pool.usedDeposits \in SUBSET DepositRequests
        /\ pool.usedWithdrawals \in SUBSET WithdrawRequests
        /\ pool.unprocessed \in WithdrawRequests \cup {NoHash}
    BY <2>1
  <2> QED BY <1>1, <2>2, <2>3, <2>4, LedgerIntro
<1>3. LockupPeriods \subseteq Nat
  BY PoolAssumption
<1>4. TypeOK
  <2>1. lockup \in Nat
    BY <1>3 DEF Init
  <2>2. requestId \in 0..issued /\ issued \in Nat /\ now \in Nat \ {0}
    BY DEF Init
  <2>3. status \in PoolStatus /\ fundStatus \in FundStatus
    BY DEF Init, PoolStatus, FundStatus, Created, Terminated, FundApproved,
           FundTerminated
  <2>4. /\ stage \in {"idle", "deposits", "withdrawals"}
        /\ work \in Ledger \cup {NoWork} /\ (work = NoWork <=> stage = "idle")
        /\ totalDeposit \in Nat /\ paused \in BOOLEAN
        /\ delayExpiration \in Nat /\ minClientTier \in Nat
        /\ settings \in Settings
    BY ConstantTypes DEF Init
  <2> QED BY <1>2, <2>1, <2>2, <2>3, <2>4 DEF TypeOK
<1>5. SharesSumUp(pool)
  <2>1. pool.shares \in [Holders -> Nat] /\ \A h \in Holders : pool.shares[h] = 0
    BY DEF Init
  <2>2. pool.supply = 0
    BY DEF Init
  <2> QED BY <2>1, <2>2, HoldersFinite, ZerosAddUp DEF SharesSumUp
<1> QED BY <1>4, <1>5 DEF TypeInv, Init

\* A transaction outside the callback that leaves a ledger with consistent
\* shares behind.
LEMMA ExternalTypes ==
  ASSUME TypeInv, stage = "idle", UNCHANGED callbackVars,
         pool' \in Ledger, pool'.lastAccrual = pool.lastAccrual, SharesSumUp(pool'),
         status' \in PoolStatus, requestId' \in 0..issued', delayExpiration' \in Nat,
         minClientTier' \in Nat, lockup' \in Nat, fundStatus' \in FundStatus,
         paused' \in BOOLEAN, now' \in Nat, now' >= now, issued' \in Nat,
         settings' \in Settings
  PROVE  TypeInv'
<1>1. TypeOK'
  BY DEF TypeInv, TypeOK, callbackVars
<1>2. pool.lastAccrual \in Nat /\ now \in Nat
  BY LedgerElim DEF TypeInv, TypeOK
<1>3. pool'.lastAccrual <= now'
  BY <1>2 DEF TypeInv
<1>4. stage' = "idle"
  BY DEF callbackVars
<1> QED BY <1>1, <1>3, <1>4 DEF TypeInv

LEMMA SendQuexRequestTypes ==
  ASSUME TypeOK, SendQuexRequest
  PROVE  requestId' \in 0..issued' /\ issued' \in Nat
BY DEF TypeOK, SendQuexRequest

\* Queueing changes neither the shares nor the accrual.
LEMMA QueueTypes ==
  ASSUME NEW l \in Ledger, NEW m,
         \/ \E q \in Seq(DepositItems) : m = [l EXCEPT !.depositQueue = q]
         \/ \E q \in Seq(WithdrawItems) : m = [l EXCEPT !.withdrawQueue = q]
         \/ \E q \in [WithdrawRequests -> Nat] : m = [l EXCEPT !.pending = q]
         \/ \E q \in WithdrawRequests \cup {NoHash} : m = [l EXCEPT !.unprocessed = q]
         \/ \E q \in [Tokens -> Nat] : m = [l EXCEPT !.cash = q]
  PROVE  /\ m \in Ledger
         /\ m.lastAccrual = l.lastAccrual /\ m.shares = l.shares /\ m.supply = l.supply
BY ZenonT(60) DEF Ledger

\* Every transaction but the callback keeps the types.
LEMMA TransactionTypes ==
  ASSUME TypeInv, External
  PROVE  TypeInv'
<1>0. /\ stage = "idle" /\ UNCHANGED callbackVars /\ Transaction
      /\ pool \in Ledger /\ SharesSumUp(pool) /\ TypeOK
  BY DEF External, TypeInv, TypeOK
<1> USE <1>0
<1>q. ASSUME NEW q, pool' = [pool EXCEPT !.depositQueue = q], q \in Seq(DepositItems)
      PROVE  /\ pool' \in Ledger /\ pool'.lastAccrual = pool.lastAccrual
             /\ SharesSumUp(pool')
  BY <1>q, QueueTypes DEF SharesSumUp
<1>w. ASSUME NEW q, pool' = [pool EXCEPT !.withdrawQueue = q], q \in Seq(WithdrawItems)
      PROVE  /\ pool' \in Ledger /\ pool'.lastAccrual = pool.lastAccrual
             /\ SharesSumUp(pool')
  BY <1>w, QueueTypes DEF SharesSumUp
<1>p. ASSUME NEW q, pool' = [pool EXCEPT !.pending = q], q \in [WithdrawRequests -> Nat]
      PROVE  /\ pool' \in Ledger /\ pool'.lastAccrual = pool.lastAccrual
             /\ SharesSumUp(pool')
  BY <1>p, QueueTypes DEF SharesSumUp
<1>u. ASSUME NEW q, pool' = [pool EXCEPT !.unprocessed = q],
             q \in WithdrawRequests \cup {NoHash}
      PROVE  /\ pool' \in Ledger /\ pool'.lastAccrual = pool.lastAccrual
             /\ SharesSumUp(pool')
  BY <1>u, QueueTypes DEF SharesSumUp
<1>c. ASSUME NEW q, pool' = [pool EXCEPT !.cash = q], q \in [Tokens -> Nat]
      PROVE  /\ pool' \in Ledger /\ pool'.lastAccrual = pool.lastAccrual
             /\ SharesSumUp(pool')
  BY <1>c, QueueTypes DEF SharesSumUp
<1>k. pool' = pool => /\ pool' \in Ledger /\ pool'.lastAccrual = pool.lastAccrual
                      /\ SharesSumUp(pool')
  OBVIOUS
<1>t. /\ status \in PoolStatus /\ requestId \in 0..issued /\ delayExpiration \in Nat
      /\ minClientTier \in Nat /\ lockup \in Nat /\ fundStatus \in FundStatus
      /\ paused \in BOOLEAN /\ now \in Nat /\ issued \in Nat
      /\ settings \in Settings
  BY DEF TypeOK
<1>s. ASSUME SendQuexRequest, pool' \in Ledger, pool'.lastAccrual = pool.lastAccrual,
             SharesSumUp(pool'),
             UNCHANGED <<status, delayExpiration, minClientTier, lockup,
                         fundStatus, paused, now, settings>>
      PROVE  TypeInv'
  <2>1. requestId' \in 0..issued' /\ issued' \in Nat
    BY <1>s, SendQuexRequestTypes
  <2>2. now' >= now
    BY <1>s, <1>t
  <2> QED BY <1>s, <1>t, <2>1, <2>2, ExternalTypes
<1>1. ASSUME NEW s \in Investors \cup {Fund}, NEW a \in DepositAmounts, NEW t \in Tokens,
             Deposit(s, a, t)
      PROVE  TypeInv'
  <2> DEFINE item == [amount |-> a, minOutput |-> 0, hash |-> NoHash,
                      investor |-> s, token |-> t]
  <2>1. item \in DepositItems
    BY PoolAssumption DEF DepositItems
  <2>2. Append(pool.depositQueue, item) \in Seq(DepositItems)
    BY <2>1, LedgerElim, AppendProperties
  <2>3. pool' = [pool EXCEPT !.depositQueue = Append(pool.depositQueue, item)]
    BY <1>1 DEF Deposit
  <2> HIDE DEF item
  <2>a. /\ pool' \in Ledger /\ pool'.lastAccrual = pool.lastAccrual
        /\ SharesSumUp(pool')
    BY <1>q, <2>2, <2>3
  <2> QED BY <1>1, <1>s, <2>a DEF Deposit
<1>2. ASSUME ApproveDeposits PROVE TypeInv'
  <2>0. PICK n \in 0..QueueLimit - Len(pool.depositQueue) :
          \E batch \in [1..n -> {r \in DepositRequests : ValidDepositRequest(r)}] :
            pool' = [pool EXCEPT !.depositQueue =
                       pool.depositQueue \o [i \in 1..n |-> DepositItem(batch[i])]]
    BY <1>2 DEF ApproveDeposits
  <2>1. PICK batch \in [1..n -> {r \in DepositRequests : ValidDepositRequest(r)}] :
          pool' = [pool EXCEPT !.depositQueue =
                     pool.depositQueue \o [i \in 1..n |-> DepositItem(batch[i])]]
    BY <2>0
  <2> DEFINE items == [i \in 1..n |-> DepositItem(batch[i])]
  <2>2. n \in Nat /\ \A i \in 1..n : batch[i] \in DepositRequests
    BY <2>1
  <2>3. \A r \in DepositRequests : DepositItem(r) \in DepositItems
    BY PoolAssumption DEF DepositItem, DepositItems
  <2>4. items \in Seq(DepositItems)
    BY <2>2, <2>3
  <2>5. pool.depositQueue \o items \in Seq(DepositItems)
    BY <2>4, LedgerElim, ConcatProperties
  <2> HIDE DEF items
  <2>6. pool' = [pool EXCEPT !.depositQueue = pool.depositQueue \o items]
    BY <2>1 DEF items
  <2>a. /\ pool' \in Ledger /\ pool'.lastAccrual = pool.lastAccrual
        /\ SharesSumUp(pool')
    BY <1>q, <2>5, <2>6
  <2> QED BY <1>2, <1>s, <2>a DEF ApproveDeposits
<1>3. ASSUME NEW t \in Tokens, ApproveWithdrawals(t) PROVE TypeInv'
  <2>0. PICK n \in 0..QueueLimit - Len(pool.withdrawQueue) :
          \E batch \in [1..n -> {r \in WithdrawRequests : ValidWithdrawRequest(r)}] :
            pool' = [pool EXCEPT !.withdrawQueue =
                       pool.withdrawQueue \o [i \in 1..n |-> WithdrawItem(batch[i], t)]]
    BY <1>3 DEF ApproveWithdrawals
  <2>1. PICK batch \in [1..n -> {r \in WithdrawRequests : ValidWithdrawRequest(r)}] :
          pool' = [pool EXCEPT !.withdrawQueue =
                     pool.withdrawQueue \o [i \in 1..n |-> WithdrawItem(batch[i], t)]]
    BY <2>0
  <2> DEFINE items == [i \in 1..n |-> WithdrawItem(batch[i], t)]
  <2>2. n \in Nat /\ \A i \in 1..n : batch[i] \in WithdrawRequests
    BY <2>1
  <2>3. \A r \in WithdrawRequests : WithdrawItem(r, t) \in WithdrawItems
    BY PoolAssumption DEF WithdrawItem, WithdrawItems, InvestorWithdrawals
  <2>4. items \in Seq(WithdrawItems)
    BY <2>2, <2>3
  <2>5. pool.withdrawQueue \o items \in Seq(WithdrawItems)
    BY <2>4, LedgerElim, ConcatProperties
  <2> HIDE DEF items
  <2>6. pool' = [pool EXCEPT !.withdrawQueue = pool.withdrawQueue \o items]
    BY <2>1 DEF items
  <2>a. /\ pool' \in Ledger /\ pool'.lastAccrual = pool.lastAccrual
        /\ SharesSumUp(pool')
    BY <1>w, <2>5, <2>6
  <2> QED BY <1>3, <1>s, <2>a DEF ApproveWithdrawals
<1>4. ASSUME NEW a \in FundShares, NEW m \in MinOutputs, NEW t \in Tokens,
             WithdrawByFund(a, m, t)
      PROVE  TypeInv'
  <2> DEFINE item == [amount |-> a, minOutput |-> m, hash |-> FundHash,
                      investor |-> Fund, token |-> t]
  <2>1. item \in WithdrawItems
    BY PoolAssumption DEF WithdrawItems, FundWithdrawals
  <2>2. Append(pool.withdrawQueue, item) \in Seq(WithdrawItems)
    BY <2>1, LedgerElim, AppendProperties
  <2>3. pool' = [pool EXCEPT !.withdrawQueue = Append(pool.withdrawQueue, item)]
    BY <1>4 DEF WithdrawByFund
  <2> HIDE DEF item
  <2>a. /\ pool' \in Ledger /\ pool'.lastAccrual = pool.lastAccrual
        /\ SharesSumUp(pool')
    BY <1>w, <2>2, <2>3
  <2> QED BY <1>4, <1>s, <2>a DEF WithdrawByFund
<1>5. ASSUME NEW r \in WithdrawRequests, RegisterWithdrawal(r) PROVE TypeInv'
  <2>1. pool' = [pool EXCEPT !.pending = [pool.pending EXCEPT ![r] = now]]
    BY <1>5 DEF RegisterWithdrawal
  <2>2. [pool.pending EXCEPT ![r] = now] \in [WithdrawRequests -> Nat]
    BY <1>t, LedgerElim
  <2> QED BY <1>5, <1>p, <1>t, <2>1, <2>2, ExternalTypes
           DEF RegisterWithdrawal, worldVars
<1>6. ASSUME NEW r \in WithdrawRequests, ForceDeactivation(r) PROVE TypeInv'
  <2>1. pool' = [pool EXCEPT !.unprocessed = IF pool.unprocessed = NoHash THEN r
                                             ELSE pool.unprocessed]
    BY <1>6 DEF ForceDeactivation
  <2>2. (IF pool.unprocessed = NoHash THEN r ELSE pool.unprocessed)
           \in WithdrawRequests \cup {NoHash}
    BY LedgerElim
  <2>3. status' \in PoolStatus
    BY <1>6 DEF ForceDeactivation, PoolStatus, Created, Deactivating, Terminated
  <2> QED BY <1>6, <1>u, <1>t, <2>1, <2>2, <2>3, ExternalTypes
           DEF ForceDeactivation, worldVars
<1>7. ASSUME NEW r \in WithdrawRequests, QueueWithdrawal(r) PROVE TypeInv'
  <2>1. WithdrawItem(r, ValueToken) \in WithdrawItems
    BY PoolAssumption DEF WithdrawItem, WithdrawItems, InvestorWithdrawals
  <2>2. Append(pool.withdrawQueue, WithdrawItem(r, ValueToken)) \in Seq(WithdrawItems)
    BY <2>1, LedgerElim, AppendProperties
  <2>3. pool' = [pool EXCEPT !.withdrawQueue =
                   Append(pool.withdrawQueue, WithdrawItem(r, ValueToken))]
    BY <1>7 DEF QueueWithdrawal
  <2>a. /\ pool' \in Ledger /\ pool'.lastAccrual = pool.lastAccrual
        /\ SharesSumUp(pool')
    BY <1>w, <2>2, <2>3
  <2> QED BY <1>7, <1>s, <2>a DEF QueueWithdrawal
<1>8. ASSUME NEW from \in Investors \cup {Core}, NEW to \in Holders,
             NEW a \in TransferAmounts, TransferShares(from, to, a)
      PROVE  TypeInv'
  <2>1. /\ from \in Holders /\ from # to /\ a \in Nat /\ a <= pool.shares[from]
        /\ pool.shares \in [Holders -> Nat]
    BY <1>8, PoolAssumption, LedgerElim DEF Holders, TransferShares
  <2> DEFINE less == [pool.shares EXCEPT ![from] = @ - a]
             more == [less EXCEPT ![to] = @ + a]
  <2>2. less \in [Holders -> Nat] /\ AddUpTo(Holders, less, pool.supply - a)
    BY <2>1, HoldersFinite, SumDecreases DEF SharesSumUp
  <2>3. more \in [Holders -> Nat] /\ AddUpTo(Holders, more, (pool.supply - a) + a)
    <3> HIDE DEF less
    <3>1. pool.supply - a \in Int
      BY <2>1, LedgerElim
    <3>2. more \in [Holders -> Nat]
      BY <2>1, <2>2
    <3> QED BY <2>1, <2>2, <3>1, <3>2, HoldersFinite, SumIncreases
  <2>4. (pool.supply - a) + a = pool.supply
    BY <2>1, LedgerElim
  <2>5. /\ Shaped(pool') /\ pool'.shares = more
        /\ pool'.totalCost = pool.totalCost /\ pool'.highWaterMark = pool.highWaterMark
        /\ pool'.lastAccrual = pool.lastAccrual /\ pool'.supply = pool.supply
        /\ pool'.cash = pool.cash /\ pool'.depositQueue = pool.depositQueue
        /\ pool'.withdrawQueue = pool.withdrawQueue
        /\ pool'.usedDeposits = pool.usedDeposits
        /\ pool'.usedWithdrawals = pool.usedWithdrawals /\ pool'.pending = pool.pending
        /\ pool'.unprocessed = pool.unprocessed /\ pool'.pulls = pool.pulls
        /\ pool'.payouts = pool.payouts /\ pool'.answered = pool.answered
    <3>1. pool' = [pool EXCEPT !.shares = more]
      <4>1. pool' = [pool EXCEPT !.shares[from] = @ - a, !.shares[to] = @ + a]
        BY <1>8 DEF TransferShares
      <4>2. [pool EXCEPT !.shares[from] = @ - a, !.shares[to] = @ + a].shares = more
        BY <2>1 DEF Ledger
      <4> QED BY <4>1, <4>2, <2>1 DEF Ledger
    <3> HIDE DEF more
    <3> QED BY <3>1 DEF Ledger, Shaped
  <2> HIDE DEF more
  <2>6. pool' \in Ledger
    BY <2>3, <2>5, LedgerElim, LedgerIntro
  <2>7. SharesSumUp(pool')
    BY <2>3, <2>4, <2>5 DEF SharesSumUp
  <2> QED BY <1>8, <1>t, <2>5, <2>6, <2>7, ExternalTypes DEF TransferShares, worldVars
<1>9. ASSUME NEW new \in PoolStatus, ChangePoolStatus(new) PROVE TypeInv'
  BY <1>9, <1>k, <1>t, ExternalTypes DEF ChangePoolStatus, worldVars
<1>10. ASSUME NEW q \in LockupPeriods, SetLockupPeriod(q) PROVE TypeInv'
  BY <1>10, <1>k, <1>t, PoolAssumption, ExternalTypes DEF SetLockupPeriod, worldVars
<1>11. ASSUME NEW c \in ClientTiers, SetMinClientTier(c) PROVE TypeInv'
  BY <1>11, <1>k, <1>t, PoolAssumption, ExternalTypes DEF SetMinClientTier, worldVars
<1>12. ASSUME NEW t \in Tokens, NEW c \in CashLevels, ProtocolAction(t, c) PROVE TypeInv'
  <2>1. pool' = [pool EXCEPT !.cash = [pool.cash EXCEPT ![t] = c]]
    BY <1>12 DEF ProtocolAction
  <2>2. [pool.cash EXCEPT ![t] = c] \in [Tokens -> Nat]
    BY PoolAssumption, LedgerElim
  <2>3. delayExpiration' \in Nat
    BY <1>12, <1>t DEF ProtocolAction, Settings
  <2>a. /\ pool' \in Ledger /\ pool'.lastAccrual = pool.lastAccrual
        /\ SharesSumUp(pool')
    BY <1>c, <2>1, <2>2
  <2>4. UNCHANGED <<status, requestId, minClientTier, lockup, worldVars>>
    BY <1>12 DEF ProtocolAction
  <2>5. now' >= now
    BY <1>t, <2>4 DEF worldVars
  <2> QED BY <1>t, <2>a, <2>3, <2>4, <2>5, ExternalTypes DEF worldVars
<1>13. ASSUME ResetOracleRequestId PROVE TypeInv'
  BY <1>13, <1>k, <1>t, ExternalTypes DEF ResetOracleRequestId, worldVars
<1>14. ASSUME NEW new \in FundStatuses, ChangeFundStatus(new) PROVE TypeInv'
  <2>1. fundStatus' \in FundStatus
    BY <1>14, PoolAssumption DEF ChangeFundStatus, FundStatus, FundActive,
       FundTerminated, FundApproved
  <2> QED BY <1>14, <1>k, <1>t, <2>1, ExternalTypes DEF ChangeFundStatus, poolVars
<1>15. ASSUME SwitchPause PROVE TypeInv'
  BY <1>15, <1>k, <1>t, PoolAssumption, ExternalTypes DEF SwitchPause, poolVars
<1>16. ASSUME Tick PROVE TypeInv'
  BY <1>16, <1>k, <1>t, ExternalTypes DEF Tick, poolVars
<1>17. ASSUME SettingsAction PROVE TypeInv'
  BY <1>17, <1>k, <1>t, SettingsFacts, ExternalTypes DEF poolVars
<1> QED BY <1>1, <1>2, <1>3, <1>4, <1>5, <1>6, <1>7, <1>8, <1>9, <1>10, <1>11,
           <1>12, <1>13, <1>14, <1>15, <1>16, <1>17 DEF Transaction, SettingsAction

-----------------------------------------------------------------------------
(* The callback                                                            *)

\* The fields of a ledger other than its shares, value, mark and accrual.
SameRequests(m, l) ==
  /\ m.depositQueue = l.depositQueue /\ m.withdrawQueue = l.withdrawQueue
  /\ m.usedDeposits = l.usedDeposits /\ m.usedWithdrawals = l.usedWithdrawals
  /\ m.pending = l.pending /\ m.unprocessed = l.unprocessed
  /\ m.pulls = l.pulls /\ m.payouts = l.payouts

\* Nobody loses shares, and only the fund and the core get some.
OnlyFeesMinted(m, l) ==
  \A h \in Holders : /\ m.shares[h] >= l.shares[h]
                     /\ h \notin {Fund, Core} => m.shares[h] = l.shares[h]

\* _accrueFee mints the fees to the core and the fund.  Afterwards fees have
\* started to accrue and the high-water mark covers the value.
LEMMA AccrueFeeFacts ==
  ASSUME TypeOK, NEW l \in Ledger, l.lastAccrual <= now, SharesSumUp(l),
         l.lastAccrual # 0 =>
           ~FeesRevert(Fees, l.totalCost, l.highWaterMark, now - l.lastAccrual)
  PROVE  /\ AccrueFee(l) \in Ledger
         /\ AccrueFee(l).lastAccrual <= now /\ AccrueFee(l).lastAccrual # 0
         /\ SharesSumUp(AccrueFee(l))
         /\ AccrueFee(l).totalCost = l.totalCost
         /\ AccrueFee(l).highWaterMark >= l.totalCost
         /\ AccrueFee(l).answered = l.answered
         /\ SameRequests(AccrueFee(l), l)
         /\ OnlyFeesMinted(AccrueFee(l), l)
<1> DEFINE fee == CalculateFee(Fees, l.totalCost, l.highWaterMark,
                               now - l.lastAccrual, l.supply)
<1>1. now \in Nat \ {0}
  BY DEF TypeOK
<1>0. /\ l.totalCost \in Nat /\ l.highWaterMark \in Nat /\ l.lastAccrual \in Nat
      /\ l.supply \in Nat /\ l.shares \in [Holders -> Nat]
  BY LedgerElim
<1> PICK m : m = AccrueFee(l)
  OBVIOUS
<1>2. CASE l.lastAccrual = 0
  <2>1. m = [l EXCEPT !.lastAccrual = now, !.highWaterMark = l.totalCost]
    BY <1>2 DEF AccrueFee
  <2>2. /\ Shaped(m) /\ m.lastAccrual = now /\ m.highWaterMark = l.totalCost
        /\ m.totalCost = l.totalCost /\ m.supply = l.supply /\ m.shares = l.shares
        /\ m.cash = l.cash /\ m.answered = l.answered
    BY <2>1 DEF Ledger, Shaped
  <2>3. SameRequests(m, l)
    BY <2>1 DEF Ledger, SameRequests
  <2>4. m \in Ledger
    BY <1>1, <2>2, <2>3, LedgerElim, LedgerIntro DEF SameRequests
  <2>5. OnlyFeesMinted(m, l)
    BY <1>0, <2>2 DEF OnlyFeesMinted
  <2> QED BY <1>0, <1>1, <2>2, <2>3, <2>4, <2>5 DEF SharesSumUp
<1>3. CASE l.lastAccrual # 0
  <2>1. fee.sharesToUFarm \in Nat /\ fee.sharesToFund \in Nat
    <3>1. now - l.lastAccrual \in Nat
      BY <1>0, <1>1, <1>3
    <3>2. Fees \in FeeConfig
      BY FeesType DEF TypeOK
    <3> QED BY <1>0, <1>3, <3>1, <3>2, CalculateFeeType
  <2> HIDE DEF fee
  <2>2. m = [l EXCEPT
              !.highWaterMark = IF l.totalCost > @ THEN l.totalCost ELSE @,
              !.shares[Core]  = @ + fee.sharesToUFarm,
              !.shares[Fund]  = @ + fee.sharesToFund,
              !.supply        = @ + (fee.sharesToUFarm + fee.sharesToFund),
              !.lastAccrual   = IF fee.sharesToUFarm + fee.sharesToFund > 0 THEN now ELSE @]
    BY <1>3 DEF AccrueFee, fee
  <2>3. Shaped(m)
    BY <2>2 DEF Ledger, Shaped
  <2>4. /\ m.highWaterMark = IF l.totalCost > l.highWaterMark THEN l.totalCost
                                                          ELSE l.highWaterMark
        /\ m.supply = l.supply + (fee.sharesToUFarm + fee.sharesToFund)
        /\ m.lastAccrual = IF fee.sharesToUFarm + fee.sharesToFund > 0 THEN now
                                                           ELSE l.lastAccrual
        /\ m.totalCost = l.totalCost /\ m.cash = l.cash /\ m.answered = l.answered
    BY <2>2 DEF Ledger
  <2>5. SameRequests(m, l)
    BY <2>2 DEF Ledger, SameRequests
  <2> DEFINE toCore == [l.shares EXCEPT ![Core] = @ + fee.sharesToUFarm]
             toFund == [toCore EXCEPT ![Fund] = @ + fee.sharesToFund]
  <2>6. m.shares = toFund
    <3>1. Fund # Core
      BY PoolAssumption
    <3>2. m.shares = [[l.shares EXCEPT ![Core] = @ + fee.sharesToUFarm]
                                EXCEPT ![Fund] = l.shares[Fund] + fee.sharesToFund]
      BY <2>2 DEF Ledger
    <3> QED BY <1>0, <3>1, <3>2, ConstantTypes
  <2>7. toCore \in [Holders -> Nat] /\ toFund \in [Holders -> Nat]
    BY <1>0, <2>1, ConstantTypes
  <2>8. AddUpTo(Holders, toCore, l.supply + fee.sharesToUFarm)
    BY <1>0, <2>1, ConstantTypes, HoldersFinite, SumIncreases DEF SharesSumUp
  <2>9. AddUpTo(Holders, toFund, (l.supply + fee.sharesToUFarm) + fee.sharesToFund)
    <3> HIDE DEF toCore
    <3> QED BY <1>0, <2>1, <2>7, <2>8, ConstantTypes, HoldersFinite, SumIncreases
  <2>14. \A h \in Holders : /\ toFund[h] >= l.shares[h]
                            /\ h \notin {Fund, Core} => toFund[h] = l.shares[h]
    BY <1>0, <2>1, ConstantTypes, PoolAssumption
  <2> HIDE DEF toCore, toFund
  <2>15. OnlyFeesMinted(m, l)
    BY <2>6, <2>14 DEF OnlyFeesMinted
  <2>10. m.supply = (l.supply + fee.sharesToUFarm) + fee.sharesToFund
    BY <1>0, <2>1, <2>4
  <2>11. /\ m.highWaterMark \in Nat /\ m.highWaterMark >= l.totalCost
         /\ m.lastAccrual \in Nat /\ m.lastAccrual <= now /\ m.lastAccrual # 0
         /\ m.supply \in Nat
    BY <1>0, <1>1, <1>3, <2>1, <2>4
  <2>12. m \in Ledger
    <3> HIDE <2>2
    <3> QED BY <2>3, <2>4, <2>5, <2>6, <2>7, <2>11, LedgerElim, LedgerIntro
             DEF SameRequests
  <2>13. SharesSumUp(m)
    BY <2>6, <2>9, <2>10 DEF SharesSumUp
  <2> QED BY <2>4, <2>5, <2>11, <2>12, <2>13, <2>15
<1> QED BY <1>2, <1>3

\* A step of the callback that leaves a ledger with consistent shares.
LEMMA CallbackTypes ==
  ASSUME TypeInv, UNCHANGED <<poolVars, worldVars>>,
         stage' \in {"deposits", "withdrawals"}, totalDeposit' \in Nat,
         work' \in Ledger, work'.lastAccrual <= now, SharesSumUp(work')
  PROVE  TypeInv'
<1>1. work' # NoWork
  BY NoWorkAssumption
<1>2. TypeOK'
  BY <1>1 DEF TypeInv, TypeOK, poolVars, worldVars
<1> QED BY <1>2 DEF TypeInv, poolVars, worldVars, SharesSumUp

\* A callback that ends or reverts.
LEMMA IdleTypes ==
  ASSUME TypeInv, UNCHANGED <<status, delayExpiration, minClientTier, lockup, worldVars>>,
         stage' = "idle", work' = NoWork, totalDeposit' = 0, requestId' \in 0..issued,
         pool' \in Ledger, pool'.lastAccrual <= now, SharesSumUp(pool')
  PROVE  TypeInv'
<1>1. TypeOK'
  BY DEF TypeInv, TypeOK, worldVars
<1> QED BY <1>1 DEF TypeInv, worldVars

\* The ledger an accrual starts from.
Answered(id, value) == [pool EXCEPT !.totalCost = value, !.answered = id]

LEMMA AnsweredLedger ==
  ASSUME TypeInv, NEW id \in Nat, NEW value \in Nat, NEW l, l = Answered(id, value)
  PROVE  /\ l \in Ledger /\ l.totalCost = value /\ l.answered = id
         /\ l.highWaterMark = pool.highWaterMark /\ l.lastAccrual = pool.lastAccrual
         /\ l.supply = pool.supply /\ l.shares = pool.shares /\ l.cash = pool.cash
         /\ SameRequests(l, pool)
<1>1. /\ Shaped(l) /\ l.totalCost = value /\ l.answered = id
      /\ l.highWaterMark = pool.highWaterMark /\ l.lastAccrual = pool.lastAccrual
      /\ l.supply = pool.supply /\ l.shares = pool.shares /\ l.cash = pool.cash
      /\ SameRequests(l, pool)
  BY DEF TypeInv, TypeOK, Ledger, Shaped, SameRequests, Answered
<1>2. pool \in Ledger
  BY DEF TypeInv, TypeOK
<1>3. l \in Ledger
  BY <1>1, <1>2, LedgerElim, LedgerIntro DEF SameRequests
<1>. QED BY <1>1, <1>3

LEMMA AnswerFacts ==
  ASSUME TypeInv, NEW id \in 1..issued, NEW value \in OracleValues,
         BeginCallback(id, value)
  PROVE  /\ work' \in Ledger /\ SharesSumUp(work')
         /\ work'.lastAccrual <= now /\ work'.lastAccrual # 0
         /\ work'.totalCost = value /\ work'.highWaterMark >= value
         /\ work'.answered = id
         /\ SameRequests(work', pool) /\ OnlyFeesMinted(work', pool)
<1> PICK l : l = Answered(id, value)
  OBVIOUS
<1>2. value \in Nat /\ id \in Nat
  BY PoolAssumption DEF TypeInv, TypeOK
<1>1. /\ l.totalCost = value /\ l.answered = id
      /\ l.highWaterMark = pool.highWaterMark /\ l.lastAccrual = pool.lastAccrual
      /\ l.supply = pool.supply /\ l.shares = pool.shares /\ l.cash = pool.cash
      /\ SameRequests(l, pool)
  BY <1>2, AnsweredLedger
<1>3. l \in Ledger
  BY <1>2, AnsweredLedger
<1>4. SharesSumUp(l) /\ l.lastAccrual <= now /\ TypeOK
  BY <1>1 DEF TypeInv, SharesSumUp
<1>5. l.lastAccrual # 0 =>
        ~FeesRevert(Fees, l.totalCost, l.highWaterMark, now - l.lastAccrual)
  BY <1>1 DEF BeginCallback, AccrualReverts
<1>6. work' = AccrueFee(l)
  BY DEF BeginCallback, Answered
<1>7. OnlyFeesMinted(work', l)
  BY <1>3, <1>4, <1>5, <1>6, AccrueFeeFacts
<1>8. OnlyFeesMinted(work', pool)
  BY <1>1, <1>7 DEF OnlyFeesMinted
<1> QED BY <1>1, <1>3, <1>4, <1>5, <1>6, <1>8, AccrueFeeFacts DEF SameRequests

LEMMA AnswerTypes ==
  ASSUME TypeInv, Answer
  PROVE  TypeInv'
<1> PICK id \in 1..issued, value \in OracleValues : BeginCallback(id, value)
  BY DEF Answer
<1>1. work' \in Ledger /\ SharesSumUp(work') /\ work'.lastAccrual <= now
  BY AnswerFacts
<1> QED BY <1>1, CallbackTypes DEF BeginCallback

-----------------------------------------------------------------------------
(* Settling deposits                                                       *)

DItem == Head(work.depositQueue)

\* The ledger a step of the callback starts from.
LEMMA WorkTypes ==
  ASSUME TypeInv, stage # "idle"
  PROVE  /\ work \in Ledger /\ SharesSumUp(work) /\ work.lastAccrual <= now
         /\ work.totalCost \in Nat /\ work.highWaterMark \in Nat /\ work.supply \in Nat
         /\ work.lastAccrual \in Nat /\ work.answered \in Nat
         /\ work.shares \in [Holders -> Nat] /\ work.cash \in [Tokens -> Nat]
         /\ totalDeposit \in Nat
<1>1. work \in Ledger
  BY DEF TypeInv, TypeOK
<1> QED BY <1>1, LedgerElim DEF TypeInv, TypeOK

LEMMA DepositHead ==
  ASSUME TypeInv, NextDeposit
  PROVE  /\ stage = "deposits"
         /\ DItem \in DepositItems
         /\ DItem.amount \in Nat \ {0} /\ DItem.hash \in DepositRequests \cup {NoHash}
         /\ DItem.investor \in Investors \cup {Fund} /\ DItem.investor \in Holders
         /\ DItem.token \in Tokens
         /\ Tail(work.depositQueue) \in Seq(DepositItems)
         /\ Minted(work, DItem) \in Nat
<1>1. stage = "deposits" /\ work.depositQueue # <<>>
  BY DEF NextDeposit
<1>2. work.depositQueue \in Seq(DepositItems)
  BY <1>1, WorkTypes, LedgerElim
<1>3. DItem \in DepositItems /\ Tail(work.depositQueue) \in Seq(DepositItems)
  BY <1>1, <1>2, HeadTailProperties DEF DItem
<1>4. /\ DItem.amount \in Nat \ {0} /\ DItem.hash \in DepositRequests \cup {NoHash}
      /\ DItem.investor \in Investors \cup {Fund} /\ DItem.token \in Tokens
  BY <1>3 DEF DepositItems
<1>5. DItem.investor \in Holders
  BY <1>4 DEF Holders
<1>6. Minted(work, DItem) \in Nat
  BY <1>1, <1>4, WorkTypes, SharesByQuoteType DEF Minted
<1> QED BY <1>1, <1>3, <1>4, <1>5, <1>6

LEMMA SkipDepositFacts ==
  ASSUME TypeInv, SkipDeposit
  PROVE  /\ work' \in Ledger /\ SharesSumUp(work')
         /\ work'.depositQueue = Tail(work.depositQueue)
         /\ work'.totalCost = work.totalCost /\ work'.highWaterMark = work.highWaterMark
         /\ work'.lastAccrual = work.lastAccrual /\ work'.supply = work.supply
         /\ work'.answered = work.answered
         /\ work'.withdrawQueue = work.withdrawQueue
         /\ work'.usedDeposits = work.usedDeposits /\ work'.pulls = work.pulls
         /\ work'.usedWithdrawals = work.usedWithdrawals
         /\ work'.pending = work.pending /\ work'.unprocessed = work.unprocessed
         /\ work'.payouts = work.payouts
         /\ work'.shares = work.shares
<1>1. stage = "deposits" /\ Tail(work.depositQueue) \in Seq(DepositItems)
  BY DepositHead DEF SkipDeposit
<1>2. work \in Ledger /\ SharesSumUp(work)
  BY <1>1, WorkTypes
<1>3. work' = [work EXCEPT !.depositQueue = Tail(work.depositQueue)]
  BY DEF SkipDeposit
<1>4. work' \in Ledger /\ work'.shares = work.shares /\ work'.supply = work.supply
  BY <1>1, <1>2, <1>3, QueueTypes
<1>5. SharesSumUp(work')
  BY <1>2, <1>4 DEF SharesSumUp
<1>6. /\ work'.depositQueue = Tail(work.depositQueue)
      /\ work'.totalCost = work.totalCost /\ work'.highWaterMark = work.highWaterMark
      /\ work'.lastAccrual = work.lastAccrual
      /\ work'.answered = work.answered
      /\ work'.withdrawQueue = work.withdrawQueue
      /\ work'.usedDeposits = work.usedDeposits /\ work'.pulls = work.pulls
      /\ work'.usedWithdrawals = work.usedWithdrawals
      /\ work'.pending = work.pending /\ work'.unprocessed = work.unprocessed
      /\ work'.payouts = work.payouts
  BY <1>2, <1>3 DEF Ledger
<1> QED BY <1>4, <1>5, <1>6

LEMMA PullDepositFacts ==
  ASSUME TypeInv, PullDeposit
  PROVE  /\ work' \in Ledger /\ SharesSumUp(work')
         /\ totalDeposit' = totalDeposit + DItem.amount
         /\ work'.depositQueue = Tail(work.depositQueue)
         /\ work'.totalCost = work.totalCost + DItem.amount
         /\ work'.supply = work.supply + Minted(work, DItem)
         /\ work'.highWaterMark = work.highWaterMark
         /\ work'.lastAccrual = work.lastAccrual
         /\ work'.answered = work.answered
         /\ work'.withdrawQueue = work.withdrawQueue
         /\ work'.usedDeposits = work.usedDeposits \cup ({DItem.hash} \ {NoHash})
         /\ work'.pulls = Counted(work.pulls, DItem.hash)
         /\ work'.usedWithdrawals = work.usedWithdrawals
         /\ work'.pending = work.pending /\ work'.unprocessed = work.unprocessed
         /\ work'.payouts = work.payouts
         /\ work'.shares = [work.shares EXCEPT
              ![DItem.investor] = @ + Minted(work, DItem)]
<1> DEFINE n     == Minted(work, DItem)
           used  == work.usedDeposits \cup ({DItem.hash} \ {NoHash})
           pulls == Counted(work.pulls, DItem.hash)
<1>1. NextDeposit /\ DepositDue(work, DItem)
  BY DEF PullDeposit, DItem
<1>2. /\ stage = "deposits"
      /\ DItem.amount \in Nat \ {0} /\ DItem.hash \in DepositRequests \cup {NoHash}
      /\ DItem.investor \in Holders /\ DItem.token \in Tokens /\ n \in Nat
      /\ Tail(work.depositQueue) \in Seq(DepositItems)
  BY <1>1, DepositHead
<1>3. /\ work \in Ledger /\ SharesSumUp(work)
      /\ work.shares \in [Holders -> Nat] /\ work.cash \in [Tokens -> Nat]
      /\ work.totalCost \in Nat /\ work.supply \in Nat
  BY <1>2, WorkTypes
<1>4. work' = [work EXCEPT
           !.depositQueue = Tail(@),
           !.cash[DItem.token] = @ + DItem.amount,
           !.shares[DItem.investor] = @ + n,
           !.supply = @ + n,
           !.totalCost = @ + DItem.amount,
           !.usedDeposits = used,
           !.pulls = pulls]
  BY DEF PullDeposit, DItem
<1>5. totalDeposit' = totalDeposit + DItem.amount
  BY DEF PullDeposit, DItem
<1> HIDE DEF n, used, pulls
<1>6. /\ Shaped(work')
      /\ work'.depositQueue = Tail(work.depositQueue)
      /\ work'.totalCost = work.totalCost + DItem.amount
      /\ work'.supply = work.supply + n
      /\ work'.highWaterMark = work.highWaterMark
      /\ work'.lastAccrual = work.lastAccrual
      /\ work'.answered = work.answered
      /\ work'.withdrawQueue = work.withdrawQueue
  BY <1>3, <1>4 DEF Ledger, Shaped
<1>7. work'.usedDeposits = used /\ work'.pulls = pulls
  BY <1>3, <1>4 DEF Ledger
<1>8. /\ work'.usedWithdrawals = work.usedWithdrawals
      /\ work'.pending = work.pending /\ work'.unprocessed = work.unprocessed
      /\ work'.payouts = work.payouts
  BY <1>3, <1>4 DEF Ledger
<1>9. /\ work'.shares = [work.shares EXCEPT ![DItem.investor] = @ + n]
      /\ work'.cash = [work.cash EXCEPT ![DItem.token] = @ + DItem.amount]
  BY <1>3, <1>4 DEF Ledger
<1>10. work'.shares \in [Holders -> Nat] /\ work'.cash \in [Tokens -> Nat]
  BY <1>2, <1>3, <1>9
<1>11. /\ work'.usedDeposits \in SUBSET DepositRequests
       /\ work'.pulls \in [DepositRequests -> Nat]
  <2>1. work.pulls \in [DepositRequests -> Nat] /\ work.usedDeposits \in SUBSET DepositRequests
    BY <1>3, LedgerElim
  <2>2. used \in SUBSET DepositRequests
    BY <1>2, <2>1 DEF used
  <2>3. pulls \in [DepositRequests -> Nat]
    BY <2>1 DEF pulls, Counted
  <2> QED BY <1>7, <2>2, <2>3
<1>12. SharesSumUp(work')
  <2>1. AddUpTo(Holders, [work.shares EXCEPT ![DItem.investor] = @ + n], work.supply + n)
    BY <1>2, <1>3, HoldersFinite, SumIncreases DEF SharesSumUp
  <2> QED BY <1>6, <1>9, <2>1 DEF SharesSumUp
<1>13. work'.totalCost \in Nat /\ work'.supply \in Nat
  BY <1>2, <1>3, <1>6
<1>14. work' \in Ledger
  <2> HIDE <1>4
  <2> QED BY <1>2, <1>3, <1>6, <1>8, <1>10, <1>11, <1>13, LedgerElim, LedgerIntro
<1> QED BY <1>5, <1>6, <1>7, <1>8, <1>9, <1>12, <1>14 DEF n, used, pulls

LEMMA FinishDepositsFacts ==
  ASSUME TypeInv, FinishDeposits
  PROVE  /\ work' \in Ledger /\ SharesSumUp(work')
         /\ work'.highWaterMark = work.highWaterMark + totalDeposit
         /\ work'.depositQueue = work.depositQueue
         /\ work'.totalCost = work.totalCost
         /\ work'.lastAccrual = work.lastAccrual /\ work'.supply = work.supply
         /\ work'.answered = work.answered
         /\ work'.withdrawQueue = work.withdrawQueue
         /\ work'.usedDeposits = work.usedDeposits /\ work'.pulls = work.pulls
         /\ work'.usedWithdrawals = work.usedWithdrawals
         /\ work'.pending = work.pending /\ work'.unprocessed = work.unprocessed
         /\ work'.payouts = work.payouts
         /\ work'.shares = work.shares
<1>1. stage = "deposits"
  BY DEF FinishDeposits
<1>2. /\ work \in Ledger /\ SharesSumUp(work) /\ totalDeposit \in Nat
      /\ work.highWaterMark \in Nat
  BY <1>1, WorkTypes
<1>3. work' = [work EXCEPT !.highWaterMark = @ + totalDeposit]
  BY DEF FinishDeposits
<1>4. work' \in Ledger
  <2>1. work.highWaterMark + totalDeposit \in Nat
    BY <1>2
  <2> QED BY <1>2, <1>3, <2>1 DEF Ledger
<1>5. /\ work'.highWaterMark = work.highWaterMark + totalDeposit
      /\ work'.shares = work.shares /\ work'.supply = work.supply
      /\ work'.depositQueue = work.depositQueue
      /\ work'.totalCost = work.totalCost
      /\ work'.lastAccrual = work.lastAccrual
      /\ work'.answered = work.answered
      /\ work'.withdrawQueue = work.withdrawQueue
  BY <1>2, <1>3 DEF Ledger
<1>6. /\ work'.usedDeposits = work.usedDeposits /\ work'.pulls = work.pulls
      /\ work'.usedWithdrawals = work.usedWithdrawals
      /\ work'.pending = work.pending /\ work'.unprocessed = work.unprocessed
      /\ work'.payouts = work.payouts
  BY <1>2, <1>3 DEF Ledger
<1> QED BY <1>2, <1>4, <1>5, <1>6 DEF SharesSumUp

LEMMA DepositStageTypes ==
  ASSUME TypeInv, SkipDeposit \/ PullDeposit \/ FinishDeposits
  PROVE  TypeInv'
<1>1. CASE SkipDeposit
  <2>1. stage = "deposits"
    BY <1>1 DEF SkipDeposit, NextDeposit
  <2>2. /\ work' \in Ledger /\ SharesSumUp(work') /\ work'.lastAccrual <= now
        /\ totalDeposit' \in Nat
    BY <1>1, <2>1, SkipDepositFacts, WorkTypes DEF SkipDeposit
  <2> QED BY <1>1, <2>1, <2>2, CallbackTypes DEF SkipDeposit, NextDeposit
<1>2. CASE PullDeposit
  <2>1. stage = "deposits" /\ NextDeposit
    BY <1>2 DEF PullDeposit, NextDeposit
  <2>2. /\ work' \in Ledger /\ SharesSumUp(work') /\ work'.lastAccrual <= now
        /\ totalDeposit' \in Nat
    <3>1. /\ work' \in Ledger /\ SharesSumUp(work') /\ work'.lastAccrual = work.lastAccrual
          /\ totalDeposit' = totalDeposit + DItem.amount
      BY <1>2, PullDepositFacts, Zenon
    <3>2. stage # "idle"
      BY <2>1
    <3>3. work.lastAccrual <= now /\ totalDeposit \in Nat
      BY <3>2, WorkTypes, Zenon
    <3>4. DItem.amount \in Nat
      BY <2>1, DepositHead
    <3>5. totalDeposit' \in Nat
      BY <3>1, <3>3, <3>4
    <3> QED BY <3>1, <3>3, <3>5
  <2> QED BY <2>1, <2>2, CallbackTypes DEF NextDeposit
<1>3. CASE FinishDeposits
  <2>1. stage = "deposits"
    BY <1>3 DEF FinishDeposits
  <2>2. /\ work' \in Ledger /\ SharesSumUp(work') /\ work'.lastAccrual <= now
        /\ totalDeposit' \in Nat
    BY <1>3, <2>1, FinishDepositsFacts, WorkTypes DEF FinishDeposits
  <2> QED BY <1>3, <2>1, <2>2, CallbackTypes DEF FinishDeposits
<1> QED BY <1>1, <1>2, <1>3

-----------------------------------------------------------------------------
(* Settling withdrawals                                                    *)

WItem == Head(work.withdrawQueue)

\* The fields of a ledger no withdrawal touches.
SameDeposits(m, l) ==
  /\ m.depositQueue = l.depositQueue /\ m.usedDeposits = l.usedDeposits
  /\ m.pulls = l.pulls /\ m.lastAccrual = l.lastAccrual /\ m.answered = l.answered

\* The fields only a payment touches.
SameValue(m, l) ==
  /\ m.totalCost = l.totalCost /\ m.highWaterMark = l.highWaterMark
  /\ m.supply = l.supply /\ m.shares = l.shares /\ m.cash = l.cash
  /\ m.payouts = l.payouts

LEMMA WithdrawalHead ==
  ASSUME TypeInv, NextWithdrawal
  PROVE  /\ stage = "withdrawals"
         /\ WItem \in WithdrawItems
         /\ WItem.amount \in Nat /\ WItem.minOutput \in Nat
         /\ WItem.hash \in WithdrawRequests \cup {FundHash}
         /\ WItem.investor \in Holders /\ WItem.token \in Tokens
         /\ WItem.investor = Fund <=> WItem.hash = FundHash
         /\ WItem.investor # Fund => WItem.amount > 0 /\ WItem.hash \in WithdrawRequests
         /\ Tail(work.withdrawQueue) \in Seq(WithdrawItems)
<1>1. stage = "withdrawals" /\ work.withdrawQueue # <<>>
  BY DEF NextWithdrawal
<1>2. work.withdrawQueue \in Seq(WithdrawItems)
  BY <1>1, WorkTypes, LedgerElim
<1>3. WItem \in WithdrawItems /\ Tail(work.withdrawQueue) \in Seq(WithdrawItems)
  BY <1>1, <1>2, HeadTailProperties DEF WItem
<1>4. Fund \notin Investors /\ FundHash \notin WithdrawRequests /\ Fund \in Holders
      /\ Investors \subseteq Holders
  BY PoolAssumption DEF Holders
<1>5. CASE WItem \in FundWithdrawals
  BY <1>1, <1>3, <1>4, <1>5 DEF FundWithdrawals
<1>6. CASE WItem \in InvestorWithdrawals
  BY <1>1, <1>3, <1>4, <1>6 DEF InvestorWithdrawals
<1> QED BY <1>3, <1>5, <1>6 DEF WithdrawItems

LEMMA DequeueFacts ==
  ASSUME NEW l \in Ledger, NEW q \in Seq(WithdrawItems), q = Tail(l.withdrawQueue)
  PROVE  LET m == DequeueWithdrawal(l) IN
         /\ m \in Ledger /\ m.withdrawQueue = q
         /\ SameDeposits(m, l) /\ SameValue(m, l)
         /\ m.usedWithdrawals = l.usedWithdrawals /\ m.pending = l.pending
         /\ m.unprocessed = l.unprocessed
<1> PICK m : m = [l EXCEPT !.withdrawQueue = q]
  OBVIOUS
<1>1. m = DequeueWithdrawal(l)
  BY DEF DequeueWithdrawal
<1>2. m \in Ledger
  BY QueueTypes
<1>3. /\ m.withdrawQueue = q
      /\ m.usedWithdrawals = l.usedWithdrawals /\ m.pending = l.pending
      /\ m.unprocessed = l.unprocessed
  BY DEF Ledger
<1>4. SameDeposits(m, l) /\ SameValue(m, l)
  BY DEF Ledger, SameDeposits, SameValue
<1> QED BY <1>1, <1>2, <1>3, <1>4

LEMMA DropPendingFacts ==
  ASSUME NEW l \in Ledger, NEW item,
         item.investor # Fund => item.hash \in WithdrawRequests,
         item.investor = Fund => item.hash \notin WithdrawRequests
  PROVE  LET m == DropPending(l, item) IN
         /\ m \in Ledger /\ m.withdrawQueue = l.withdrawQueue
         /\ SameDeposits(m, l) /\ SameValue(m, l)
         /\ m.usedWithdrawals = l.usedWithdrawals /\ m.unprocessed = l.unprocessed
         /\ \A r \in WithdrawRequests :
              m.pending[r] = IF r = item.hash THEN 0 ELSE l.pending[r]
<1>1. CASE item.investor = Fund
  BY <1>1 DEF DropPending, SameDeposits, SameValue
<1>2. CASE item.investor # Fund
  <2>1. item.hash \in WithdrawRequests /\ l.pending \in [WithdrawRequests -> Nat]
    BY <1>2, LedgerElim
  <2> DEFINE pending == [l.pending EXCEPT ![item.hash] = 0]
  <2>2. pending \in [WithdrawRequests -> Nat]
        /\ \A r \in WithdrawRequests :
             pending[r] = IF r = item.hash THEN 0 ELSE l.pending[r]
    BY <2>1
  <2> HIDE DEF pending
  <2> PICK m : m = [l EXCEPT !.pending = pending]
    OBVIOUS
  <2>3. m = DropPending(l, item)
    BY <1>2 DEF DropPending, pending
  <2>4. m \in Ledger
    BY <2>2, QueueTypes
  <2>5. /\ m.withdrawQueue = l.withdrawQueue /\ m.pending = pending
        /\ m.usedWithdrawals = l.usedWithdrawals /\ m.unprocessed = l.unprocessed
    BY DEF Ledger
  <2>6. SameDeposits(m, l) /\ SameValue(m, l)
    BY DEF Ledger, SameDeposits, SameValue
  <2> QED BY <2>2, <2>3, <2>4, <2>5, <2>6
<1> QED BY <1>1, <1>2

LEMMA MarkExecutedFacts ==
  ASSUME NEW l \in Ledger, NEW item,
         item.investor # Fund => item.hash \in WithdrawRequests,
         item.investor = Fund => item.hash \notin WithdrawRequests /\ item.hash # NoHash
  PROVE  LET m == MarkExecuted(l, item) IN
         /\ m \in Ledger /\ m.withdrawQueue = l.withdrawQueue
         /\ SameDeposits(m, l) /\ SameValue(m, l)
         /\ m.usedWithdrawals = l.usedWithdrawals \cup ({item.hash} \cap WithdrawRequests)
         /\ m.unprocessed = IF l.unprocessed = item.hash THEN NoHash ELSE l.unprocessed
         /\ \A r \in WithdrawRequests :
              m.pending[r] = IF r = item.hash THEN 0 ELSE l.pending[r]
<1>0. /\ l.pending \in [WithdrawRequests -> Nat]
      /\ l.unprocessed \in WithdrawRequests \cup {NoHash}
      /\ l.usedWithdrawals \in SUBSET WithdrawRequests
  BY LedgerElim
<1>1. CASE item.investor = Fund
  <2>1. MarkExecuted(l, item) = l
    BY <1>1 DEF MarkExecuted
  <2>2. l.unprocessed # item.hash
    BY <1>0, <1>1
  <2>3. {item.hash} \cap WithdrawRequests = {}
    BY <1>1
  <2>4. SameDeposits(l, l) /\ SameValue(l, l)
    BY DEF SameDeposits, SameValue
  <2> QED BY <1>0, <1>1, <2>1, <2>2, <2>3, <2>4
<1>2. CASE item.investor # Fund
  <2> DEFINE pending == [l.pending EXCEPT ![item.hash] = 0]
             unprocessed == IF l.unprocessed = item.hash THEN NoHash ELSE l.unprocessed
             used == l.usedWithdrawals \cup {item.hash}
  <2>1. /\ pending \in [WithdrawRequests -> Nat]
        /\ \A r \in WithdrawRequests :
             pending[r] = IF r = item.hash THEN 0 ELSE l.pending[r]
        /\ unprocessed \in WithdrawRequests \cup {NoHash}
        /\ used \in SUBSET WithdrawRequests
        /\ used = l.usedWithdrawals \cup ({item.hash} \cap WithdrawRequests)
    BY <1>0, <1>2
  <2>2. MarkExecuted(l, item) = [l EXCEPT !.unprocessed = unprocessed,
                                   !.usedWithdrawals = used, !.pending = pending]
    BY <1>2 DEF MarkExecuted
  <2> HIDE DEF pending, unprocessed, used
  <2> PICK m : m = [l EXCEPT !.unprocessed = unprocessed, !.usedWithdrawals = used,
                     !.pending = pending]
    OBVIOUS
  <2>3. /\ Shaped(m) /\ m.withdrawQueue = l.withdrawQueue /\ m.pending = pending
        /\ m.usedWithdrawals = used /\ m.unprocessed = unprocessed
    BY DEF Ledger, Shaped
  <2>4. SameDeposits(m, l) /\ SameValue(m, l)
    BY DEF Ledger, SameDeposits, SameValue
  <2>5. m \in Ledger
    <3>1. /\ m.totalCost \in Nat /\ m.highWaterMark \in Nat /\ m.lastAccrual \in Nat
          /\ m.supply \in Nat /\ m.shares \in [Holders -> Nat]
          /\ m.cash \in [Tokens -> Nat] /\ m.answered \in Nat
      BY <2>4, LedgerElim DEF SameDeposits, SameValue
    <3>2. /\ m.depositQueue \in Seq(DepositItems) /\ m.withdrawQueue \in Seq(WithdrawItems)
          /\ m.usedDeposits \in SUBSET DepositRequests
          /\ m.pulls \in [DepositRequests -> Nat] /\ m.payouts \in [WithdrawRequests -> Nat]
      BY <2>3, <2>4, LedgerElim DEF SameDeposits, SameValue
    <3> QED BY <2>1, <2>3, <3>1, <3>2, LedgerIntro
  <2> QED BY <2>1, <2>2, <2>3, <2>4, <2>5 DEF unprocessed
<1> QED BY <1>1, <1>2

\* What the callback checks before it pays: the holder has the shares.
LEMMA DueWithinShares ==
  ASSUME TypeInv, NextWithdrawal, ~MandatoryPanics(work, WItem),
         WithdrawalDue(work, WItem)
  PROVE  WItem.amount <= work.shares[WItem.investor]
<1>1. stage = "withdrawals" /\ WItem.investor \in Holders /\ WItem.token \in Tokens
  BY WithdrawalHead
<1>2. /\ work.totalCost \in Nat /\ work.supply \in Nat
      /\ work.shares \in [Holders -> Nat] /\ work.cash \in [Tokens -> Nat]
  BY <1>1, WorkTypes
<1>3. CASE WItem.investor # Fund
  BY <1>3 DEF WithdrawalDue, AvailableToWithdraw
<1>4. CASE WItem.investor = Fund
  <2> DEFINE remain == ValueToRemain(work, WItem)
             held   == work.shares[WItem.investor]
             mandatory == (remain * work.supply) \div work.totalCost
  <2>1. remain \in Int
    BY <1>1, <1>2 DEF ValueToRemain, TypeInv, TypeOK, Settings
  <2>2. remain \in Nat /\ work.totalCost > 0
    BY <1>2, <1>4, <2>1 DEF MandatoryPanics
  <2>3. held \in Nat
    BY <1>1, <1>2
  <2> HIDE DEF remain
  <2>4. mandatory \in Nat
    <3>1. remain * work.supply \in Nat
      BY <1>2, <2>2
    <3> QED BY <1>2, <2>2, <3>1
  <2>5. WItem.amount <= IF held > mandatory THEN held - mandatory ELSE 0
    BY <1>4 DEF WithdrawalDue, AvailableToWithdraw, remain
  <2> HIDE DEF mandatory, held
  <2>6. WItem.amount <= held
    <3>1. WItem.amount \in Nat
      BY WithdrawalHead
    <3> QED BY <2>3, <2>4, <2>5, <3>1
  <2> QED BY <2>6 DEF held
<1> QED BY <1>3, <1>4

\* A withdrawal that pays nothing: skipped, refused or deferred.
LEMMA UnpaidFacts ==
  ASSUME TypeInv, SkipWithdrawal \/ RefuseWithdrawal \/ DeferWithdrawal
  PROVE  /\ NextWithdrawal /\ Settles
         /\ work' \in Ledger /\ SharesSumUp(work')
         /\ work'.withdrawQueue = Tail(work.withdrawQueue)
         /\ SameDeposits(work', work) /\ SameValue(work', work)
         /\ \/ /\ work'.usedWithdrawals = work.usedWithdrawals
               /\ work'.unprocessed = work.unprocessed
            \/ /\ work'.usedWithdrawals =
                    work.usedWithdrawals \cup ({WItem.hash} \cap WithdrawRequests)
               /\ work'.unprocessed = IF work.unprocessed = WItem.hash THEN NoHash
                                      ELSE work.unprocessed
               /\ \A r \in WithdrawRequests :
                    work'.pending[r] = IF r = WItem.hash THEN 0 ELSE work.pending[r]
         /\ \A r \in WithdrawRequests : work'.pending[r] \in {0, work.pending[r]}
<1>0. NextWithdrawal /\ Settles
  BY DEF SkipWithdrawal, RefuseWithdrawal, DeferWithdrawal
<1>1. stage = "withdrawals"
  BY <1>0, WithdrawalHead
<1>2. work \in Ledger /\ SharesSumUp(work)
  BY <1>1, WorkTypes
<1>3. /\ WItem.investor # Fund => WItem.hash \in WithdrawRequests
      /\ WItem.investor = Fund => WItem.hash \notin WithdrawRequests /\ WItem.hash # NoHash
  BY <1>0, WithdrawalHead, PoolAssumption
<1> PICK d : d = DequeueWithdrawal(work)
  OBVIOUS
<1>4. /\ d \in Ledger /\ d.withdrawQueue = Tail(work.withdrawQueue)
      /\ SameDeposits(d, work) /\ SameValue(d, work)
      /\ d.usedWithdrawals = work.usedWithdrawals /\ d.pending = work.pending
      /\ d.unprocessed = work.unprocessed
  BY <1>0, <1>2, WithdrawalHead, DequeueFacts
<1>5. CASE SkipWithdrawal
  <2>1. work' = DropPending(d, WItem)
    BY <1>5 DEF SkipWithdrawal, WItem
  <2>2. /\ work' \in Ledger /\ work'.withdrawQueue = d.withdrawQueue
        /\ SameDeposits(work', d) /\ SameValue(work', d)
        /\ work'.usedWithdrawals = d.usedWithdrawals /\ work'.unprocessed = d.unprocessed
        /\ \A r \in WithdrawRequests :
             work'.pending[r] = IF r = WItem.hash THEN 0 ELSE d.pending[r]
    BY <1>3, <1>4, <2>1, DropPendingFacts
  <2> QED BY <1>0, <1>2, <1>4, <2>2 DEF SameDeposits, SameValue, SharesSumUp
<1>6. CASE RefuseWithdrawal
  <2>1. work' = MarkExecuted(d, WItem)
    BY <1>6 DEF RefuseWithdrawal, WItem
  <2>2. /\ work' \in Ledger /\ work'.withdrawQueue = d.withdrawQueue
        /\ SameDeposits(work', d) /\ SameValue(work', d)
        /\ work'.usedWithdrawals = d.usedWithdrawals \cup ({WItem.hash} \cap WithdrawRequests)
        /\ work'.unprocessed = IF d.unprocessed = WItem.hash THEN NoHash ELSE d.unprocessed
        /\ \A r \in WithdrawRequests :
             work'.pending[r] = IF r = WItem.hash THEN 0 ELSE d.pending[r]
    BY <1>3, <1>4, <2>1, MarkExecutedFacts
  <2> QED BY <1>0, <1>2, <1>4, <2>2 DEF SameDeposits, SameValue, SharesSumUp
<1>7. CASE DeferWithdrawal
  <2>1. work' = d
    BY <1>7 DEF DeferWithdrawal
  <2> QED BY <1>0, <1>2, <1>4, <2>1 DEF SameDeposits, SameValue, SharesSumUp
<1> QED BY <1>5, <1>6, <1>7

\* A payment burns the shares, lowers the value and the mark by the cost and
\* executes the request.
LEMMA PayFacts ==
  ASSUME TypeInv, PayWithdrawal
  PROVE  LET cost == BurnedCost(work, WItem) IN
         /\ NextWithdrawal /\ Settles
         /\ cost \in Nat /\ cost <= work.totalCost
         /\ WItem.amount <= work.shares[WItem.investor]
         /\ work.supply > 0 /\ WItem.amount <= work.supply
         /\ WItem.hash \notin work.usedWithdrawals
         /\ work' \in Ledger /\ SharesSumUp(work')
         /\ work'.withdrawQueue = Tail(work.withdrawQueue)
         /\ SameDeposits(work', work)
         /\ work'.totalCost = work.totalCost - cost
         /\ work'.highWaterMark = IF work.highWaterMark > cost
                                  THEN work.highWaterMark - cost ELSE 0
         /\ work'.supply = work.supply - WItem.amount
         /\ work'.shares = [work.shares EXCEPT ![WItem.investor] = @ - WItem.amount]
         /\ work'.payouts = Counted(work.payouts, WItem.hash)
         /\ work'.usedWithdrawals =
              work.usedWithdrawals \cup ({WItem.hash} \cap WithdrawRequests)
         /\ work'.unprocessed = IF work.unprocessed = WItem.hash THEN NoHash
                                ELSE work.unprocessed
         /\ \A r \in WithdrawRequests :
              work'.pending[r] = IF r = WItem.hash THEN 0 ELSE work.pending[r]
<1> DEFINE cost == BurnedCost(work, WItem)
<1>0. /\ NextWithdrawal /\ Settles
      /\ ~WithdrawalPanics(work, WItem) /\ WithdrawalDue(work, WItem)
      /\ cost >= WItem.minOutput /\ Affordable(work, WItem)
  BY DEF PayWithdrawal, WItem
<1>1. stage = "withdrawals"
  BY <1>0, WithdrawalHead
<1>2. /\ work \in Ledger /\ SharesSumUp(work)
      /\ work.totalCost \in Nat /\ work.highWaterMark \in Nat /\ work.supply \in Nat
      /\ work.shares \in [Holders -> Nat] /\ work.cash \in [Tokens -> Nat]
      /\ work.payouts \in [WithdrawRequests -> Nat]
  BY <1>1, WorkTypes, LedgerElim
<1>3. /\ WItem.investor # Fund => WItem.hash \in WithdrawRequests
      /\ WItem.investor = Fund => WItem.hash \notin WithdrawRequests /\ WItem.hash # NoHash
      /\ WItem.amount \in Nat /\ WItem.investor \in Holders /\ WItem.token \in Tokens
      /\ Tail(work.withdrawQueue) \in Seq(WithdrawItems)
  BY <1>0, WithdrawalHead, PoolAssumption
<1>4. ~MandatoryPanics(work, WItem) /\ work.supply # 0
  BY <1>0 DEF WithdrawalPanics
<1>5. WItem.amount <= work.shares[WItem.investor]
  BY <1>0, <1>4, DueWithinShares
<1>6. work.shares[WItem.investor] <= work.supply
  BY <1>2, <1>3, HoldersFinite, SumBoundsEach DEF SharesSumUp
<1>7. work.supply > 0 /\ WItem.amount <= work.supply
  BY <1>2, <1>3, <1>4, <1>5, <1>6
<1>8. cost \in Nat
  <2>1. work.totalCost * WItem.amount \in Nat
    BY <1>2, <1>3
  <2> QED BY <1>2, <1>7, <2>1 DEF BurnedCost
<1>9. cost <= work.totalCost
  BY <1>0, <1>2, <1>7, <1>8 DEF WithdrawalPanics
<1>10. cost <= work.cash[WItem.token]
  BY <1>0 DEF Affordable
<1>11. WItem.hash \notin work.usedWithdrawals
  BY <1>0 DEF WithdrawalDue
<1> HIDE DEF cost
<1> PICK d : d = DequeueWithdrawal(work)
  OBVIOUS
<1>12. /\ d \in Ledger /\ d.withdrawQueue = Tail(work.withdrawQueue)
       /\ SameDeposits(d, work) /\ SameValue(d, work)
       /\ d.usedWithdrawals = work.usedWithdrawals /\ d.pending = work.pending
       /\ d.unprocessed = work.unprocessed
  BY <1>0, <1>2, <1>3, DequeueFacts
<1> DEFINE mark == IF d.highWaterMark > cost THEN d.highWaterMark - cost ELSE 0
           paid == Counted(d.payouts, WItem.hash)
<1>13. mark \in Nat /\ paid \in [WithdrawRequests -> Nat]
  <2>1. mark \in Nat
    BY <1>2, <1>8, <1>12 DEF SameValue
  <2>2. paid \in [WithdrawRequests -> Nat]
    BY <1>2, <1>12 DEF SameValue, Counted
  <2> QED BY <2>1, <2>2
<1> HIDE DEF mark, paid
<1> PICK e : e = [d EXCEPT
           !.cash[WItem.token] = @ - cost,
           !.shares[WItem.investor] = @ - WItem.amount,
           !.supply = @ - WItem.amount,
           !.highWaterMark = mark,
           !.totalCost = @ - cost,
           !.payouts = paid]
  OBVIOUS
<1>14. work' = MarkExecuted(e, WItem)
  <2>1. work' = MarkExecuted([DequeueWithdrawal(work) EXCEPT
           !.cash[WItem.token] = @ - cost,
           !.shares[WItem.investor] = @ - WItem.amount,
           !.supply = @ - WItem.amount,
           !.highWaterMark = IF @ > cost THEN @ - cost ELSE 0,
           !.totalCost = @ - cost,
           !.payouts = Counted(@, WItem.hash)], WItem)
    BY DEF PayWithdrawal, WItem, cost
  <2> QED BY <2>1 DEF mark, paid
<1>15. /\ Shaped(e) /\ e.withdrawQueue = d.withdrawQueue
       /\ e.supply = d.supply - WItem.amount /\ e.highWaterMark = mark
       /\ e.totalCost = d.totalCost - cost /\ e.payouts = paid
  BY <1>12 DEF Ledger, Shaped
<1>16. SameDeposits(e, d)
  BY <1>12 DEF Ledger, SameDeposits
<1>17. /\ e.usedWithdrawals = d.usedWithdrawals /\ e.pending = d.pending
       /\ e.unprocessed = d.unprocessed
  BY <1>12 DEF Ledger
<1>18. /\ e.cash = [d.cash EXCEPT ![WItem.token] = @ - cost]
       /\ e.shares = [d.shares EXCEPT ![WItem.investor] = @ - WItem.amount]
  BY <1>12 DEF Ledger
<1>19. e.cash \in [Tokens -> Nat] /\ e.shares \in [Holders -> Nat]
  BY <1>2, <1>3, <1>5, <1>8, <1>10, <1>12, <1>18 DEF SameValue
<1>20. e.supply \in Nat /\ e.totalCost \in Nat
  BY <1>2, <1>3, <1>7, <1>8, <1>9, <1>12, <1>15 DEF SameValue
<1>21. e \in Ledger
  <2>1. /\ e.lastAccrual \in Nat /\ e.answered \in Nat
        /\ e.depositQueue \in Seq(DepositItems) /\ e.usedDeposits \in SUBSET DepositRequests
        /\ e.pulls \in [DepositRequests -> Nat]
    BY <1>12, <1>16, LedgerElim DEF SameDeposits
  <2>2. /\ e.withdrawQueue \in Seq(WithdrawItems)
        /\ e.usedWithdrawals \in SUBSET WithdrawRequests
        /\ e.pending \in [WithdrawRequests -> Nat]
        /\ e.unprocessed \in WithdrawRequests \cup {NoHash}
    BY <1>12, <1>15, <1>17, LedgerElim
  <2>3. e.highWaterMark \in Nat /\ e.payouts \in [WithdrawRequests -> Nat]
    BY <1>13, <1>15
  <2> QED BY <1>15, <1>19, <1>20, <2>1, <2>2, <2>3, LedgerIntro
<1>22. /\ work' \in Ledger /\ work'.withdrawQueue = e.withdrawQueue
       /\ SameDeposits(work', e) /\ SameValue(work', e)
       /\ work'.usedWithdrawals = e.usedWithdrawals \cup ({WItem.hash} \cap WithdrawRequests)
       /\ work'.unprocessed = IF e.unprocessed = WItem.hash THEN NoHash ELSE e.unprocessed
       /\ \A r \in WithdrawRequests :
            work'.pending[r] = IF r = WItem.hash THEN 0 ELSE e.pending[r]
  <2>1. /\ WItem.investor # Fund => WItem.hash \in WithdrawRequests
        /\ WItem.investor = Fund => WItem.hash \notin WithdrawRequests /\ WItem.hash # NoHash
    BY <1>3
  <2> DEFINE m == MarkExecuted(e, WItem)
  <2>2. /\ m \in Ledger /\ m.withdrawQueue = e.withdrawQueue
        /\ SameDeposits(m, e) /\ SameValue(m, e)
        /\ m.usedWithdrawals = e.usedWithdrawals \cup ({WItem.hash} \cap WithdrawRequests)
        /\ m.unprocessed = IF e.unprocessed = WItem.hash THEN NoHash ELSE e.unprocessed
        /\ \A r \in WithdrawRequests :
             m.pending[r] = IF r = WItem.hash THEN 0 ELSE e.pending[r]
    BY ONLY <1>21, <2>1, MarkExecutedFacts
  <2>3. work' = m
    BY <1>14
  <2> HIDE DEF m
  <2> QED BY <2>2, <2>3
<1>23. /\ work'.shares = [work.shares EXCEPT ![WItem.investor] = @ - WItem.amount]
       /\ work'.supply = work.supply - WItem.amount
       /\ work'.totalCost = work.totalCost - cost
       /\ work'.payouts = Counted(work.payouts, WItem.hash)
       /\ work'.highWaterMark = IF work.highWaterMark > cost
                                THEN work.highWaterMark - cost ELSE 0
  BY <1>12, <1>15, <1>18, <1>22 DEF SameValue, mark, paid
<1>24. SharesSumUp(work')
  <2>1. AddUpTo(Holders, [work.shares EXCEPT ![WItem.investor] = @ - WItem.amount],
                work.supply - WItem.amount)
    BY <1>2, <1>3, <1>5, HoldersFinite, SumDecreases DEF SharesSumUp
  <2> QED BY <1>23, <2>1 DEF SharesSumUp
<1>25. SameDeposits(work', work)
  BY <1>12, <1>16, <1>22 DEF SameDeposits
<1>26. /\ work'.withdrawQueue = Tail(work.withdrawQueue)
       /\ work'.usedWithdrawals =
            work.usedWithdrawals \cup ({WItem.hash} \cap WithdrawRequests)
       /\ work'.unprocessed = IF work.unprocessed = WItem.hash THEN NoHash
                              ELSE work.unprocessed
       /\ \A r \in WithdrawRequests :
            work'.pending[r] = IF r = WItem.hash THEN 0 ELSE work.pending[r]
  BY <1>12, <1>15, <1>17, <1>22
<1> QED BY <1>0, <1>5, <1>7, <1>8, <1>9, <1>11, <1>22, <1>23, <1>24, <1>25, <1>26 DEF cost

LEMMA WithdrawalStageTypes ==
  ASSUME TypeInv,
         \/ SkipWithdrawal \/ RefuseWithdrawal \/ DeferWithdrawal \/ PayWithdrawal
         \/ RevertCallback \/ FinishCallback
  PROVE  TypeInv'
<1>1. CASE SkipWithdrawal \/ RefuseWithdrawal \/ DeferWithdrawal
  <2>1. /\ NextWithdrawal /\ Settles /\ work' \in Ledger /\ SharesSumUp(work')
        /\ SameDeposits(work', work)
    BY <1>1, UnpaidFacts
  <2>2. stage = "withdrawals"
    BY <2>1, WithdrawalHead
  <2>3. work'.lastAccrual <= now /\ totalDeposit' \in Nat
    BY <2>1, <2>2, WorkTypes DEF SameDeposits, Settles
  <2> QED BY <2>1, <2>2, <2>3, CallbackTypes DEF NextWithdrawal, Settles
<1>2. CASE PayWithdrawal
  <2>1. /\ NextWithdrawal /\ Settles /\ work' \in Ledger /\ SharesSumUp(work')
        /\ SameDeposits(work', work)
    BY <1>2, PayFacts
  <2>2. stage = "withdrawals"
    BY <2>1, WithdrawalHead
  <2>3. work'.lastAccrual <= now /\ totalDeposit' \in Nat
    BY <2>1, <2>2, WorkTypes DEF SameDeposits, Settles
  <2> QED BY <2>1, <2>2, <2>3, CallbackTypes DEF NextWithdrawal, Settles
<1>3. CASE RevertCallback
  <2>1. /\ UNCHANGED <<poolVars, worldVars>>
        /\ stage' = "idle" /\ work' = NoWork /\ totalDeposit' = 0
    BY <1>3 DEF RevertCallback, NextWithdrawal
  <2>2. /\ pool \in Ledger /\ pool.lastAccrual <= now /\ SharesSumUp(pool)
        /\ requestId \in 0..issued
    BY DEF TypeInv, TypeOK
  <2>3. /\ pool' \in Ledger /\ pool'.lastAccrual <= now /\ SharesSumUp(pool')
        /\ requestId' \in 0..issued
    BY <2>1, <2>2 DEF poolVars
  <2> QED BY <2>1, <2>3, IdleTypes DEF poolVars
<1>4. CASE FinishCallback
  <2>1. stage = "withdrawals"
    BY <1>4 DEF FinishCallback
  <2>2. work \in Ledger /\ SharesSumUp(work) /\ work.lastAccrual <= now
    BY <2>1, WorkTypes
  <2>3. 0 \in 0..issued
    BY DEF TypeInv, TypeOK
  <2> QED BY <1>4, <2>2, <2>3, IdleTypes DEF FinishCallback
<1> QED BY <1>1, <1>2, <1>3, <1>4

LEMMA TypeStutter == ASSUME TypeInv, UNCHANGED vars PROVE TypeInv'
BY DEF TypeInv, TypeOK, vars, poolVars, callbackVars, worldVars, SharesSumUp

\* Every variable keeps its type in every instance: in particular no
\* arithmetic of an accepted callback leaves the naturals.
THEOREM TypeInvariant == Spec => []TypeInv
<1>1. Init => TypeInv
  BY TypeInit
<1>2. TypeInv /\ [Next]_vars => TypeInv'
  BY TransactionTypes, AnswerTypes, DepositStageTypes, WithdrawalStageTypes, TypeStutter
     DEF Next, Settlement
<1> QED BY <1>1, <1>2, PTL DEF Spec

THEOREM TypeCorrect == Spec => []TypeOK
<1>1. TypeInv => TypeOK
  BY DEF TypeInv
<1> QED BY <1>1, TypeInvariant, PTL

-----------------------------------------------------------------------------
(* What a transaction other than the callback does                         *)

\* Value, accrual and the records of executed requests.
SameRecords(m, l) ==
  /\ m.totalCost = l.totalCost /\ m.highWaterMark = l.highWaterMark
  /\ m.lastAccrual = l.lastAccrual /\ m.answered = l.answered
  /\ m.usedDeposits = l.usedDeposits /\ m.usedWithdrawals = l.usedWithdrawals
  /\ m.pulls = l.pulls /\ m.payouts = l.payouts

SameQueues(m, l) ==
  m.depositQueue = l.depositQueue /\ m.withdrawQueue = l.withdrawQueue

LEMMA QueueEdit ==
  ASSUME NEW l \in Ledger, NEW m, NEW q,
         m = [l EXCEPT !.depositQueue = q] \/ m = [l EXCEPT !.withdrawQueue = q]
  PROVE  /\ SameRecords(m, l) /\ m.pending = l.pending
         /\ m.unprocessed = l.unprocessed
BY DEF Ledger, SameRecords

LEMMA OtherEdit ==
  ASSUME NEW l \in Ledger, NEW m, NEW q,
         \/ m = [l EXCEPT !.pending = q] /\ m.unprocessed = l.unprocessed
         \/ m = [l EXCEPT !.unprocessed = q] /\ m.pending = l.pending
         \/ m = [l EXCEPT !.cash = q]
         \/ m = [l EXCEPT !.shares = q]
  PROVE  SameRecords(m, l) /\ SameQueues(m, l)
BY DEF Ledger, SameRecords, SameQueues

\* A transaction records no execution; a withdrawal it registers is not
\* executed yet; it remembers a withdrawal only by forcing the pool down, and
\* only a settled one lets the pool up again.
LEMMA TransactionFacts ==
  ASSUME TypeInv, External
  PROVE  /\ SameRecords(pool', pool)
         /\ \A r \in WithdrawRequests :
              pool'.pending[r] = pool.pending[r] \/ r \notin pool.usedWithdrawals
         /\ \/ /\ pool'.unprocessed = pool.unprocessed
               /\ (pool.unprocessed # NoHash /\ status >= Deactivating)
                    => status' >= Deactivating
            \/ /\ pool.unprocessed = NoHash
               /\ pool'.unprocessed \notin pool.usedWithdrawals
               /\ status' >= Deactivating
         /\ \/ requestId' = requestId /\ issued' = issued
            \/ requestId' = issued' /\ issued' = issued + 1
            \/ requestId' = 0 /\ issued' = issued
         /\ \/ SameQueues(pool', pool) /\ requestId' = requestId
            \/ requestId' # 0
            \/ ResetOracleRequestId
<1>0. /\ Transaction /\ pool \in Ledger /\ TypeOK
      /\ pool.pending \in [WithdrawRequests -> Nat]
  BY LedgerElim DEF External, TypeInv, TypeOK
<1> USE <1>0
<1> DEFINE Records == SameRecords(pool', pool)
           Pending == \A r \in WithdrawRequests :
              pool'.pending[r] = pool.pending[r] \/ r \notin pool.usedWithdrawals
           Forced == \/ /\ pool'.unprocessed = pool.unprocessed
                        /\ (pool.unprocessed # NoHash /\ status >= Deactivating)
                             => status' >= Deactivating
                     \/ /\ pool.unprocessed = NoHash
                        /\ pool'.unprocessed \notin pool.usedWithdrawals
                        /\ status' >= Deactivating
           Request == \/ requestId' = requestId /\ issued' = issued
                      \/ requestId' = issued' /\ issued' = issued + 1
                      \/ requestId' = 0 /\ issued' = issued
           Queues == \/ SameQueues(pool', pool) /\ requestId' = requestId
                     \/ requestId' # 0
                     \/ ResetOracleRequestId
           Goal == Records /\ Pending /\ Forced /\ Request /\ Queues
<1>q. ASSUME NEW q, SendQuexRequest, status' = status,
             \/ pool' = [pool EXCEPT !.depositQueue = q]
             \/ pool' = [pool EXCEPT !.withdrawQueue = q]
      PROVE  Goal
  <2>1. Records /\ pool'.pending = pool.pending /\ pool'.unprocessed = pool.unprocessed
    BY <1>q, QueueEdit
  <2>2. Request /\ requestId' # 0
    BY <1>q DEF SendQuexRequest, TypeOK
  <2> QED BY <1>q, <2>1, <2>2
<1>k. ASSUME pool' = pool, requestId' = requestId, issued' = issued,
             (pool.unprocessed # NoHash /\ status >= Deactivating)
               => status' >= Deactivating
      PROVE  Goal
  BY <1>k DEF SameRecords, SameQueues
<1>1. ASSUME NEW s \in Investors \cup {Fund}, NEW a \in DepositAmounts, NEW t \in Tokens,
             Deposit(s, a, t)
      PROVE  Goal
  BY <1>1, <1>q DEF Deposit
<1>2. ASSUME ApproveDeposits PROVE Goal
  BY <1>2, <1>q DEF ApproveDeposits
<1>3. ASSUME NEW t \in Tokens, ApproveWithdrawals(t) PROVE Goal
  BY <1>3, <1>q DEF ApproveWithdrawals
<1>4. ASSUME NEW a \in FundShares, NEW m \in MinOutputs, NEW t \in Tokens,
             WithdrawByFund(a, m, t)
      PROVE  Goal
  BY <1>4, <1>q DEF WithdrawByFund
<1>5. ASSUME NEW r \in WithdrawRequests, RegisterWithdrawal(r) PROVE Goal
  <2>1. pool' = [pool EXCEPT !.pending = [pool.pending EXCEPT ![r] = now]]
    BY <1>5 DEF RegisterWithdrawal
  <2>2. /\ pool'.pending = [pool.pending EXCEPT ![r] = now]
        /\ pool'.unprocessed = pool.unprocessed
    BY <2>1 DEF Ledger
  <2>3. Records /\ SameQueues(pool', pool)
    BY <2>1, <2>2, OtherEdit
  <2>4. r \notin pool.usedWithdrawals
    BY <1>5 DEF RegisterWithdrawal, MayWithdraw, ValidWithdrawRequest
  <2>5. Pending
    BY <2>2, <2>4
  <2>6. UNCHANGED <<status, requestId, issued>>
    BY <1>5 DEF RegisterWithdrawal, worldVars
  <2> QED BY <2>2, <2>3, <2>5, <2>6
<1>6. ASSUME NEW r \in WithdrawRequests, ForceDeactivation(r) PROVE Goal
  <2> DEFINE u == IF pool.unprocessed = NoHash THEN r ELSE pool.unprocessed
  <2>1. pool' = [pool EXCEPT !.unprocessed = u]
    BY <1>6 DEF ForceDeactivation
  <2>2. pool'.pending = pool.pending /\ pool'.unprocessed = u
    BY <2>1 DEF Ledger
  <2>3. Records /\ SameQueues(pool', pool)
    BY <2>1, <2>2, OtherEdit
  <2>4. r \notin pool.usedWithdrawals
    BY <1>6 DEF ForceDeactivation, MayWithdraw, ValidWithdrawRequest
  <2>5. status' >= Deactivating /\ requestId' = requestId /\ issued' = issued
    BY <1>6 DEF ForceDeactivation, worldVars, Deactivating
  <2> QED BY <2>2, <2>3, <2>4, <2>5
<1>7. ASSUME NEW r \in WithdrawRequests, QueueWithdrawal(r) PROVE Goal
  BY <1>7, <1>q DEF QueueWithdrawal
<1>8. ASSUME NEW from \in Investors \cup {Core}, NEW to \in Holders,
             NEW a \in TransferAmounts, TransferShares(from, to, a)
      PROVE  Goal
  <2>1. pool' = [pool EXCEPT !.shares[from] = @ - a, !.shares[to] = @ + a]
    BY <1>8 DEF TransferShares
  <2>2. Records /\ SameQueues(pool', pool)
        /\ pool'.pending = pool.pending /\ pool'.unprocessed = pool.unprocessed
    BY <2>1 DEF Ledger, SameRecords, SameQueues
  <2>3. UNCHANGED <<status, requestId, issued>>
    BY <1>8 DEF TransferShares, worldVars
  <2> QED BY <2>2, <2>3
<1>9. ASSUME NEW new \in PoolStatus, ChangePoolStatus(new) PROVE Goal
  <2>1. (pool.unprocessed # NoHash /\ status >= Deactivating) => status' >= Deactivating
    BY <1>9 DEF ChangePoolStatus, MayChangeStatus, PoolStatus, Created, Active,
       Deactivating, Terminated
  <2> QED BY <1>9, <1>k, <2>1 DEF ChangePoolStatus, worldVars
<1>10. ASSUME NEW q \in LockupPeriods, SetLockupPeriod(q) PROVE Goal
  BY <1>10, <1>k DEF SetLockupPeriod, worldVars
<1>11. ASSUME NEW c \in ClientTiers, SetMinClientTier(c) PROVE Goal
  BY <1>11, <1>k DEF SetMinClientTier, worldVars
<1>12. ASSUME NEW t \in Tokens, NEW c \in CashLevels, ProtocolAction(t, c) PROVE Goal
  <2>1. pool' = [pool EXCEPT !.cash = [pool.cash EXCEPT ![t] = c]]
    BY <1>12 DEF ProtocolAction
  <2>2. Records /\ SameQueues(pool', pool)
    BY <2>1, OtherEdit
  <2>3. pool'.pending = pool.pending /\ pool'.unprocessed = pool.unprocessed
    BY <2>1 DEF Ledger
  <2>4. UNCHANGED <<status, requestId, issued>>
    BY <1>12 DEF ProtocolAction, worldVars
  <2> QED BY <2>2, <2>3, <2>4
<1>13. ASSUME ResetOracleRequestId PROVE Goal
  BY <1>13 DEF ResetOracleRequestId, worldVars, SameRecords
<1>14. ASSUME NEW new \in FundStatuses, ChangeFundStatus(new) PROVE Goal
  BY <1>14, <1>k DEF ChangeFundStatus, poolVars
<1>15. ASSUME SwitchPause PROVE Goal
  BY <1>15, <1>k DEF SwitchPause, poolVars
<1>16. ASSUME Tick PROVE Goal
  BY <1>16, <1>k DEF Tick, poolVars
<1>17. ASSUME SettingsAction PROVE Goal
  BY <1>17, <1>k, SettingsFacts DEF poolVars, TypeOK
<1> QED BY <1>1, <1>2, <1>3, <1>4, <1>5, <1>6, <1>7, <1>8, <1>9, <1>10, <1>11,
           <1>12, <1>13, <1>14, <1>15, <1>16, <1>17 DEF Transaction, SettingsAction

-----------------------------------------------------------------------------
(* Nobody's profit: the high-water mark                                    *)

\* While deposits are settled the mark lags behind by what they add up to.
MarkInv ==
  /\ TypeInv
  /\ HighWaterMarkCoversCost
  /\ stage # "idle" => work.lastAccrual # 0
  /\ stage = "deposits" => work.highWaterMark + totalDeposit >= work.totalCost
  /\ stage = "withdrawals" => work.highWaterMark >= work.totalCost

LEMMA MarkInit == Init => MarkInv
<1> SUFFICES ASSUME Init PROVE MarkInv
  OBVIOUS
<1>1. TypeInv
  BY TypeInit
<1>2. stage = "idle" /\ pool.totalCost = 0 /\ pool.highWaterMark = 0
  BY DEF Init
<1> QED BY <1>1, <1>2 DEF MarkInv, HighWaterMarkCoversCost

LEMMA MarkPreserved ==
  ASSUME MarkInv, [Next]_vars, TypeInv'
  PROVE  MarkInv'
<1>0. TypeInv /\ HighWaterMarkCoversCost
  BY DEF MarkInv
<1>1. CASE External
  <2>1. SameRecords(pool', pool)
    BY <1>0, <1>1, TransactionFacts
  <2>2. stage = "idle" /\ stage' = "idle"
    BY <1>1 DEF External, callbackVars
  <2> QED BY <1>0, <2>1, <2>2 DEF SameRecords, MarkInv, HighWaterMarkCoversCost
<1>2. CASE Answer
  <2> PICK id \in 1..issued, value \in OracleValues : BeginCallback(id, value)
    BY <1>2 DEF Answer
  <2>1. /\ work'.lastAccrual # 0 /\ work'.totalCost = value
        /\ work'.highWaterMark >= value
    BY <1>0, AnswerFacts
  <2>2. stage' = "deposits" /\ totalDeposit' = 0 /\ pool' = pool
    BY DEF BeginCallback, poolVars
  <2>3. value \in Nat /\ work' \in Ledger
    BY <1>0, AnswerFacts, PoolAssumption
  <2>4. work'.highWaterMark \in Nat
    BY <2>3, LedgerElim
  <2> QED BY <1>0, <2>1, <2>2, <2>3, <2>4 DEF MarkInv, HighWaterMarkCoversCost
<1>3. CASE SkipDeposit
  <2>1. /\ work'.totalCost = work.totalCost /\ work'.highWaterMark = work.highWaterMark
        /\ work'.lastAccrual = work.lastAccrual
    BY <1>0, <1>3, SkipDepositFacts
  <2>2. stage = "deposits" /\ stage' = stage /\ pool' = pool /\ totalDeposit' = totalDeposit
    BY <1>3 DEF SkipDeposit, NextDeposit, poolVars
  <2> QED BY <1>0, <2>1, <2>2 DEF MarkInv, HighWaterMarkCoversCost
<1>4. CASE PullDeposit
  <2>1. /\ work'.totalCost = work.totalCost + DItem.amount
        /\ work'.highWaterMark = work.highWaterMark
        /\ work'.lastAccrual = work.lastAccrual
        /\ totalDeposit' = totalDeposit + DItem.amount
    BY <1>0, <1>4, PullDepositFacts
  <2>2. stage = "deposits" /\ stage' = stage /\ pool' = pool /\ DItem.amount \in Nat
    BY <1>0, <1>4, DepositHead DEF PullDeposit, NextDeposit, poolVars
  <2>3. work.totalCost \in Nat /\ work.highWaterMark \in Nat /\ totalDeposit \in Nat
    BY <1>0, <2>2, WorkTypes
  <2> QED BY <1>0, <2>1, <2>2, <2>3 DEF MarkInv, HighWaterMarkCoversCost
<1>5. CASE FinishDeposits
  <2>1. /\ work'.totalCost = work.totalCost /\ work'.lastAccrual = work.lastAccrual
        /\ work'.highWaterMark = work.highWaterMark + totalDeposit
    BY <1>0, <1>5, FinishDepositsFacts
  <2>2. stage = "deposits" /\ stage' = "withdrawals" /\ pool' = pool
    BY <1>5 DEF FinishDeposits, poolVars
  <2> QED BY <1>0, <2>1, <2>2 DEF MarkInv, HighWaterMarkCoversCost
<1>6. CASE SkipWithdrawal \/ RefuseWithdrawal \/ DeferWithdrawal
  <2>1. NextWithdrawal /\ Settles /\ SameValue(work', work) /\ SameDeposits(work', work)
    BY <1>0, <1>6, UnpaidFacts
  <2>2. stage = "withdrawals" /\ stage' = stage /\ pool' = pool
    BY <2>1 DEF NextWithdrawal, Settles, poolVars
  <2> QED BY <1>0, <2>1, <2>2
          DEF SameValue, SameDeposits, MarkInv, HighWaterMarkCoversCost
<1>7. CASE PayWithdrawal
  <2> DEFINE cost == BurnedCost(work, WItem)
  <2>1. /\ NextWithdrawal /\ Settles /\ cost \in Nat /\ cost <= work.totalCost
        /\ SameDeposits(work', work)
        /\ work'.totalCost = work.totalCost - cost
        /\ work'.highWaterMark = IF work.highWaterMark > cost
                                 THEN work.highWaterMark - cost ELSE 0
    BY <1>0, <1>7, PayFacts
  <2>2. stage = "withdrawals" /\ stage' = stage /\ pool' = pool
    BY <2>1 DEF NextWithdrawal, Settles, poolVars
  <2>3. work.totalCost \in Nat /\ work.highWaterMark \in Nat
    BY <1>0, <2>2, WorkTypes
  <2> HIDE DEF cost
  <2>4. work'.highWaterMark >= work'.totalCost
    BY <2>1, <2>2, <2>3 DEF MarkInv
  <2> QED BY <1>0, <2>1, <2>2, <2>4 DEF SameDeposits, MarkInv, HighWaterMarkCoversCost
<1>8. CASE RevertCallback
  <2>1. stage' = "idle" /\ pool' = pool
    BY <1>8 DEF RevertCallback, NextWithdrawal, poolVars
  <2> QED BY <1>0, <2>1 DEF MarkInv, HighWaterMarkCoversCost
<1>9. CASE FinishCallback
  <2>1. stage = "withdrawals" /\ stage' = "idle" /\ pool' = work
    BY <1>9 DEF FinishCallback
  <2> QED BY <2>1 DEF MarkInv, HighWaterMarkCoversCost
<1>10. CASE UNCHANGED vars
  BY <1>10 DEF MarkInv, HighWaterMarkCoversCost, vars, poolVars, callbackVars
<1> QED BY <1>1, <1>2, <1>3, <1>4, <1>5, <1>6, <1>7, <1>8, <1>9, <1>10
        DEF Next, Settlement

\* No deposit is ever taken for profit: the mark covers the recorded value
\* after every callback, whatever values the oracle reports.
THEOREM MarkCoversCost == Spec => []HighWaterMarkCoversCost
<1>1. Init => MarkInv
  BY MarkInit
<1>2. MarkInv /\ TypeInv' /\ [Next]_vars => MarkInv'
  BY MarkPreserved
<1>3. MarkInv => HighWaterMarkCoversCost
  BY DEF MarkInv
<1> QED BY <1>1, <1>2, <1>3, TypeInvariant, PTL DEF Spec

-----------------------------------------------------------------------------
(* Signed requests                                                         *)

OnceIn(l) ==
  /\ \A r \in DepositRequests : l.pulls[r] = IF r \in l.usedDeposits THEN 1 ELSE 0
  /\ \A r \in WithdrawRequests :
       l.payouts[r] <= IF r \in l.usedWithdrawals THEN 1 ELSE 0
  /\ \A r \in l.usedWithdrawals : l.pending[r] = 0

ForcedIn(l) ==
  l.unprocessed # NoHash =>
    status >= Deactivating /\ l.unprocessed \notin l.usedWithdrawals

\* The callback forgets the request that forced the deactivation only when it
\* executes it.
RequestsInv ==
  /\ TypeInv
  /\ OnceIn(pool) /\ ForcedIn(pool)
  /\ stage # "idle" =>
       /\ OnceIn(work) /\ ForcedIn(work)
       /\ pool.unprocessed # NoHash =>
            \/ work.unprocessed = pool.unprocessed
            \/ pool.unprocessed \in work.usedWithdrawals

LEMMA RequestsInit == Init => RequestsInv
<1> SUFFICES ASSUME Init PROVE RequestsInv
  OBVIOUS
<1>1. TypeInv
  BY TypeInit
<1>2. OnceIn(pool) /\ ForcedIn(pool) /\ stage = "idle"
  BY DEF Init, OnceIn, ForcedIn
<1> QED BY <1>1, <1>2 DEF RequestsInv

\* An item executes its own request, which was not executed before.
LEMMA OnceStep ==
  ASSUME NEW l \in Ledger, NEW m \in Ledger, NEW item, OnceIn(l),
         \/ m.pulls = l.pulls /\ m.usedDeposits = l.usedDeposits
         \/ /\ item.hash \notin l.usedDeposits
            /\ item.hash \in DepositRequests \cup {NoHash}
            /\ m.pulls = Counted(l.pulls, item.hash)
            /\ m.usedDeposits = l.usedDeposits \cup ({item.hash} \ {NoHash}),
         \/ /\ m.payouts = l.payouts /\ m.usedWithdrawals = l.usedWithdrawals
            /\ \A r \in WithdrawRequests : m.pending[r] \in {0, l.pending[r]}
         \/ /\ \/ m.payouts = l.payouts
               \/ /\ item.hash \notin l.usedWithdrawals
                  /\ m.payouts = Counted(l.payouts, item.hash)
            /\ m.usedWithdrawals = l.usedWithdrawals \cup ({item.hash} \cap WithdrawRequests)
            /\ \A r \in WithdrawRequests :
                 m.pending[r] = IF r = item.hash THEN 0 ELSE l.pending[r]
  PROVE  OnceIn(m)
<1>0. /\ l.pulls \in [DepositRequests -> Nat] /\ l.payouts \in [WithdrawRequests -> Nat]
      /\ l.usedDeposits \in SUBSET DepositRequests
      /\ l.usedWithdrawals \in SUBSET WithdrawRequests
      /\ l.pending \in [WithdrawRequests -> Nat]
      /\ NoHash \notin DepositRequests
  BY LedgerElim, PoolAssumption
<1>1. ASSUME NEW r \in DepositRequests
      PROVE  m.pulls[r] = IF r \in m.usedDeposits THEN 1 ELSE 0
  <2>1. l.pulls[r] = IF r \in l.usedDeposits THEN 1 ELSE 0
    BY DEF OnceIn
  <2>2. CASE m.pulls = l.pulls /\ m.usedDeposits = l.usedDeposits
    BY <2>1, <2>2
  <2>3. CASE /\ item.hash \notin l.usedDeposits
             /\ item.hash \in DepositRequests \cup {NoHash}
             /\ m.pulls = Counted(l.pulls, item.hash)
             /\ m.usedDeposits = l.usedDeposits \cup ({item.hash} \ {NoHash})
    <3>1. m.pulls[r] = l.pulls[r] + (IF r = item.hash THEN 1 ELSE 0)
      BY <1>0, <2>3 DEF Counted
    <3> QED BY <1>0, <2>1, <2>3, <3>1
  <2> QED BY <2>2, <2>3
<1>2. ASSUME NEW r \in WithdrawRequests
      PROVE  m.payouts[r] <= IF r \in m.usedWithdrawals THEN 1 ELSE 0
  <2>1. l.payouts[r] <= IF r \in l.usedWithdrawals THEN 1 ELSE 0
    BY DEF OnceIn
  <2>2. CASE m.payouts = l.payouts
    <3>1. r \in l.usedWithdrawals => r \in m.usedWithdrawals
      OBVIOUS
    <3>2. l.payouts[r] \in Nat
      BY <1>0
    <3> QED BY <2>1, <2>2, <3>1, <3>2
  <2>3. CASE /\ item.hash \notin l.usedWithdrawals
             /\ m.payouts = Counted(l.payouts, item.hash)
             /\ m.usedWithdrawals = l.usedWithdrawals \cup ({item.hash} \cap WithdrawRequests)
    <3>1. m.payouts[r] = l.payouts[r] + (IF r = item.hash THEN 1 ELSE 0)
      BY <1>0, <2>3 DEF Counted
    <3>2. l.payouts[r] \in Nat
      BY <1>0
    <3> QED BY <2>1, <2>3, <3>1, <3>2
  <2> QED BY <2>2, <2>3
<1>3. ASSUME NEW r \in m.usedWithdrawals PROVE m.pending[r] = 0
  <2>1. r \in l.usedWithdrawals => l.pending[r] = 0
    BY DEF OnceIn
  <2> QED BY <1>0, <2>1
<1> QED BY <1>1, <1>2, <1>3 DEF OnceIn

\* One step of a callback, before its end, keeps what it has settled right.
LEMMA RequestsCallbackStep ==
  ASSUME RequestsInv, TypeInv', stage # "idle", stage' # "idle",
         UNCHANGED poolVars, OnceIn(work'),
         \/ /\ work'.unprocessed = work.unprocessed
            /\ work'.usedWithdrawals = work.usedWithdrawals
         \/ /\ work'.usedWithdrawals =
                 work.usedWithdrawals \cup ({WItem.hash} \cap WithdrawRequests)
            /\ work'.unprocessed = IF work.unprocessed = WItem.hash THEN NoHash
                                   ELSE work.unprocessed
  PROVE  RequestsInv'
<1>1. ForcedIn(work)'
  BY DEF RequestsInv, ForcedIn, poolVars
<1>2. OnceIn(pool)' /\ ForcedIn(pool)'
  BY DEF RequestsInv, ForcedIn, OnceIn, poolVars
<1>3. OnceIn(work)'
  BY DEF OnceIn
<1>4. pool'.unprocessed # NoHash =>
            \/ work'.unprocessed = pool'.unprocessed
            \/ pool'.unprocessed \in work'.usedWithdrawals
  <2>1. pool.unprocessed \in WithdrawRequests \cup {NoHash} /\ pool' = pool
    BY LedgerElim DEF RequestsInv, TypeInv, TypeOK, poolVars
  <2> QED BY <2>1 DEF RequestsInv
<1> QED BY <1>1, <1>2, <1>3, <1>4 DEF RequestsInv

LEMMA RequestsPreserved ==
  ASSUME RequestsInv, [Next]_vars, TypeInv'
  PROVE  RequestsInv'
<1>0. TypeInv /\ pool \in Ledger /\ OnceIn(pool) /\ ForcedIn(pool)
  BY DEF RequestsInv, TypeInv, TypeOK
<1>w. stage # "idle" => work \in Ledger /\ OnceIn(work)
  BY WorkTypes DEF RequestsInv
<1>1. CASE External
  <2>1. /\ SameRecords(pool', pool)
        /\ \A r \in WithdrawRequests :
             pool'.pending[r] = pool.pending[r] \/ r \notin pool.usedWithdrawals
        /\ \/ /\ pool'.unprocessed = pool.unprocessed
              /\ (pool.unprocessed # NoHash /\ status >= Deactivating)
                   => status' >= Deactivating
           \/ /\ pool.unprocessed = NoHash
              /\ pool'.unprocessed \notin pool.usedWithdrawals
              /\ status' >= Deactivating
    BY <1>0, <1>1, TransactionFacts
  <2>2. stage' = "idle" /\ pool.usedWithdrawals \in SUBSET WithdrawRequests
    BY <1>0, <1>1, LedgerElim DEF External, callbackVars
  <2>3. OnceIn(pool)'
    BY <1>0, <2>1, <2>2 DEF SameRecords, OnceIn
  <2>4. ForcedIn(pool)'
    BY <1>0, <2>1 DEF SameRecords, ForcedIn
  <2> QED BY <2>2, <2>3, <2>4 DEF RequestsInv
<1>2. CASE Answer
  <2> PICK id \in 1..issued, value \in OracleValues : BeginCallback(id, value)
    BY <1>2 DEF Answer
  <2>1. SameRequests(work', pool)
    BY <1>0, AnswerFacts
  <2>2. UNCHANGED poolVars
    BY DEF BeginCallback
  <2>3. OnceIn(pool)' /\ ForcedIn(pool)' /\ OnceIn(work)' /\ ForcedIn(work)'
    BY <1>0, <2>1, <2>2 DEF SameRequests, OnceIn, ForcedIn, poolVars
  <2>4. work'.unprocessed = pool'.unprocessed
    BY <2>1, <2>2 DEF SameRequests, poolVars
  <2> QED BY <2>3, <2>4 DEF RequestsInv
<1>3. CASE SkipDeposit
  <2>1. /\ work' \in Ledger
        /\ work'.usedDeposits = work.usedDeposits /\ work'.pulls = work.pulls
        /\ work'.usedWithdrawals = work.usedWithdrawals
        /\ work'.pending = work.pending /\ work'.unprocessed = work.unprocessed
        /\ work'.payouts = work.payouts
    BY <1>0, <1>3, SkipDepositFacts
  <2>2. stage = "deposits" /\ stage' = stage /\ UNCHANGED poolVars
    BY <1>3 DEF SkipDeposit, NextDeposit
  <2>3. OnceIn(work')
    BY <1>w, <2>1, <2>2 DEF OnceIn
  <2> QED BY <2>1, <2>2, <2>3, RequestsCallbackStep
<1>4. CASE PullDeposit
  <2>1. /\ work' \in Ledger
        /\ work'.usedDeposits = work.usedDeposits \cup ({DItem.hash} \ {NoHash})
        /\ work'.pulls = Counted(work.pulls, DItem.hash)
        /\ work'.usedWithdrawals = work.usedWithdrawals
        /\ work'.pending = work.pending /\ work'.unprocessed = work.unprocessed
        /\ work'.payouts = work.payouts
    BY <1>0, <1>4, PullDepositFacts
  <2>2. /\ stage = "deposits" /\ stage' = stage /\ UNCHANGED poolVars
        /\ NextDeposit /\ DItem.hash \notin work.usedDeposits
    BY <1>4 DEF PullDeposit, NextDeposit, DepositDue, DItem
  <2>3. DItem.hash \in DepositRequests \cup {NoHash}
    BY <1>0, <2>2, DepositHead
  <2>4. \A r \in WithdrawRequests : work'.pending[r] \in {0, work.pending[r]}
    BY <2>1
  <2>5. OnceIn(work')
    BY <1>w, <2>1, <2>2, <2>3, <2>4, OnceStep
  <2> QED BY <2>1, <2>2, <2>5, RequestsCallbackStep
<1>5. CASE FinishDeposits
  <2>1. /\ work' \in Ledger
        /\ work'.usedDeposits = work.usedDeposits /\ work'.pulls = work.pulls
        /\ work'.usedWithdrawals = work.usedWithdrawals
        /\ work'.pending = work.pending /\ work'.unprocessed = work.unprocessed
        /\ work'.payouts = work.payouts
    BY <1>0, <1>5, FinishDepositsFacts
  <2>2. stage = "deposits" /\ stage' = "withdrawals" /\ UNCHANGED poolVars
    BY <1>5 DEF FinishDeposits
  <2>3. OnceIn(work')
    BY <1>w, <2>1, <2>2 DEF OnceIn
  <2> QED BY <2>1, <2>2, <2>3, RequestsCallbackStep
<1>6. CASE SkipWithdrawal \/ RefuseWithdrawal \/ DeferWithdrawal
  <2>1. /\ NextWithdrawal /\ Settles /\ work' \in Ledger
        /\ SameDeposits(work', work) /\ SameValue(work', work)
        /\ \/ /\ work'.usedWithdrawals = work.usedWithdrawals
              /\ work'.unprocessed = work.unprocessed
           \/ /\ work'.usedWithdrawals =
                   work.usedWithdrawals \cup ({WItem.hash} \cap WithdrawRequests)
              /\ work'.unprocessed = IF work.unprocessed = WItem.hash THEN NoHash
                                     ELSE work.unprocessed
              /\ \A r \in WithdrawRequests :
                   work'.pending[r] = IF r = WItem.hash THEN 0 ELSE work.pending[r]
        /\ \A r \in WithdrawRequests : work'.pending[r] \in {0, work.pending[r]}
    BY <1>0, <1>6, UnpaidFacts
  <2>2. stage = "withdrawals" /\ stage' = stage /\ UNCHANGED poolVars
    BY <2>1 DEF NextWithdrawal, Settles
  <2>3. OnceIn(work')
    BY <1>w, <2>1, <2>2, OnceStep DEF SameDeposits, SameValue
  <2> QED BY <2>1, <2>2, <2>3, RequestsCallbackStep
<1>7. CASE PayWithdrawal
  <2>1. /\ NextWithdrawal /\ Settles /\ work' \in Ledger
        /\ SameDeposits(work', work)
        /\ WItem.hash \notin work.usedWithdrawals
        /\ work'.payouts = Counted(work.payouts, WItem.hash)
        /\ work'.usedWithdrawals =
             work.usedWithdrawals \cup ({WItem.hash} \cap WithdrawRequests)
        /\ work'.unprocessed = IF work.unprocessed = WItem.hash THEN NoHash
                               ELSE work.unprocessed
        /\ \A r \in WithdrawRequests :
             work'.pending[r] = IF r = WItem.hash THEN 0 ELSE work.pending[r]
    BY <1>0, <1>7, PayFacts
  <2>2. stage = "withdrawals" /\ stage' = stage /\ UNCHANGED poolVars
    BY <2>1 DEF NextWithdrawal, Settles
  <2>3. OnceIn(work')
    BY <1>w, <2>1, <2>2, OnceStep DEF SameDeposits
  <2> QED BY <2>1, <2>2, <2>3, RequestsCallbackStep
<1>8. CASE RevertCallback
  <2>1. stage' = "idle" /\ UNCHANGED poolVars
    BY <1>8 DEF RevertCallback, NextWithdrawal
  <2> QED BY <1>0, <2>1 DEF RequestsInv, OnceIn, ForcedIn, poolVars
<1>9. CASE FinishCallback
  <2>1. /\ stage = "withdrawals" /\ stage' = "idle" /\ pool' = work /\ status' = status
    BY <1>9 DEF FinishCallback
  <2>2. OnceIn(pool)' /\ ForcedIn(pool)'
    BY <2>1 DEF RequestsInv, OnceIn, ForcedIn
  <2> QED BY <2>1, <2>2 DEF RequestsInv
<1>10. CASE UNCHANGED vars
  BY <1>10 DEF RequestsInv, OnceIn, ForcedIn, vars, poolVars, callbackVars
<1> QED BY <1>1, <1>2, <1>3, <1>4, <1>5, <1>6, <1>7, <1>8, <1>9, <1>10
        DEF Next, Settlement

LEMMA RequestsInvariant == Spec => []RequestsInv
<1>1. Init => RequestsInv
  BY RequestsInit
<1>2. RequestsInv /\ TypeInv' /\ [Next]_vars => RequestsInv'
  BY RequestsPreserved
<1> QED BY <1>1, <1>2, TypeInvariant, PTL DEF Spec

\* A signed deposit request pulls its investor's tokens at most once, and it
\* is used exactly if it did, whatever batches name it and however callbacks
\* revert or are answered again.
THEOREM DepositOnce == Spec => []DepositRequestExecutedOnce
<1>1. RequestsInv => DepositRequestExecutedOnce
  BY DEF RequestsInv, OnceIn, DepositRequestExecutedOnce
<1> QED BY <1>1, RequestsInvariant, PTL

\* A signed withdrawal request is paid at most once.
THEOREM WithdrawalOnce == Spec => []WithdrawRequestPaidOnce
<1>1. RequestsInv => WithdrawRequestPaidOnce
  BY DEF RequestsInv, OnceIn, WithdrawRequestPaidOnce
<1> QED BY <1>1, RequestsInvariant, PTL

\* While the withdrawal that forced a deactivation is remembered, the pool does
\* not run and the withdrawal is not executed.
THEOREM ForcedDown == Spec => []UnprocessedKeepsPoolDown
<1>1. RequestsInv => UnprocessedKeepsPoolDown
  BY DEF RequestsInv, ForcedIn, UnprocessedKeepsPoolDown
<1> QED BY <1>1, RequestsInvariant, PTL

-----------------------------------------------------------------------------
(* Investors' items cannot stop a callback                                 *)

\* An investor's item that is due fits in the supply, because the supply is
\* the sum of all shares, so its cost is within the value of the pool.
LEMMA InvestorItemsSettle ==
  ASSUME TypeInv, stage = "withdrawals", work.withdrawQueue # <<>>,
         WItem.investor # Fund
  PROVE  ~WithdrawalPanics(work, WItem)
<1>1. WItem \in WithdrawItems
  BY WorkTypes, LedgerElim, HeadTailProperties DEF WItem
<1>2. WItem \in InvestorWithdrawals
  BY <1>1 DEF WithdrawItems, FundWithdrawals
<1>3. /\ WItem.amount \in Nat \ {0} /\ WItem.investor \in Holders
  BY <1>2 DEF InvestorWithdrawals, Holders
<1>4. /\ SharesSumUp(work) /\ work.totalCost \in Nat /\ work.supply \in Nat
      /\ work.shares \in [Holders -> Nat]
  BY WorkTypes
<1>5. ~MandatoryPanics(work, WItem)
  BY DEF MandatoryPanics
<1>6. ASSUME WithdrawalDue(work, WItem)
      PROVE  /\ work.supply > 0 /\ BurnedCost(work, WItem) \in Nat
             /\ BurnedCost(work, WItem) <= work.totalCost
  <2>1. WItem.amount <= work.shares[WItem.investor]
    BY <1>6 DEF WithdrawalDue, AvailableToWithdraw
  <2>2. work.shares[WItem.investor] <= work.supply
    BY <1>3, <1>4, HoldersFinite, SumBoundsEach DEF SharesSumUp
  <2> DEFINE a == WItem.amount
             s == work.supply
             c == work.totalCost
  <2>3. a \in Nat /\ s \in Nat /\ c \in Nat /\ a > 0 /\ a <= s
    BY <1>3, <1>4, <2>1, <2>2
  <2> HIDE DEF a, s, c
  <2>4. (c * a) \div s \in Nat /\ (c * a) \div s <= c
    <3>1. c * a \in Nat /\ c * a <= c * s
      BY <2>3
    <3>2. s > 0
      BY <2>3
    <3> QED BY <2>3, <3>1, <3>2, QuotientBound
  <2> QED BY <2>3, <2>4 DEF a, s, c, BurnedCost
<1> DEFINE cost == BurnedCost(work, WItem)
<1>7. WithdrawalDue(work, WItem) => work.supply # 0 /\ ~(cost > work.totalCost)
  BY <1>4, <1>6
<1> QED BY <1>5, <1>7 DEF WithdrawalPanics

\* No request of an investor, however often it is queued and whatever shares
\* have moved since, makes the callback revert.
THEOREM InvestorsCannotBlock == Spec => []OnlyFundItemsPanic
<1>1. TypeInv => OnlyFundItemsPanic
  BY InvestorItemsSettle DEF OnlyFundItemsPanic, WItem
<1> QED BY <1>1, TypeInvariant, PTL

-----------------------------------------------------------------------------
(* Settlement and the value of a share                                     *)

\* The callback's rounding, on plain numbers.
LEMMA MintRoundsDown ==
  ASSUME NEW total \in Nat, NEW supply \in Nat, NEW amount \in Nat, supply > 0,
         NEW minted \in Nat, minted = SharesByQuote(amount, supply, total)
  PROVE  (supply + minted) * total <= supply * (total + amount)
<1>1. CASE total = 0
  <2>1. (supply + minted) * total = 0
    BY <1>1
  <2>2. supply * (total + amount) \in Nat
    OBVIOUS
  <2> QED BY <2>1, <2>2
<1>2. CASE total > 0
  <2>1. minted = (amount * supply) \div total
    BY <1>2 DEF SharesByQuote
  <2>2. minted * total <= amount * supply
    <3>1. amount * supply \in Nat
      OBVIOUS
    <3> QED BY <1>2, <2>1, <3>1
  <2>3. (supply + minted) * total = supply * total + minted * total
    OBVIOUS
  <2>4. supply * (total + amount) = supply * total + amount * supply
    OBVIOUS
  <2>5. /\ supply * total \in Nat /\ minted * total \in Nat /\ amount * supply \in Nat
    OBVIOUS
  <2> QED BY <2>2, <2>3, <2>4, <2>5
<1> QED BY <1>1, <1>2

LEMMA BurnRoundsDown ==
  ASSUME NEW total \in Nat, NEW supply \in Nat, NEW amount \in Nat, supply > 0,
         amount <= supply, NEW cost \in Nat, cost = (total * amount) \div supply
  PROVE  (supply - amount) * total <= supply * (total - cost)
<1>1. cost * supply <= total * amount
  <2>1. total * amount \in Nat
    OBVIOUS
  <2> QED BY <2>1
<1>2. (supply - amount) * total = supply * total - total * amount
  OBVIOUS
<1>3. supply * (total - cost) = supply * total - cost * supply
  OBVIOUS
<1>4. supply * total \in Nat /\ total * amount \in Nat /\ cost * supply \in Nat
  OBVIOUS
<1> QED BY <1>1, <1>2, <1>3, <1>4

LEMMA PayNeverDilutes ==
  ASSUME TypeInv, PayWithdrawal
  PROVE  work'.supply * work.totalCost <= work.supply * work'.totalCost
<1> DEFINE cost == BurnedCost(work, WItem)
<1>1. /\ NextWithdrawal /\ cost \in Nat
      /\ work.supply > 0 /\ WItem.amount <= work.supply
      /\ work'.totalCost = work.totalCost - cost
      /\ work'.supply = work.supply - WItem.amount
  BY PayFacts
<1>2. stage = "withdrawals" /\ WItem.amount \in Nat
  BY <1>1, WithdrawalHead
<1>3. work.totalCost \in Nat /\ work.supply \in Nat
  BY <1>2, WorkTypes
<1>4. cost = (work.totalCost * WItem.amount) \div work.supply
  BY DEF BurnedCost
<1> HIDE DEF cost
<1> QED BY <1>1, <1>2, <1>3, <1>4, BurnRoundsDown

LEMMA SettlementKeepsShareValue ==
  ASSUME TypeInv, TypeInv', [Next]_vars, work # NoWork, work' # NoWork, work.supply > 0
  PROVE  work'.supply * work.totalCost <= work.supply * work'.totalCost
<1>0. /\ stage # "idle" /\ stage' # "idle"
      /\ work.totalCost \in Nat /\ work.supply \in Nat
  BY WorkTypes DEF TypeInv, TypeOK
<1>k. (work'.totalCost = work.totalCost /\ work'.supply = work.supply) =>
        work'.supply * work.totalCost <= work.supply * work'.totalCost
  <2>1. work.supply * work.totalCost \in Nat
    BY <1>0
  <2> QED BY <2>1
<1>1. CASE External \/ Answer
  BY <1>0, <1>1 DEF External, Answer, BeginCallback
<1>2. CASE SkipDeposit
  BY <1>2, <1>k, SkipDepositFacts
<1>3. CASE PullDeposit
  <2>1. /\ work'.totalCost = work.totalCost + DItem.amount
        /\ work'.supply = work.supply + Minted(work, DItem)
    BY <1>3, PullDepositFacts
  <2>2. DItem.amount \in Nat /\ Minted(work, DItem) \in Nat
    BY <1>3, DepositHead DEF PullDeposit
  <2>3. Minted(work, DItem) = SharesByQuote(DItem.amount, work.supply, work.totalCost)
    BY DEF Minted
  <2> QED BY <1>0, <2>1, <2>2, <2>3, MintRoundsDown
<1>4. CASE FinishDeposits
  BY <1>4, <1>k, FinishDepositsFacts
<1>5. CASE SkipWithdrawal \/ RefuseWithdrawal \/ DeferWithdrawal
  BY <1>5, <1>k, UnpaidFacts DEF SameValue
<1>6. CASE PayWithdrawal
  BY <1>6, PayNeverDilutes
<1>7. CASE RevertCallback \/ FinishCallback
  BY <1>7, <1>0 DEF RevertCallback, FinishCallback
<1>8. CASE UNCHANGED vars
  BY <1>8, <1>k DEF vars, callbackVars
<1> QED BY <1>1, <1>2, <1>3, <1>4, <1>5, <1>6, <1>7, <1>8 DEF Next, Settlement

\* Neither a deposit nor a withdrawal lowers the value of the shares of those
\* who take no part in it: both round in the pool's favour.
THEOREM NobodyIsDiluted == Spec => SettlementNeverDilutes
<1>1. TypeInv /\ TypeInv' /\ [Next]_vars =>
        [(work # NoWork /\ work' # NoWork /\ work.supply > 0) =>
           work'.supply * work.totalCost <= work.supply * work'.totalCost]_vars
  BY SettlementKeepsShareValue
<1> QED BY <1>1, TypeInvariant, PTL DEF Spec, SettlementNeverDilutes

\* Keeping the mandatory shares, on plain numbers: one share more than what is
\* left is worth at least `least` when every share has kept its value.
LEMMA StakeArithmetic ==
  ASSUME NEW least \in Nat, NEW total \in Nat, NEW supply \in Nat, NEW total1 \in Nat,
         NEW supply1 \in Nat, NEW left \in Nat, supply > 0, total > 0,
         left >= (least * supply) \div total,
         supply1 * total <= supply * total1
  PROVE  (left + 1) * total1 >= least * supply1
<1>1. (left + 1) * total >= least * supply
  <2>1. least * supply \in Nat
    OBVIOUS
  <2> QED BY <2>1
<1>2. ((left + 1) * total) * supply1 >= (least * supply) * supply1
  <2> DEFINE x == (left + 1) * total
             y == least * supply
  <2>1. x \in Nat /\ y \in Nat /\ x >= y
    BY <1>1
  <2> HIDE DEF x, y
  <2>2. x * supply1 >= y * supply1
    BY <2>1
  <2> QED BY <2>2 DEF x, y
<1>3. (left + 1) * (supply * total1) >= (left + 1) * (supply1 * total)
  <2> DEFINE x == supply * total1
             y == supply1 * total
  <2>1. x \in Nat /\ y \in Nat /\ x >= y
    OBVIOUS
  <2> HIDE DEF x, y
  <2>2. (left + 1) * x >= (left + 1) * y
    BY <2>1
  <2> QED BY <2>2 DEF x, y
<1> DEFINE p == (left + 1) * total1
           q == least * supply1
<1>4. p \in Nat /\ q \in Nat
  OBVIOUS
<1>5. (left + 1) * (supply * total1) = p * supply
  OBVIOUS
<1>6. (least * supply) * supply1 = q * supply
  OBVIOUS
<1>7. ((left + 1) * total) * supply1 = (left + 1) * (supply1 * total)
  OBVIOUS
<1>8. p * supply >= q * supply
  <2>1. /\ (left + 1) * (supply * total1) \in Nat /\ (least * supply) * supply1 \in Nat
        /\ ((left + 1) * total) * supply1 \in Nat
    OBVIOUS
  <2> QED BY <1>2, <1>3, <1>5, <1>6, <1>7, <2>1
<1> HIDE DEF p, q
<1>9. p >= q
  <2> SUFFICES ASSUME p < q PROVE FALSE
    BY <1>4
  <2>1. p * supply < q * supply
    BY <1>4
  <2> QED BY <1>4, <1>8, <2>1
<1> QED BY <1>9 DEF p, q

LEMMA FundLeavesItsStake ==
  ASSUME TypeInv, PayWithdrawal, status < Deactivating, WItem.investor = Fund,
         WItem.amount > 0
  PROVE  (work'.shares[Fund] + 1) * work'.totalCost
            >= settings.minimumFundDeposit * work'.supply
<1>1. /\ NextWithdrawal
      /\ WItem.amount <= work.shares[WItem.investor]
      /\ work.supply > 0 /\ work' \in Ledger
      /\ work'.shares = [work.shares EXCEPT ![WItem.investor] = @ - WItem.amount]
  BY PayFacts
<1>2. stage = "withdrawals" /\ WItem.amount \in Nat /\ Fund \in Holders
  BY <1>1, WithdrawalHead, ConstantTypes
<1>3. /\ work.totalCost \in Nat /\ work.supply \in Nat
      /\ work.shares \in [Holders -> Nat]
      /\ work'.totalCost \in Nat /\ work'.supply \in Nat
      /\ work'.shares \in [Holders -> Nat]
  BY <1>1, <1>2, WorkTypes, LedgerElim
<1>4. /\ ~MandatoryPanics(work, WItem) /\ WithdrawalDue(work, WItem)
  BY DEF PayWithdrawal, WithdrawalPanics, WItem
<1>5. /\ ValueToRemain(work, WItem) = settings.minimumFundDeposit
      /\ settings.minimumFundDeposit \in Nat
  BY DEF ValueToRemain, TypeInv, TypeOK, Settings
<1>6. work.totalCost > 0
  BY <1>3, <1>4 DEF MandatoryPanics
<1> DEFINE mandatory == (settings.minimumFundDeposit * work.supply) \div work.totalCost
<1>7. mandatory \in Nat
  <2>1. settings.minimumFundDeposit * work.supply \in Nat
    BY <1>3, <1>5
  <2> QED BY <1>3, <1>6, <2>1
<1>8. WItem.amount <= IF work.shares[Fund] > mandatory
                      THEN work.shares[Fund] - mandatory ELSE 0
  BY <1>4, <1>5 DEF WithdrawalDue, AvailableToWithdraw
<1>9. work'.shares[Fund] = work.shares[Fund] - WItem.amount
  BY <1>1, <1>2, <1>3
<1>10. work'.shares[Fund] >= mandatory
  <2> HIDE DEF mandatory
  <2> QED BY <1>2, <1>3, <1>7, <1>8, <1>9
<1>11. work'.supply * work.totalCost <= work.supply * work'.totalCost
  BY PayNeverDilutes
<1>12. work'.shares[Fund] \in Nat
  BY <1>2, <1>3
<1> QED BY <1>1, <1>3, <1>5, <1>6, <1>10, <1>11, <1>12, StakeArithmetic

\* However the fund's withdrawals are split, queued or priced, a running pool
\* keeps the fund's stake, up to the value of one share.
THEOREM FundStakeKept == Spec => FundKeepsMinimumStake
<1>1. TypeInv /\ [Next]_vars =>
        [(/\ PayWithdrawal /\ status < Deactivating
          /\ Head(work.withdrawQueue).investor = Fund
          /\ Head(work.withdrawQueue).amount > 0) =>
            (work'.shares[Fund] + 1) * work'.totalCost
               >= settings.minimumFundDeposit * work'.supply]_vars
  BY FundLeavesItsStake DEF WItem
<1> QED BY <1>1, TypeInvariant, PTL DEF Spec, FundKeepsMinimumStake

-----------------------------------------------------------------------------
(* Oracle requests and their answers                                       *)

\* Request ids only grow; the callback answers the request that is awaited.
AnswersInv ==
  /\ TypeInv
  /\ pool.answered <= issued
  /\ requestId # 0 => pool.answered < requestId
  /\ stage # "idle" => requestId # 0 /\ work.answered = requestId
  /\ stage = "withdrawals" => work.depositQueue = <<>>

LEMMA AnswersInit == Init => AnswersInv
<1> SUFFICES ASSUME Init PROVE AnswersInv
  OBVIOUS
<1>1. TypeInv
  BY TypeInit
<1>2. stage = "idle" /\ requestId = 0 /\ pool.answered = 0 /\ issued = 0
  BY DEF Init
<1> QED BY <1>1, <1>2 DEF AnswersInv

LEMMA AnswersPreserved ==
  ASSUME AnswersInv, [Next]_vars, TypeInv'
  PROVE  AnswersInv'
<1>0. /\ TypeInv /\ pool.answered \in Nat /\ issued \in Nat /\ requestId \in 0..issued
      /\ pool.answered <= issued /\ (requestId # 0 => pool.answered < requestId)
  BY LedgerElim DEF AnswersInv, TypeInv, TypeOK
<1>i. ASSUME stage' = "idle", pool' = pool, requestId' = requestId, issued' = issued
      PROVE  AnswersInv'
  BY <1>0, <1>i DEF AnswersInv
<1>c. ASSUME UNCHANGED <<poolVars, worldVars>>, work'.answered = work.answered,
             stage # "idle", stage' # "idle",
             stage' = "withdrawals" => work'.depositQueue = <<>>
      PROVE  AnswersInv'
  BY <1>0, <1>c DEF AnswersInv, poolVars, worldVars
<1>1. CASE External
  <2>1. /\ pool'.answered = pool.answered
        /\ \/ requestId' = requestId /\ issued' = issued
           \/ requestId' = issued' /\ issued' = issued + 1
           \/ requestId' = 0 /\ issued' = issued
    BY <1>0, <1>1, TransactionFacts DEF SameRecords
  <2>2. stage' = "idle"
    BY <1>1 DEF External, callbackVars
  <2> QED BY <1>0, <2>1, <2>2 DEF AnswersInv
<1>2. CASE Answer
  <2> PICK id \in 1..issued, value \in OracleValues : BeginCallback(id, value)
    BY <1>2 DEF Answer
  <2>1. work'.answered = id
    BY <1>0, AnswerFacts
  <2>2. /\ requestId # 0 /\ id = requestId /\ stage' = "deposits"
        /\ pool' = pool /\ requestId' = requestId /\ issued' = issued
    BY DEF BeginCallback, poolVars, worldVars
  <2> QED BY <1>0, <2>1, <2>2 DEF AnswersInv
<1>3. CASE SkipDeposit
  BY <1>0, <1>3, <1>c, SkipDepositFacts DEF SkipDeposit, NextDeposit
<1>4. CASE PullDeposit
  BY <1>0, <1>4, <1>c, PullDepositFacts DEF PullDeposit, NextDeposit
<1>5. CASE FinishDeposits
  <2>1. work'.answered = work.answered /\ work'.depositQueue = work.depositQueue
    BY <1>0, <1>5, FinishDepositsFacts
  <2> QED BY <1>5, <1>c, <2>1 DEF FinishDeposits
<1>6. CASE SkipWithdrawal \/ RefuseWithdrawal \/ DeferWithdrawal
  <2>1. NextWithdrawal /\ Settles /\ SameDeposits(work', work)
    BY <1>0, <1>6, UnpaidFacts
  <2> QED BY <1>c, <2>1 DEF NextWithdrawal, Settles, SameDeposits, AnswersInv
<1>7. CASE PayWithdrawal
  <2>1. NextWithdrawal /\ Settles /\ SameDeposits(work', work)
    BY <1>0, <1>7, PayFacts
  <2> QED BY <1>c, <2>1 DEF NextWithdrawal, Settles, SameDeposits, AnswersInv
<1>8. CASE RevertCallback
  BY <1>8, <1>i DEF RevertCallback, NextWithdrawal, poolVars, worldVars
<1>9. CASE FinishCallback
  <2>1. /\ stage # "idle" /\ stage' = "idle" /\ pool' = work /\ requestId' = 0
        /\ issued' = issued
    BY <1>9 DEF FinishCallback, worldVars
  <2> QED BY <1>0, <2>1 DEF AnswersInv
<1>10. CASE UNCHANGED vars
  BY <1>10 DEF AnswersInv, vars, poolVars, callbackVars, worldVars
<1> QED BY <1>1, <1>2, <1>3, <1>4, <1>5, <1>6, <1>7, <1>8, <1>9, <1>10
        DEF Next, Settlement

LEMMA AnswersInvariant == Spec => []AnswersInv
<1>1. Init => AnswersInv
  BY AnswersInit
<1>2. AnswersInv /\ TypeInv' /\ [Next]_vars => AnswersInv'
  BY AnswersPreserved
<1> QED BY <1>1, <1>2, TypeInvariant, PTL DEF Spec

\* Only the end of a callback changes the pool while a callback runs.
LEMMA OnlyTheEndCommits ==
  ASSUME [Next]_vars, stage # "idle"
  PROVE  \/ UNCHANGED <<pool, requestId>>
         \/ FinishCallback
BY DEF Next, External, Answer, BeginCallback, Settlement, SkipDeposit, PullDeposit,
       NextDeposit, FinishDeposits, SkipWithdrawal, RefuseWithdrawal, DeferWithdrawal,
       PayWithdrawal, NextWithdrawal, RevertCallback, vars, poolVars

\* No answer is applied twice, and none after the answer to a later request.
THEOREM AnswersInOrder == Spec => AnswersAppliedOnceInOrder
<1>1. ASSUME AnswersInv, [Next]_vars, stage # "idle", pool' # pool
      PROVE  pool'.answered > pool.answered
  <2>1. pool' = work
    BY <1>1, OnlyTheEndCommits DEF FinishCallback
  <2>2. requestId # 0 /\ pool.answered < requestId /\ work.answered = requestId
    BY <1>1 DEF AnswersInv
  <2>3. pool.answered \in Nat /\ requestId \in Nat
    BY <1>1, LedgerElim DEF AnswersInv, TypeInv, TypeOK
  <2> QED BY <2>1, <2>2, <2>3
<1>2. AnswersInv /\ [Next]_vars =>
        [(stage # "idle" /\ pool' # pool) => pool'.answered > pool.answered]_vars
  BY <1>1
<1> QED BY <1>2, AnswersInvariant, PTL DEF Spec, AnswersAppliedOnceInOrder

\* A callback ends with both queues empty, and whatever queues an item sends a
\* request: only the manager's reset leaves items that no answer will settle.
THEOREM OnlyResetOrphans == Spec => OnlyResetOrphansTheQueues
<1>1. ASSUME AnswersInv, [Next]_vars, Waiting', requestId' = 0, requestId # 0 \/ ~Waiting
      PROVE  ResetOracleRequestId
  <2>0. TypeInv
    BY <1>1 DEF AnswersInv
  <2>1. CASE External
    <3>1. \/ SameQueues(pool', pool) /\ requestId' = requestId
          \/ requestId' # 0
          \/ ResetOracleRequestId
      BY <2>0, <2>1, TransactionFacts
    <3> QED BY <1>1, <3>1 DEF SameQueues, Waiting
  <2>2. CASE Answer \/ UNCHANGED vars
    BY <1>1, <2>2 DEF Answer, BeginCallback, Waiting, vars, poolVars
  <2>3. CASE Settlement
    <3>1. stage # "idle"
      BY <2>3 DEF Settlement, SkipDeposit, PullDeposit, NextDeposit, FinishDeposits,
         SkipWithdrawal, RefuseWithdrawal, DeferWithdrawal, PayWithdrawal,
         NextWithdrawal, RevertCallback, FinishCallback
    <3>2. CASE UNCHANGED <<pool, requestId>>
      BY <1>1, <3>2 DEF Waiting
    <3>3. CASE FinishCallback
      BY <1>1, <3>3 DEF FinishCallback, AnswersInv, Waiting
    <3> QED BY <1>1, <3>1, <3>2, <3>3, OnlyTheEndCommits
  <2> QED BY <1>1, <2>1, <2>2, <2>3 DEF Next
<1>2. AnswersInv /\ [Next]_vars =>
        [(Waiting' /\ requestId' = 0 /\ (requestId # 0 \/ ~Waiting))
           => ResetOracleRequestId]_vars
  BY <1>1
<1> QED BY <1>2, AnswersInvariant, PTL DEF Spec, OnlyResetOrphansTheQueues

\* The withdrawal that forced the deactivation is forgotten only by being
\* executed, so the manager cannot bring the pool up before.
THEOREM ForgottenOnlyWhenExecuted == Spec => UnprocessedClearedByExecution
<1>1. ASSUME RequestsInv, [Next]_vars,
             pool.unprocessed # NoHash, pool'.unprocessed # pool.unprocessed
      PROVE  pool.unprocessed \in pool'.usedWithdrawals
  <2>0. TypeInv
    BY <1>1 DEF RequestsInv
  <2>1. CASE External
    BY <1>1, <2>0, <2>1, TransactionFacts
  <2>2. CASE Answer \/ UNCHANGED vars
    BY <1>1, <2>2 DEF Answer, BeginCallback, vars, poolVars
  <2>3. CASE Settlement
    <3>1. stage # "idle"
      BY <2>3 DEF Settlement, SkipDeposit, PullDeposit, NextDeposit, FinishDeposits,
         SkipWithdrawal, RefuseWithdrawal, DeferWithdrawal, PayWithdrawal,
         NextWithdrawal, RevertCallback, FinishCallback
    <3>2. pool' = work
      BY <1>1, <3>1, OnlyTheEndCommits DEF FinishCallback
    <3> QED BY <1>1, <3>1, <3>2 DEF RequestsInv
  <2> QED BY <1>1, <2>1, <2>2, <2>3 DEF Next
<1>2. RequestsInv /\ [Next]_vars =>
        [(pool.unprocessed # NoHash /\ pool'.unprocessed # pool.unprocessed) =>
           pool.unprocessed \in pool'.usedWithdrawals]_vars
  BY <1>1
<1> QED BY <1>2, RequestsInvariant, PTL DEF Spec, UnprocessedClearedByExecution

-----------------------------------------------------------------------------
(* Fees                                                                    *)

\* No schedule above the largest commission is ever in force.
FeesInv == TypeInv /\ Capped(settings.packedPerformanceFee)

\* No other transaction changes the settings.
LEMMA OnlySettingsActions == External => UNCHANGED settings \/ SettingsAction
<1> SUFFICES ASSUME Transaction, ~SettingsAction PROVE UNCHANGED settings
  BY DEF External
<1> QED BY DEF Transaction, SettingsAction, Deposit, ApproveDeposits, ApproveWithdrawals,
           WithdrawByFund, RegisterWithdrawal, ForceDeactivation, QueueWithdrawal,
           TransferShares, ChangePoolStatus, SetLockupPeriod, SetMinClientTier,
           ProtocolAction, ResetOracleRequestId, ChangeFundStatus, SwitchPause, Tick,
           worldVars

\* The schedule in force is always one that packPerformanceCommission accepts,
\* from the pool's creation on and whatever setCommissions is called with.
THEOREM FeesInvariant == Spec => []FeesInv
<1>1. Init => FeesInv
  <2> SUFFICES ASSUME Init PROVE FeesInv
    OBVIOUS
  <2>1. /\ InitialSettings.packedPerformanceFee \in Packed
        /\ ValidSteps(UnpackPerformanceCommission(InitialSettings.packedPerformanceFee))
    BY PoolAssumption DEF Settings
  <2>2. Capped(InitialSettings.packedPerformanceFee)
    BY <2>1, PackUnpack DEF Capped
  <2> QED BY <2>2, TypeInit DEF Init, FeesInv
<1>2. ASSUME FeesInv, [Next]_vars, TypeInv'
      PROVE  FeesInv'
  <2>1. CASE UNCHANGED settings
    BY <1>2, <2>1 DEF FeesInv, Capped
  <2>2. CASE SettingsAction
    BY <1>2, <2>2, SettingsFacts DEF FeesInv, Capped, TypeInv, TypeOK
  <2>3. CASE External
    BY <1>2, <2>1, <2>2, <2>3, OnlySettingsActions
  <2>4. CASE Answer \/ UNCHANGED vars
    BY <1>2, <2>1, <2>4 DEF Answer, BeginCallback, vars, worldVars
  <2>5. CASE Settlement
    BY <1>2, <2>1, <2>5 DEF Settlement, SkipDeposit, PullDeposit, NextDeposit,
       FinishDeposits, SkipWithdrawal, RefuseWithdrawal, DeferWithdrawal, PayWithdrawal,
       NextWithdrawal, RevertCallback, FinishCallback, worldVars
  <2> QED BY <1>2, <2>3, <2>4, <2>5 DEF Next
<1> QED BY <1>1, <1>2, TypeInvariant, PTL DEF Spec

\* The step that begins a callback.
LEMMA OnlyAnswerBegins ==
  ASSUME [Next]_vars, stage = "idle", stage' = "deposits"
  PROVE  \E id \in 1..issued, value \in OracleValues : BeginCallback(id, value)
<1>1. ~External /\ ~UNCHANGED vars
  BY DEF External, vars, callbackVars
<1>2. ~Settlement
  BY DEF Settlement, SkipDeposit, PullDeposit, NextDeposit, FinishDeposits,
     SkipWithdrawal, RefuseWithdrawal, DeferWithdrawal, PayWithdrawal,
     NextWithdrawal, RevertCallback, FinishCallback
<1>. QED BY <1>1, <1>2 DEF Next, Answer

\* Whatever schedules are set, before and between accruals, an accrual takes at
\* most the largest commission of the profit over the high-water mark.
THEOREM FeesCapped == Spec => PerformanceFeeCapped
<1> DEFINE Net == NetOfTimeFees(Fees, work'.totalCost, now - pool.lastAccrual)
           Fee == PerformanceFee(Net, pool.highWaterMark, Fees.packed)
<1>1. ASSUME FeesInv, [Next]_vars,
             stage = "idle", stage' = "deposits",
             pool.lastAccrual # 0, now > pool.lastAccrual,
             Net > pool.highWaterMark
      PROVE  Fee * ONE_HUNDRED_PERCENT
               <= (Net - pool.highWaterMark) * MAX_PERFORMANCE_FEE
  <2>1. PICK id \in 1..issued, value \in OracleValues : BeginCallback(id, value)
    BY <1>1, OnlyAnswerBegins
  <2>2. work'.totalCost = value /\ value \in Nat
    BY <1>1, <2>1, AnswerFacts, PoolAssumption DEF FeesInv
  <2>3. /\ Fees \in FeeConfig /\ pool.highWaterMark \in Nat
        /\ now - pool.lastAccrual \in Nat
    BY <1>1, FeesType, LedgerElim DEF FeesInv, TypeInv, TypeOK
  <2>4. Fees.protocol \in Nat /\ Fees.management \in Nat /\ Fees.packed \in Packed
    BY <2>3 DEF FeeConfig
  <2>5. Net \in Int
    <3>1. /\ TimeFee(value, now - pool.lastAccrual, Fees.protocol) \in Nat
          /\ TimeFee(value, now - pool.lastAccrual, Fees.management) \in Nat
      BY <2>2, <2>3, <2>4, TimeFeeType
    <3>2. Net = value - TimeFee(value, now - pool.lastAccrual, Fees.protocol)
                      - TimeFee(value, now - pool.lastAccrual, Fees.management)
      BY <2>2 DEF NetOfTimeFees
    <3> QED BY <2>2, <3>1, <3>2
  <2>6. Net \in Nat /\ pool.highWaterMark > 0
    <3>1. ~FeesRevert(Fees, value, pool.highWaterMark, now - pool.lastAccrual)
      BY <1>1, <2>1 DEF BeginCallback, AccrualReverts
    <3>2. now - pool.lastAccrual # 0
      <4>1. pool.lastAccrual \in Nat /\ now \in Nat
        BY <1>1, LedgerElim DEF FeesInv, TypeInv, TypeOK
      <4> QED BY <1>1, <4>1
    <3>3. ~(Net < 0 \/ (Net > pool.highWaterMark /\ pool.highWaterMark = 0))
      BY <2>2, <3>1, <3>2 DEF FeesRevert
    <3> HIDE DEF Net
    <3> QED BY <1>1, <2>3, <2>5, <3>3
  <2>7. \A i \in 1..MAX_STEPS : Fees.packed[i].commission <= MAX_PERFORMANCE_FEE
    BY <1>1 DEF FeesInv, Capped, Fees
  <2> HIDE DEF Net
  <2> QED BY <1>1, <2>3, <2>4, <2>6, <2>7, PerformanceFeeBound
<1>2. FeesInv /\ [Next]_vars =>
        [(/\ stage = "idle" /\ stage' = "deposits"
          /\ pool.lastAccrual # 0 /\ now > pool.lastAccrual) =>
           (Net > pool.highWaterMark =>
              Fee * ONE_HUNDRED_PERCENT
                <= (Net - pool.highWaterMark) * MAX_PERFORMANCE_FEE)]_vars
  BY <1>1
<1> QED BY <1>2, FeesInvariant, PTL DEF Spec, PerformanceFeeCapped

\* What an accrual adds to the two accounts and to the supply.
LEMMA AccrueFeeMints ==
  ASSUME NEW l \in Ledger, l.lastAccrual # 0,
         NEW fee, fee = CalculateFee(Fees, l.totalCost, l.highWaterMark,
                                     now - l.lastAccrual, l.supply),
         fee.sharesToUFarm \in Nat, fee.sharesToFund \in Nat
  PROVE  /\ AccrueFee(l).shares[Core] - l.shares[Core] = fee.sharesToUFarm
         /\ AccrueFee(l).shares[Fund] - l.shares[Fund] = fee.sharesToFund
         /\ AccrueFee(l).supply = l.supply + fee.sharesToUFarm + fee.sharesToFund
<1> PICK m : m = AccrueFee(l)
  OBVIOUS
<1>1. l.supply \in Nat /\ l.shares \in [Holders -> Nat]
  BY LedgerElim
<1>2. m = [l EXCEPT
             !.highWaterMark = IF l.totalCost > @ THEN l.totalCost ELSE @,
             !.shares[Core]  = @ + fee.sharesToUFarm,
             !.shares[Fund]  = @ + fee.sharesToFund,
             !.supply        = @ + (fee.sharesToUFarm + fee.sharesToFund),
             !.lastAccrual   = IF fee.sharesToUFarm + fee.sharesToFund > 0 THEN now ELSE @]
  BY DEF AccrueFee
<1>3. Fund # Core /\ Fund \in Holders /\ Core \in Holders
  BY PoolAssumption, ConstantTypes
<1>4. m.supply = l.supply + (fee.sharesToUFarm + fee.sharesToFund)
  BY <1>2 DEF Ledger
<1>5. m.shares = [[l.shares EXCEPT ![Core] = @ + fee.sharesToUFarm]
                          EXCEPT ![Fund] = l.shares[Fund] + fee.sharesToFund]
  BY <1>2, <1>3 DEF Ledger
<1>. HIDE <1>2
<1>. QED BY <1>1, <1>3, <1>4, <1>5

\* In every instance, whatever the commissions, the schedule and the times: the
\* shares that an accrual mints cost the holders at most the fees it reports,
\* and the core and the fund are paid their parts in shares but for a rounding.
THEOREM AccrualsFairlyPriced == Spec => AccrualTakesItsFees
<1> DEFINE fee == CalculateFee(Fees, work'.totalCost, pool.highWaterMark,
                               now - pool.lastAccrual, pool.supply)
           fundFee == (4 * (fee.performanceFee + fee.managementFee)) \div 5
           coreFee == fundFee \div 4 + fee.protocolFee
           toCore == work'.shares[Core] - pool.shares[Core]
           toFund == work'.shares[Fund] - pool.shares[Fund]
           Claim  == /\ (toCore + toFund) * work'.totalCost
                          <= (fee.protocolFee + fee.managementFee + fee.performanceFee)
                               * work'.supply
                     /\ coreFee * pool.supply < (toCore + 1) * work'.totalCost
                     /\ fundFee * (pool.supply + toCore) < (toFund + 1) * work'.totalCost
<1>1. ASSUME TypeInv, [Next]_vars, stage = "idle", stage' = "deposits",
             pool.lastAccrual # 0, pool.supply > 0, work'.totalCost > 0
      PROVE  Claim
  <2>1. PICK id \in 1..issued, value \in OracleValues : BeginCallback(id, value)
    BY <1>1, OnlyAnswerBegins
  <2>2. work'.totalCost = value /\ value \in Nat \ {0}
    BY <1>1, <2>1, AnswerFacts, PoolAssumption
  <2>3. /\ Fees \in FeeConfig /\ pool.highWaterMark \in Nat
        /\ pool.supply \in Nat \ {0} /\ now - pool.lastAccrual \in Nat
        /\ id \in Nat
    BY <1>1, FeesType, LedgerElim DEF TypeInv, TypeOK
  <2>4. /\ ~FeesRevert(Fees, value, pool.highWaterMark, now - pool.lastAccrual)
        /\ work' = AccrueFee([pool EXCEPT !.totalCost = value, !.answered = id])
    BY <1>1, <2>1 DEF BeginCallback, AccrualReverts
  <2>5. fee = CalculateFee(Fees, value, pool.highWaterMark,
                           now - pool.lastAccrual, pool.supply)
    BY <2>2
  <2>. HIDE DEF fee
  <2>6. /\ fee.sharesToUFarm \in Nat /\ fee.sharesToFund \in Nat
        /\ (fee.sharesToUFarm + fee.sharesToFund) * value
              <= (fee.protocolFee + fee.managementFee + fee.performanceFee)
                   * (pool.supply + fee.sharesToUFarm + fee.sharesToFund)
        /\ coreFee * pool.supply < (fee.sharesToUFarm + 1) * value
        /\ fundFee * (pool.supply + fee.sharesToUFarm) < (fee.sharesToFund + 1) * value
    BY <2>2, <2>3, <2>4, <2>5, FeeSharesPriced
  <2>7. /\ toCore = fee.sharesToUFarm /\ toFund = fee.sharesToFund
        /\ work'.supply = pool.supply + fee.sharesToUFarm + fee.sharesToFund
    <3> PICK l : l = Answered(id, value)
      OBVIOUS
    <3>1. /\ l \in Ledger /\ l.totalCost = value
          /\ l.highWaterMark = pool.highWaterMark /\ l.lastAccrual = pool.lastAccrual
          /\ l.supply = pool.supply /\ l.shares = pool.shares
      BY <1>1, <2>2, <2>3, AnsweredLedger
    <3>2. work' = AccrueFee(l)
      BY <2>4 DEF Answered
    <3>3. fee = CalculateFee(Fees, l.totalCost, l.highWaterMark,
                             now - l.lastAccrual, l.supply)
      BY <2>5, <3>1
    <3>4. /\ AccrueFee(l).shares[Core] - l.shares[Core] = fee.sharesToUFarm
          /\ AccrueFee(l).shares[Fund] - l.shares[Fund] = fee.sharesToFund
          /\ AccrueFee(l).supply = l.supply + fee.sharesToUFarm + fee.sharesToFund
      BY <1>1, <2>6, <3>1, <3>3, AccrueFeeMints
    <3>. QED BY <3>1, <3>2, <3>4
  <2>. HIDE DEF toCore, toFund, coreFee, fundFee
  <2>. QED BY <2>2, <2>6, <2>7
<1>2. TypeInv /\ [Next]_vars =>
        [(/\ stage = "idle" /\ stage' = "deposits"
          /\ pool.lastAccrual # 0 /\ pool.supply > 0 /\ work'.totalCost > 0) => Claim]_vars
  BY <1>1
<1>. QED BY <1>2, TypeInvariant, PTL DEF Spec, AccrualTakesItsFees
=============================================================================
