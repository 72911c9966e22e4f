------------------------------ MODULE PoolFees ------------------------------
(***************************************************************************)
(* The arithmetic of a pool: shares bought by an amount, the packed        *)
(* performance-fee schedule (PerformanceFeeLib.sol, PoolAdmin.sol) and the *)
(* fees that one oracle answer accrues (PoolAdmin.calculateFee).           *)
(*                                                                         *)
(* Amounts are naturals; the 256-bit upper bound is never approached and   *)
(* is left out.  What Solidity's checked arithmetic does at ZERO is kept:  *)
(* FeesRevert names the inputs on which calculateFee panics.               *)
(*                                                                         *)
(* A packed schedule is a uint256 of MAX_STEPS words of 32 bits, the       *)
(* lowest word first: here a function from 1..MAX_STEPS to words.          *)
(***************************************************************************)
EXTENDS Integers, Sequences

CONSTANTS
  ONE,                  \* 1e18, the unit of the annual commissions
  YEAR,                 \* 365 days
  ONE_HUNDRED_PERCENT,  \* 10000, the unit of the performance schedule
  MAX_COMMISSION_STEP,  \* type(uint16).max
  MAX_PERFORMANCE_FEE,  \* 5000, half of ONE_HUNDRED_PERCENT
  MAX_STEPS             \* 8, the words of a uint256

ASSUME FeeUnitsAssumption ==
  /\ ONE \in Nat \ {0}
  /\ YEAR \in Nat \ {0}
  /\ ONE_HUNDRED_PERCENT \in Nat \ {0}
  /\ MAX_STEPS \in Nat \ {0}
  /\ MAX_COMMISSION_STEP \in Nat
  /\ MAX_PERFORMANCE_FEE \in 0..ONE_HUNDRED_PERCENT

-----------------------------------------------------------------------------
(* Shares                                                                  *)

SharesByQuote(quoteAmount, totalSupply, totalCost) ==
  IF totalCost > 0 /\ totalSupply > 0
  THEN (quoteAmount * totalSupply) \div totalCost
  ELSE quoteAmount

-----------------------------------------------------------------------------
(* The performance-fee schedule                                            *)

Word     == [step : 0..MAX_COMMISSION_STEP, commission : 0..MAX_COMMISSION_STEP]
ZeroWord == [step |-> 0, commission |-> 0]
Packed   == [1..MAX_STEPS -> Word]

\* The words are shifted out until the rest of the number is zero.
StepsCount(packed) ==
  CHOOSE n \in 0..MAX_STEPS :
    /\ n > 0 => packed[n] # ZeroWord
    /\ \A i \in n + 1..MAX_STEPS : packed[i] = ZeroWord

UnpackPerformanceCommission(packed) ==
  [i \in 1..StepsCount(packed) |-> packed[i]]

\* Mistake: only the order of the steps is checked.
ValidSteps_AnyCommission(steps) ==
  /\ Len(steps) <= MAX_STEPS
  /\ \A i \in DOMAIN steps : i > 1 => steps[i].step > steps[i - 1].step

\* What packPerformanceCommission accepts; it reverts on anything else.
ValidSteps(steps) ==
  /\ Len(steps) <= MAX_STEPS
  /\ \A i \in DOMAIN steps :
       /\ steps[i].commission <= MAX_PERFORMANCE_FEE
       /\ i > 1 => steps[i].step > steps[i - 1].step

PackPerformanceCommission(steps) ==
  [i \in 1..MAX_STEPS |-> IF i <= Len(steps) THEN steps[i] ELSE ZeroWord]

\* The loop keeps the commission of each step the rate exceeds and breaks at
\* the first step it does not exceed.
PerformanceCommission(packed, apyRate) ==
  LET exceeded == {i \in 1..StepsCount(packed) :
                     \A j \in 1..i : apyRate > packed[j].step}
  IN  IF apyRate = 0 \/ exceeded = {}
      THEN 0
      ELSE packed[CHOOSE i \in exceeded : \A j \in exceeded : j <= i].commission

-----------------------------------------------------------------------------
(* Fees of one accrual                                                     *)

NoFee == [protocolFee |-> 0, managementFee |-> 0, performanceFee |-> 0,
          sharesToUFarm |-> 0, sharesToFund |-> 0]

TimeFee(totalCost, accrualTime, commission) ==
  (((totalCost * accrualTime) \div YEAR) * commission) \div ONE

\* The fee on a net value above the high-water mark; hwm > 0.
PerformanceFee(net, hwm, packed) ==
  LET profit  == net - hwm
      rate    == (profit * ONE_HUNDRED_PERCENT) \div hwm
      apyRate == IF rate > MAX_COMMISSION_STEP THEN MAX_COMMISSION_STEP ELSE rate
  IN  IF net > hwm
      THEN (profit * PerformanceCommission(packed, apyRate)) \div ONE_HUNDRED_PERCENT
      ELSE 0

\* `fees` is the pool's configuration:
\* [protocol : commission, management : commission, packed : Packed].
NetOfTimeFees(fees, totalCost, accrualTime) ==
  totalCost - TimeFee(totalCost, accrualTime, fees.protocol)
            - TimeFee(totalCost, accrualTime, fees.management)

\* calculateFee panics when the fees of the elapsed time exceed the value
\* (underflow), and when there is a profit over a high-water mark of zero
\* (division by zero).
FeesRevert(fees, totalCost, hwm, accrualTime) ==
  /\ accrualTime # 0
  /\ LET net == NetOfTimeFees(fees, totalCost, accrualTime)
     IN  net < 0 \/ (net > hwm /\ hwm = 0)

\* Mistake: the fund's shares are priced as if the core got none.
CalculateFee_CoreLeftOut(fees, totalCost, hwm, accrualTime, totalSupply) ==
  IF accrualTime = 0 THEN NoFee ELSE
  LET protocolFee    == TimeFee(totalCost, accrualTime, fees.protocol)
      managementFee  == TimeFee(totalCost, accrualTime, fees.management)
      performanceFee == PerformanceFee(NetOfTimeFees(fees, totalCost, accrualTime),
                                       hwm, fees.packed)
      totalFundFee   == (4 * (performanceFee + managementFee)) \div 5
  IN  [protocolFee    |-> protocolFee,
       managementFee  |-> managementFee,
       performanceFee |-> performanceFee,
       sharesToUFarm  |-> SharesByQuote((totalFundFee \div 4) + protocolFee,
                                        totalSupply, totalCost),
       sharesToFund   |-> SharesByQuote(totalFundFee, totalSupply, totalCost)]

\* What calculateFee returns once an accrual has happened (lastAccrual # 0).
CalculateFee(fees, totalCost, hwm, accrualTime, totalSupply) ==
  IF accrualTime = 0 THEN NoFee ELSE
  LET protocolFee    == TimeFee(totalCost, accrualTime, fees.protocol)
      managementFee  == TimeFee(totalCost, accrualTime, fees.management)
      performanceFee == PerformanceFee(NetOfTimeFees(fees, totalCost, accrualTime),
                                       hwm, fees.packed)
      totalFundFee   == (4 * (performanceFee + managementFee)) \div 5
      totalUFarmFee  == (totalFundFee \div 4) + protocolFee
      sharesToUFarm  == SharesByQuote(totalUFarmFee, totalSupply, totalCost)
  IN  [protocolFee    |-> protocolFee,
       managementFee  |-> managementFee,
       performanceFee |-> performanceFee,
       sharesToUFarm  |-> sharesToUFarm,
       sharesToFund   |-> SharesByQuote(totalFundFee, totalSupply + sharesToUFarm,
                                        totalCost)]
=============================================================================
