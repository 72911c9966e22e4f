---------------------------- MODULE MCUFarmPool ----------------------------
(***************************************************************************)
(* Small instances of UFarmPool for TLC.                                   *)
(***************************************************************************)
EXTENDS UFarmPool_refinement

CONSTANTS alice, bob, usd, eur, d1, d2, w1, w2

NoSchedule == [i \in 1..MAX_STEPS |-> ZeroWord]
HalfOfProfit ==
  [i \in 1..MAX_STEPS |-> IF i = 1 THEN [step |-> 0, commission |-> 2] ELSE ZeroWord]

AllOfProfit ==
  [i \in 1..MAX_STEPS |-> IF i = 1 THEN [step |-> 0, commission |-> 4] ELSE ZeroWord]
Unordered ==
  [i \in 1..MAX_STEPS |-> [step |-> MAX_STEPS - i, commission |-> 1]]
SomeSchedules == {NoSchedule, HalfOfProfit, AllOfProfit, Unordered}

\* Settings with given commissions, minimum deposit and delay.
Settled(commission, packed, minimum, delay) ==
  [managementCommission |-> commission, packedPerformanceFee |-> packed,
   minInvestment |-> 1, maxInvestment |-> 2,
   protocolCommission |-> commission,
   specificCommission |-> [a \in {"pool", "poolAdmin"} |-> NoCommission],
   minimumFundDeposit |-> minimum, postActionDelay |-> delay]

FreeOfFees   == Settled(0, NoSchedule, 1, 1)
FreeAndFast  == Settled(0, NoSchedule, 0, 0)
WithFees     == Settled(0, HalfOfProfit, 1, 1)
LargeMinimum == Settled(1, HalfOfProfit, 9, 1)

NarrowRange == {<<2, 2>>, <<2, 1>>}
NoRange == {}

Always == 9

Deposit1 == [investor |-> alice, amount |-> 2, minOutput |-> 0, deadline |-> Always,
             token |-> usd]
Deposit2 == [investor |-> bob, amount |-> 3, minOutput |-> 2, deadline |-> 0,
             token |-> usd]
Deposits == [r \in DepositRequests |-> IF r = d1 THEN Deposit1 ELSE Deposit2]

Withdrawal1 == [investor |-> alice, amount |-> 1, minOutput |-> 0]
Withdrawal2 == [investor |-> alice, amount |-> 2, minOutput |-> 2]
Withdrawals == [r \in WithdrawRequests |-> IF r = w1 THEN Withdrawal1 ELSE Withdrawal2]

Verified == [i \in Investors |-> [tier |-> 5, validTill |-> Always]]
OnlyAliceVerified ==
  [i \in Investors |-> [tier |-> IF i = alice THEN 5 ELSE 0, validTill |-> 0]]
=============================================================================
