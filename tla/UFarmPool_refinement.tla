------------------------ MODULE UFarmPool_refinement ------------------------
(***************************************************************************)
(* UFarmPool implements SharePool: the queues are seen as sets, the copy of *)
(* the ledger a running callback works on is not seen at all, so that the  *)
(* whole callback is the one step in which it is committed.                *)
(***************************************************************************)
EXTENDS UFarmPool, Functions

Waits(queue) ==
  {[investor |-> item.investor, hash |-> item.hash] : item \in Range(queue)}

Abstract ==
  INSTANCE SharePool WITH
    InvestorOf <- [r \in WithdrawRequests |-> WithdrawBody[r].investor],
    shares <- pool.shares,
    deposits <- Waits(pool.depositQueue),
    withdrawals <- Waits(pool.withdrawQueue),
    usedDeposits <- pool.usedDeposits,
    usedWithdrawals <- pool.usedWithdrawals,
    asked <- requestId # 0

\* Whatever is queued twice, fails, reverts or is given up: shares change only
\* by settlements of what waits, each of them whole, and no shares are taken
\* without consuming a request of their holder (quexCallback).
KeepsPromise == Abstract!Promise
=============================================================================
