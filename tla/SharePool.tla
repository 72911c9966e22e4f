----------------------------- MODULE SharePool -----------------------------
(***************************************************************************)
(* What a pool promises the holders of its shares, with the queues as sets *)
(* and the settlement of all that waits as one step.                       *)
(*                                                                         *)
(* Nobody's shares are taken in a settlement that does not consume a       *)
(* request the holder signed, no account gets shares that did not deposit  *)
(* (but for the fees), and a settlement leaves nothing waiting: it happens *)
(* as a whole or not at all.                                               *)
(***************************************************************************)
EXTENDS Naturals

CONSTANTS
  Investors,
  Fund, Core,            \* get shares as fees
  DepositRequests, WithdrawRequests,
  NoHash,                \* of a deposit without a signed request
  FundHash,              \* of a withdrawal of the fund
  InvestorOf             \* who has signed each withdrawal request

VARIABLES
  shares,                \* of every holder
  deposits,              \* what waits: investors and requests
  withdrawals,
  usedDeposits,          \* requests that were executed
  usedWithdrawals,
  asked                  \* the oracle has been asked for the value

promised == <<shares, deposits, withdrawals, usedDeposits, usedWithdrawals, asked>>

Holders == Investors \cup {Fund, Core}
Deposits    == [investor : Investors \cup {Fund}, hash : DepositRequests \cup {NoHash}]
Withdrawals == [investor : Investors \cup {Fund}, hash : WithdrawRequests \cup {FundHash}]

PromiseInit ==
  /\ shares = [h \in Holders |-> 0]
  /\ deposits = {} /\ withdrawals = {}
  /\ usedDeposits = {} /\ usedWithdrawals = {}
  /\ asked = FALSE

\* More deposits or withdrawals wait, none of a used request, and for an
\* answer that will come.
AskDeposits ==
  /\ deposits \subseteq deposits'
  /\ deposits' \ deposits \subseteq {d \in Deposits : d.hash \notin usedDeposits}
  /\ asked' = TRUE
  /\ UNCHANGED <<shares, withdrawals, usedDeposits, usedWithdrawals>>

AskWithdrawals ==
  /\ withdrawals \subseteq withdrawals'
  /\ withdrawals' \ withdrawals \subseteq
       {w \in Withdrawals : /\ w.hash \notin usedWithdrawals
                            /\ w.hash # FundHash => w.investor = InvestorOf[w.hash]
                            /\ w.hash = FundHash => w.investor = Fund}
  /\ asked' = TRUE
  /\ UNCHANGED <<shares, deposits, usedDeposits, usedWithdrawals>>

\* The holder, never the fund, gives shares away.
Transfer ==
  /\ \E from \in Holders \ {Fund}, to \in Holders :
       /\ shares'[from] <= shares[from] /\ shares'[to] >= shares[to]
       /\ shares[from] + shares[to] = shares'[from] + shares'[to]
       /\ shares' = [shares EXCEPT ![from] = shares'[from], ![to] = shares'[to]]
  /\ UNCHANGED <<deposits, withdrawals, usedDeposits, usedWithdrawals, asked>>

\* The request to the oracle is given up.
GiveUp ==
  /\ asked' = FALSE
  /\ UNCHANGED <<shares, deposits, withdrawals, usedDeposits, usedWithdrawals>>

MayGain(h) == h \in {Fund, Core} \/ \E d \in deposits : d.investor = h
MayLose(h) ==
  \/ h = Fund /\ \E w \in withdrawals : w.hash = FundHash
  \/ \E w \in withdrawals : /\ w.investor = h
                            /\ w.hash \in usedWithdrawals' \ usedWithdrawals

Settle ==
  /\ asked /\ asked' = FALSE
  /\ deposits' = {} /\ withdrawals' = {}
  /\ shares' \in [Holders -> Nat]
  /\ \A h \in Holders : shares'[h] > shares[h] => MayGain(h)
  /\ \A h \in Holders : shares'[h] < shares[h] => MayLose(h)
  /\ usedDeposits \subseteq usedDeposits'
  /\ usedDeposits' \ usedDeposits \subseteq {d.hash : d \in deposits}
  /\ usedWithdrawals \subseteq usedWithdrawals'
  /\ usedWithdrawals' \ usedWithdrawals \subseteq {w.hash : w \in withdrawals}

PromiseNext == AskDeposits \/ AskWithdrawals \/ Transfer \/ GiveUp \/ Settle

Promise == PromiseInit /\ [][PromiseNext]_promised
=============================================================================
