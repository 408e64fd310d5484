------------------------------ MODULE TradeLoop ------------------------------
(***************************************************************************)
(* The continuous trading agent, agent/src/trade-loop.ts, with the parts   *)
(* of vault.ts, deepbook.ts and report.ts it calls.  A tick is a chain of  *)
(* awaited calls; between two of them the owner may revoke or re-grant,    *)
(* coins may arrive at the vault, orders may fill, and any call may be     *)
(* executed without the agent learning of it.  The process keeps no state  *)
(* of its own between ticks, so a tick that throws, and a process that is  *)
(* killed and restarted, both go on with the next tick.                    *)
(*                                                                         *)
(* The vault's policy is the Delegation specification, which the contract  *)
(* implements (Vault!ImplementsDelegation).  DeepBook is external: a       *)
(* BalanceManager with a free balance and what resting orders lock.        *)
(* Amounts are whole units of the base coin; the side is "ask".            *)
(***************************************************************************)
EXTENDS Integers, FiniteSets

CONSTANTS
  Qty,          \* TRADE_QTY
  Buffer,       \* TRADE_DEPOSIT_BUFFER
  Fee,          \* what DeepBook locks on top of the quantity
  OwnFunds,     \* base coins the agent's wallet starts with (gas money)
  CoinValues,   \* values of the coins the owner may send to the vault
  PageSize,     \* objects the node answers getOwnedObjects with, at most
  MaxCoins,     \* bound: coins sent to the vault
  Grants,       \* budget caps the owner may set
  MaxGrants,    \* bound: policies set
  MaxFaults     \* bound: failed reads and calls, crashes

ASSUME TradeLoopAssumption ==
  /\ Qty \in Nat \ {0} /\ Buffer \in Nat /\ Fee \in 0 .. Buffer
  /\ OwnFunds \in Nat /\ MaxCoins \in Nat /\ MaxGrants \in Nat
  /\ MaxFaults \in Nat /\ PageSize \in Nat \ {0}
  /\ CoinValues \subseteq Nat /\ Grants \subseteq Nat

VARIABLES
  live, allowance, payees, consumed, drawn,  \* the policy: Delegation
  staged,     \* the vault's staged balance
  pending,    \* coins at the vault's address: <<serial number, value>>
  sent,       \* number of coins sent so far
  wallet,     \* base coins the agent's address holds
  free,       \* free base balance of the BalanceManager
  locked,     \* base locked by resting orders
  sold,       \* base sold by fills
  deposited,  \* history: total deposited into the BalanceManager
  pc,         \* the await the tick is at; "sleep" between ticks
  topUp,      \* local variable of tick
  chosen,     \* `pending` of VaultWithdrawer.withdraw: a coin, or none
  posted,     \* status this tick posted to the feed, "none" if it has not
  granted,    \* number of policies set so far
  faults      \* number of faults so far

policyVars == <<live, allowance, payees, consumed, drawn>>
vaultVars == <<staged, pending, sent>>
bookVars == <<free, locked, sold, deposited>>
vars == <<policyVars, vaultVars, wallet, bookVars, pc, topUp, chosen,
          posted, granted, faults>>

\* What a tick wants in the BalanceManager, and what an order locks there.
Need == Qty + Buffer
Lock == Qty + Fee

P == INSTANCE Delegation WITH Nonces <- Nat, Payees <- {"manager"}

FreshNonce == Cardinality(consumed) + 1

NoCoin == <<0, 0>>

Init ==
  /\ P!Init
  /\ staged = 0 /\ pending = {} /\ sent = 0
  /\ wallet = OwnFunds
  /\ free = 0 /\ locked = 0 /\ sold = 0 /\ deposited = 0
  /\ pc = "sleep" /\ topUp = 0 /\ chosen = NoCoin /\ posted = "none"
  /\ granted = 0 /\ faults = 0

-----------------------------------------------------------------------------
(***************************************************************************)
(* The environment.                                                        *)
(***************************************************************************)
agentVars == <<pc, topUp, chosen, posted>>

OwnerSetsPolicy ==
  /\ granted < MaxGrants
  /\ \E n \in Grants : P!Grant(n, {"manager"})
  /\ granted' = granted + 1
  /\ UNCHANGED <<vaultVars, wallet, bookVars, agentVars, faults>>

\* revoke.ts, or the policy expires.
PolicyEnds ==
  /\ live
  /\ P!End
  /\ UNCHANGED <<vaultVars, wallet, bookVars, agentVars, granted, faults>>

CoinArrives ==
  /\ sent < MaxCoins
  /\ \E v \in CoinValues : pending' = pending \cup {<<sent + 1, v>>}
  /\ sent' = sent + 1
  /\ UNCHANGED <<policyVars, staged, wallet, bookVars, agentVars, granted,
                 faults>>

OrdersFill ==
  /\ locked > 0
  /\ sold' = sold + locked
  /\ locked' = 0
  /\ UNCHANGED <<policyVars, vaultVars, wallet, free, deposited, agentVars,
                 granted, faults>>

Fault ==
  /\ faults < MaxFaults
  /\ faults' = faults + 1

-----------------------------------------------------------------------------
(***************************************************************************)
(* The tick.                                                               *)
(***************************************************************************)
\* Recall, mid price and rationale are best effort and decide no transfer.
WakeUp ==
  /\ pc = "sleep"
  /\ pc' = "readBalance"
  /\ posted' = "none"
  /\ UNCHANGED <<policyVars, vaultVars, wallet, bookVars, topUp, chosen,
                 granted, faults>>

\* Mutation: the top-up does not count what the manager has.
Decide_FullTopUp(have) ==
  /\ topUp' = Need
  /\ pc' = "readPending"

\* Mutation: an off-by-one, a tick that has exactly what it needs tops up.
Decide_AtMost(have) ==
  /\ topUp' = IF have <= Need THEN Need - have ELSE 0
  /\ pc' = IF have <= Need THEN "readPending" ELSE "cancel"

Decide(have) ==
  /\ topUp' = IF have < Need THEN Need - have ELSE 0
  /\ pc' = IF have < Need THEN "readPending" ELSE "cancel"

\* managerBalanceNum reads the free balance.
ReadBalance ==
  /\ pc = "readBalance"
  /\ Decide(free)
  /\ UNCHANGED <<policyVars, vaultVars, wallet, bookVars, chosen, posted,
                 granted, faults>>

\* ... and answers 0 on any read error.
ReadBalanceFails ==
  /\ pc = "readBalance"
  /\ Fault
  /\ Decide(0)
  /\ UNCHANGED <<policyVars, vaultVars, wallet, bookVars, chosen, posted,
                 granted>>

\* The one answer that is read: all the coins, or as many as fill a page.
Page(coins) ==
  /\ Cardinality(coins) <= PageSize
  /\ coins # pending => Cardinality(coins) = PageSize

\* largestPendingCoin: one coin at most is passed on, a biggest one of the page.
ReadPending ==
  /\ pc = "readPending"
  /\ \E coins \in SUBSET pending :
       /\ Page(coins)
       /\ chosen' \in IF coins = {} THEN {NoCoin}
                      ELSE {c \in coins : \A d \in coins : d[2] <= c[2]}
  /\ pc' = "withdraw"
  /\ UNCHANGED <<policyVars, vaultVars, wallet, bookVars, topUp, posted,
                 granted, faults>>

\* Mutation: the vault does not check that it holds the amount.
WithdrawExecutes_Unchecked ==
  /\ P!Draw(FreshNonce, topUp, "manager")
  /\ staged' = staged + chosen[2] - topUp
  /\ pending' = pending \ {chosen}
  /\ wallet' = wallet + topUp
  /\ UNCHANGED <<sent, bookVars>>

\* The withdraw_with_proof transaction goes through: the chosen coin is
\* received, topUp split off and transferred to the agent's own address.
WithdrawExecutes ==
  /\ topUp <= staged + chosen[2]
  /\ P!Draw(FreshNonce, topUp, "manager")
  /\ staged' = staged + chosen[2] - topUp
  /\ pending' = pending \ {chosen}
  /\ wallet' = wallet + topUp
  /\ UNCHANGED <<sent, bookVars>>

Withdraw ==
  /\ pc = "withdraw"
  /\ WithdrawExecutes
  /\ pc' = "deposit"
  /\ UNCHANGED <<topUp, chosen, posted, granted, faults>>

WithdrawRejectable ==
  \/ ~ live
  \/ topUp > allowance
  \/ topUp > staged + chosen[2]

\* An abort comes back with its status, which is posted, or as an exception
\* (of the dry run, say), which main only logs.
Answered(status) == posted' = status \/ UNCHANGED posted

\* Mutation: the rejected top-up is reported, but the tick goes on.
WithdrawRejected_GoesOn ==
  /\ pc = "withdraw"
  /\ WithdrawRejectable
  /\ posted' = "rejected"
  /\ pc' = "deposit"
  /\ UNCHANGED <<policyVars, vaultVars, wallet, bookVars, topUp, chosen,
                 granted, faults>>

\* The transaction aborts: rejected, the tick is over.
WithdrawRejected ==
  /\ pc = "withdraw"
  /\ WithdrawRejectable
  /\ Answered("rejected")
  /\ pc' = "sleep"
  /\ UNCHANGED <<policyVars, vaultVars, wallet, bookVars, topUp, chosen,
                 granted, faults>>

\* The deposit pulls topUp from whatever coins the agent's address holds.
DepositExecutes ==
  /\ topUp <= wallet
  /\ wallet' = wallet - topUp
  /\ free' = free + topUp
  /\ deposited' = deposited + topUp
  /\ UNCHANGED <<policyVars, vaultVars, locked, sold>>

Deposit ==
  /\ pc = "deposit"
  /\ DepositExecutes
  /\ pc' = "cancel"
  /\ UNCHANGED <<topUp, chosen, posted, granted, faults>>

\* The deposit aborts, and the withdrawn coin stays in the agent's wallet.  A
\* wallet that does not cover the deposit needs no fault.
DepositFails ==
  /\ pc = "deposit"
  /\ topUp <= wallet => faults < MaxFaults
  /\ faults' = IF topUp <= wallet THEN faults + 1 ELSE faults
  /\ Answered("failed")
  /\ pc' = "sleep"
  /\ UNCHANGED <<policyVars, vaultVars, wallet, bookVars, topUp, chosen,
                 granted>>

\* cancelAll returns what the resting orders lock.
CancelExecutes ==
  /\ free' = free + locked
  /\ locked' = 0
  /\ UNCHANGED <<policyVars, vaultVars, wallet, sold, deposited>>

Cancel ==
  /\ pc = "cancel"
  /\ CancelExecutes
  /\ pc' = "place"
  /\ UNCHANGED <<topUp, chosen, posted, granted, faults>>

\* Whatever cancelAll throws or returns is ignored.
CancelFails ==
  /\ pc = "cancel"
  /\ Fault
  /\ pc' = "place"
  /\ UNCHANGED <<policyVars, vaultVars, wallet, bookVars, topUp, chosen,
                 posted, granted>>

PlaceExecutes ==
  /\ Lock <= free
  /\ free' = free - Lock
  /\ locked' = locked + Lock
  /\ UNCHANGED <<policyVars, vaultVars, wallet, sold, deposited>>

Place ==
  /\ pc = "place"
  /\ PlaceExecutes
  /\ posted' = "success"
  /\ pc' = "sleep"
  /\ UNCHANGED <<topUp, chosen, granted, faults>>

\* DeepBook aborts an order the free balance does not cover; one that it does
\* cover may fail for reasons of the pool (a tick size, a minimum).
PlaceFails ==
  /\ pc = "place"
  /\ Lock <= free => faults < MaxFaults
  /\ faults' = IF Lock <= free THEN faults + 1 ELSE faults
  /\ Answered("failed")
  /\ pc' = "sleep"
  /\ UNCHANGED <<policyVars, vaultVars, wallet, bookVars, topUp, chosen,
                 granted>>

\* A call throws, with or without having been executed, or the process is
\* killed: main catches and logs, or starts again, and the next tick begins
\* from what is on chain.
TickDies ==
  /\ pc # "sleep"
  /\ Fault
  /\ \/ UNCHANGED <<policyVars, vaultVars, wallet, bookVars>>
     \/ pc = "withdraw" /\ WithdrawExecutes
     \/ pc = "deposit" /\ DepositExecutes
     \/ pc = "cancel" /\ CancelExecutes
     \/ pc = "place" /\ PlaceExecutes
  /\ pc' = "sleep"
  /\ UNCHANGED <<topUp, chosen, posted, granted>>

Agent ==
  \/ WakeUp \/ ReadBalance \/ ReadPending \/ Withdraw \/ WithdrawRejected
  \/ Deposit \/ Cancel \/ Place

Failures ==
  \/ ReadBalanceFails \/ DepositFails \/ CancelFails \/ PlaceFails \/ TickDies

Environment ==
  \/ OwnerSetsPolicy \/ PolicyEnds \/ CoinArrives \/ OrdersFill

Next == Agent \/ Failures \/ Environment

Spec == Init /\ [][Next]_vars

\* The loop runs for ever and its calls return; nothing is asked of the owner,
\* of the market or of the faults.
FairSpec == Spec /\ WF_vars(Agent)

-----------------------------------------------------------------------------
TypeOK ==
  /\ live \in BOOLEAN /\ allowance \in Nat /\ payees \subseteq {"manager"}
  /\ consumed \subseteq Nat /\ drawn \in Nat
  /\ staged \in Nat /\ sent \in 0 .. MaxCoins
  /\ pending \subseteq (1 .. MaxCoins) \X CoinValues
  /\ wallet \in Nat /\ free \in Nat /\ locked \in Nat /\ sold \in Nat
  /\ deposited \in Nat
  /\ pc \in {"sleep", "readBalance", "readPending", "withdraw", "deposit",
             "cancel", "place"}
  /\ topUp \in 0 .. Need
  /\ chosen \in ((1 .. MaxCoins) \X CoinValues) \cup {NoCoin}
  /\ posted \in {"none", "rejected", "failed", "success"}
  /\ granted \in 0 .. MaxGrants /\ faults \in 0 .. MaxFaults

\* deepbook.ts:14-17, "DeepBook only ever sees money the AgentPolicy
\* authorised": the deposits never run ahead of the draws, so that the agent's
\* own coins, which the deposit call would take as well, are never traded,
\* whatever was executed without the agent learning of it.
DepositsAuthorised ==
  /\ deposited <= drawn
  /\ wallet >= OwnFunds

\* What the policy paid out and is not sold: at the agent's address, in the
\* BalanceManager or locked in orders.
Exposure == drawn - sold

\* The exposure does not creep up tick by tick: without faults it stays within
\* one top-up and one order, and each fault (a failed balance read, a lost
\* answer, a killed process) costs at most one more top-up, not one per tick.
ExposureBounded == Exposure <= Need + Lock + faults * Need

\* Once the faults are over, an agent with enough free balance trades, policy
\* or not: each time there is enough, an order is placed after it.
KeepsTrading == (free >= Need /\ faults = MaxFaults) ~> (posted = "success")

-----------------------------------------------------------------------------
\* trade-loop.ts:18-19, "it trades forever within whatever the policy allowed;
\* revocation just stops further top-ups": an agent that for ever has, in its
\* BalanceManager and its own stale orders, what an order takes keeps placing.
TradesForever ==
  <>[](free + locked >= Need) => []<>(posted = "success")

\* docs/SUBTRACK2_DEEPBOOK.md: "success, policy-rejection (budget/expiry/
\* revoked), and failures all show up" in the feed: once the policy is gone for
\* good, an agent that needs money says so, unless it finds it needs none.
Ended == ~ live /\ granted = MaxGrants
RejectionReported ==
  (Ended /\ free < Need) ~> (posted = "rejected" \/ free >= Need)
=============================================================================
