--------------------------- MODULE TradeLoop_proofs ---------------------------
(***************************************************************************)
(* Proofs about TradeLoop: for any quantities, balances, grants, coins and *)
(* any number of faults, only drawn funds are deposited and the exposure   *)
(* is bounded.                                                             *)
(*                                                                         *)
(* The bound on the exposure is not inductive by itself: it says nothing   *)
(* of where the coins are.  The invariant splits the exposure into what is *)
(* free in the BalanceManager, what orders lock there, what a tick is just *)
(* carrying there, and what lies loose at the agent's address after a      *)
(* deposit that failed.  Only faults leave something loose or let orders   *)
(* pile up, at most Need each; the rest is what one top-up fills up.       *)
(***************************************************************************)
EXTENDS TradeLoop, FiniteSetTheorems, TLAPS

Numbers ==
  /\ drawn \in Nat /\ wallet \in Nat /\ deposited \in Nat
  /\ free \in Nat /\ locked \in Nat /\ sold \in Nat
  /\ topUp \in 0 .. Need
  /\ faults \in 0 .. MaxFaults

\* Every coin drawn is at the agent's address or was deposited, and every coin
\* deposited is free, locked or sold.
Balanced ==
  /\ drawn + OwnFunds = wallet + deposited
  /\ deposited = free + locked + sold

\* What the tick has withdrawn and not deposited yet.
Carried == IF pc = "deposit" THEN topUp ELSE 0
Loose == wallet - OwnFunds - Carried
Credit == faults * Need

LooseCoins ==
  /\ Loose >= 0
  /\ Loose <= Credit
  /\ Loose + locked <= Lock + Credit
  /\ pc = "place" => Loose + locked <= Credit

Total == Loose + free + locked
Topping == pc \in {"readPending", "withdraw", "deposit"}

TotalBounded ==
  /\ Total <= Need + Lock + Credit
  /\ Topping => Total + topUp <= Need + Lock + Credit

IInv == Numbers /\ Balanced /\ LooseCoins /\ TotalBounded

-----------------------------------------------------------------------------
LEMMA Sizes == Need \in Nat /\ Lock \in Nat /\ Lock <= Need
  BY TradeLoopAssumption DEF Need, Lock

\* Each fault is worth one more top-up.
LEMMA CreditStep ==
  ASSUME faults \in Nat
  PROVE  /\ Credit \in Nat
         /\ faults' = faults => Credit' = Credit
         /\ faults' = faults + 1 => Credit' = Credit + Need
<1>1. Need \in Nat
  BY Sizes
<1>2. (faults + 1) * Need = faults * Need + Need /\ faults * Need \in Nat
  BY <1>1
<1>3. QED
  BY <1>1, <1>2 DEF Credit

LEMMA InitInv == Init => IInv
<1> SUFFICES ASSUME Init PROVE IInv
  OBVIOUS
<1>1. Credit = 0
  BY Sizes DEF Init, Credit
<1>2. drawn = 0
  BY DEF Init, P!Init
<1>3. OwnFunds \in Nat /\ MaxFaults \in Nat
  BY TradeLoopAssumption
<1>4. QED
  BY <1>1, <1>2, <1>3, Sizes
  DEF Init, IInv, Numbers, Balanced, LooseCoins, TotalBounded, Carried, Loose,
      Total, Topping

-----------------------------------------------------------------------------
\* Steps that touch neither the coins nor the tick.
LEMMA OwnerStep ==
  ASSUME IInv, UNCHANGED <<drawn, wallet, bookVars, pc, topUp, faults>>
  PROVE  IInv'
<1>1. UNCHANGED <<drawn, wallet, free, locked, sold, deposited, pc, topUp, faults>>
  BY DEF bookVars
<1>2. Credit' = Credit
  BY <1>1 DEF Credit
<1>3. QED
  BY <1>1, <1>2
  DEF IInv, Numbers, Balanced, LooseCoins, TotalBounded, Carried, Loose,
      Total, Topping

\* The tick decides on what it has read: the true free balance, or 0 when the
\* read failed, which is a fault.
LEMMA DecideStep ==
  ASSUME IInv, NEW have, Decide(have), pc = "readBalance",
         UNCHANGED <<drawn, wallet, free, locked, sold, deposited>>,
         faults' \in 0 .. MaxFaults,
         \/ have = free /\ faults' = faults
         \/ have = 0 /\ faults' = faults + 1
  PROVE  IInv'
<1>1. OwnFunds \in Nat /\ MaxFaults \in Nat /\ faults \in Nat
  BY TradeLoopAssumption DEF IInv, Numbers
<1>2. /\ have \in Nat
      /\ have < Need => topUp' = Need - have /\ pc' = "readPending"
      /\ ~ (have < Need) => topUp' = 0 /\ pc' = "cancel"
  BY <1>1 DEF Decide, IInv, Numbers
<1>3. topUp' \in 0 .. Need
  BY <1>2, Sizes
<1>4. Numbers' /\ Balanced'
  BY <1>3 DEF IInv, Numbers, Balanced
<1>5. /\ Credit \in Nat
      /\ faults' = faults => Credit' = Credit
      /\ faults' = faults + 1 => Credit' = Credit + Need
  BY <1>1, CreditStep
<1>6. CASE have < Need
  BY <1>1, <1>2, <1>4, <1>5, <1>6, Sizes
  DEF IInv, Numbers, LooseCoins, TotalBounded, Carried, Loose, Total, Topping
<1>7. CASE ~ (have < Need)
  BY <1>1, <1>2, <1>4, <1>5, <1>7, Sizes
  DEF IInv, Numbers, LooseCoins, TotalBounded, Carried, Loose, Total, Topping
<1>8. QED
  BY <1>6, <1>7

\* The tick goes to sleep without having moved a coin.  If it was carrying
\* some, they are loose from now on: that took a fault.
LEMMA GiveUpStep ==
  ASSUME IInv, pc' = "sleep",
         UNCHANGED <<drawn, wallet, free, locked, sold, deposited, topUp>>,
         faults' \in 0 .. MaxFaults,
         \/ faults' = faults + 1
         \/ faults' = faults /\ pc # "deposit"
  PROVE  IInv'
<1>1. OwnFunds \in Nat /\ faults \in Nat
  BY TradeLoopAssumption DEF IInv, Numbers
<1>2. /\ Credit \in Nat
      /\ faults' = faults => Credit' = Credit
      /\ faults' = faults + 1 => Credit' = Credit + Need
  BY <1>1, CreditStep
<1>3. QED
  BY <1>1, <1>2, Sizes
  DEF IInv, Numbers, Balanced, LooseCoins, TotalBounded, Carried, Loose,
      Total, Topping

\* The four calls that move coins, when they execute: the tick goes on, or
\* it dies of a fault before it learns of it.
LEMMA WithdrawStep ==
  ASSUME IInv, pc = "withdraw", WithdrawExecutes, topUp' = topUp,
         faults' \in 0 .. MaxFaults,
         \/ pc' = "deposit" /\ faults' = faults
         \/ pc' = "sleep" /\ faults' = faults + 1
  PROVE  IInv'
<1>1. OwnFunds \in Nat /\ faults \in Nat
  BY TradeLoopAssumption DEF IInv, Numbers
<1>2. /\ Credit \in Nat
      /\ faults' = faults => Credit' = Credit
      /\ faults' = faults + 1 => Credit' = Credit + Need
  BY <1>1, CreditStep
<1>3. /\ drawn' = drawn + topUp /\ wallet' = wallet + topUp
      /\ UNCHANGED <<free, locked, sold, deposited>>
  BY DEF WithdrawExecutes, P!Draw, bookVars
<1>4. QED
  BY <1>1, <1>2, <1>3, Sizes
  DEF IInv, Numbers, Balanced, LooseCoins, TotalBounded, Carried, Loose,
      Total, Topping

LEMMA DepositStep ==
  ASSUME IInv, pc = "deposit", DepositExecutes, topUp' = topUp,
         faults' \in 0 .. MaxFaults,
         \/ pc' = "cancel" /\ faults' = faults
         \/ pc' = "sleep" /\ faults' = faults + 1
  PROVE  IInv'
<1>1. OwnFunds \in Nat /\ faults \in Nat
  BY TradeLoopAssumption DEF IInv, Numbers
<1>2. /\ Credit \in Nat
      /\ faults' = faults => Credit' = Credit
      /\ faults' = faults + 1 => Credit' = Credit + Need
  BY <1>1, CreditStep
<1>3. /\ topUp <= wallet /\ wallet' = wallet - topUp
      /\ free' = free + topUp /\ deposited' = deposited + topUp
      /\ UNCHANGED <<drawn, locked, sold>>
  BY DEF DepositExecutes, policyVars
<1>4. QED
  BY <1>1, <1>2, <1>3, Sizes
  DEF IInv, Numbers, Balanced, LooseCoins, TotalBounded, Carried, Loose,
      Total, Topping

LEMMA CancelStep ==
  ASSUME IInv, pc = "cancel", CancelExecutes, topUp' = topUp,
         faults' \in 0 .. MaxFaults,
         \/ pc' = "place" /\ faults' = faults
         \/ pc' = "sleep" /\ faults' = faults + 1
  PROVE  IInv'
<1>1. OwnFunds \in Nat /\ faults \in Nat
  BY TradeLoopAssumption DEF IInv, Numbers
<1>2. /\ Credit \in Nat
      /\ faults' = faults => Credit' = Credit
      /\ faults' = faults + 1 => Credit' = Credit + Need
  BY <1>1, CreditStep
<1>3. /\ free' = free + locked /\ locked' = 0
      /\ UNCHANGED <<drawn, wallet, sold, deposited>>
  BY DEF CancelExecutes, policyVars
<1>4. QED
  BY <1>1, <1>2, <1>3, Sizes
  DEF IInv, Numbers, Balanced, LooseCoins, TotalBounded, Carried, Loose,
      Total, Topping

LEMMA PlaceStep ==
  ASSUME IInv, pc = "place", PlaceExecutes, topUp' = topUp, pc' = "sleep",
         faults' \in 0 .. MaxFaults,
         faults' = faults \/ faults' = faults + 1
  PROVE  IInv'
<1>1. OwnFunds \in Nat /\ faults \in Nat
  BY TradeLoopAssumption DEF IInv, Numbers
<1>2. /\ Credit \in Nat
      /\ faults' = faults => Credit' = Credit
      /\ faults' = faults + 1 => Credit' = Credit + Need
  BY <1>1, CreditStep
<1>3. /\ Lock <= free /\ free' = free - Lock /\ locked' = locked + Lock
      /\ UNCHANGED <<drawn, wallet, sold, deposited>>
  BY DEF PlaceExecutes, policyVars
<1>4. QED
  BY <1>1, <1>2, <1>3, Sizes
  DEF IInv, Numbers, Balanced, LooseCoins, TotalBounded, Carried, Loose,
      Total, Topping

-----------------------------------------------------------------------------
LEMMA AgentStep == IInv /\ Agent => IInv'
<1> SUFFICES ASSUME IInv, Agent PROVE IInv'
  OBVIOUS
<1>0. faults \in 0 .. MaxFaults /\ MaxFaults \in Nat /\ faults \in Nat
  BY TradeLoopAssumption DEF IInv, Numbers
<1>1. CASE WakeUp
  <2>1. /\ pc = "sleep" /\ pc' = "readBalance"
        /\ UNCHANGED <<drawn, wallet, free, locked, sold, deposited, topUp, faults>>
    BY <1>1 DEF WakeUp, policyVars, bookVars
  <2>2. Credit' = Credit
    BY <2>1 DEF Credit
  <2>3. QED
    BY <2>1, <2>2
    DEF IInv, Numbers, Balanced, LooseCoins, TotalBounded, Carried, Loose,
        Total, Topping
<1>2. CASE ReadBalance
  <2>1. /\ Decide(free) /\ pc = "readBalance" /\ faults' = faults
        /\ UNCHANGED <<drawn, wallet, free, locked, sold, deposited>>
    BY <1>2 DEF ReadBalance, policyVars, bookVars
  <2>2. QED
    BY <1>0, <2>1, DecideStep
<1>3. CASE ReadPending
  <2>1. /\ pc = "readPending" /\ pc' = "withdraw"
        /\ UNCHANGED <<drawn, wallet, free, locked, sold, deposited, topUp, faults>>
    BY <1>3 DEF ReadPending, policyVars, bookVars
  <2>2. Credit' = Credit
    BY <2>1 DEF Credit
  <2>3. QED
    BY <2>1, <2>2
    DEF IInv, Numbers, Balanced, LooseCoins, TotalBounded, Carried, Loose,
        Total, Topping
<1>4. CASE Withdraw
  BY <1>0, <1>4, WithdrawStep DEF Withdraw
<1>5. CASE WithdrawRejected
  <2>1. /\ pc = "withdraw" /\ pc' = "sleep" /\ faults' = faults
        /\ UNCHANGED <<drawn, wallet, free, locked, sold, deposited, topUp>>
    BY <1>5 DEF WithdrawRejected, policyVars, bookVars
  <2>2. QED
    BY <1>0, <2>1, GiveUpStep
<1>6. CASE Deposit
  BY <1>0, <1>6, DepositStep DEF Deposit
<1>7. CASE Cancel
  BY <1>0, <1>7, CancelStep DEF Cancel
<1>8. CASE Place
  BY <1>0, <1>8, PlaceStep DEF Place
<1>9. QED
  BY <1>1, <1>2, <1>3, <1>4, <1>5, <1>6, <1>7, <1>8 DEF Agent

LEMMA FailureStep == IInv /\ Failures => IInv'
<1> SUFFICES ASSUME IInv, Failures PROVE IInv'
  OBVIOUS
<1>0. faults \in 0 .. MaxFaults /\ MaxFaults \in Nat /\ faults \in Nat
  BY TradeLoopAssumption DEF IInv, Numbers
<1>1. ASSUME Fault PROVE faults' \in 0 .. MaxFaults /\ faults' = faults + 1
  BY <1>0, <1>1 DEF Fault
<1>2. CASE ReadBalanceFails
  <2>1. /\ Decide(0) /\ pc = "readBalance" /\ Fault
        /\ UNCHANGED <<drawn, wallet, free, locked, sold, deposited>>
    BY <1>2 DEF ReadBalanceFails, policyVars, bookVars
  <2>2. QED
    BY <1>1, <2>1, DecideStep
<1>3. CASE DepositFails
  <2>1. topUp <= wallet
    <3>1. pc = "deposit" /\ OwnFunds \in Nat
      BY <1>3, TradeLoopAssumption DEF DepositFails
    <3>2. QED
      BY <3>1 DEF IInv, Numbers, LooseCoins, Loose, Carried
  <2>2. faults' = faults + 1 /\ faults' \in 0 .. MaxFaults
    BY <1>0, <1>3, <2>1 DEF DepositFails
  <2>3. /\ pc' = "sleep"
        /\ UNCHANGED <<drawn, wallet, free, locked, sold, deposited, topUp>>
    BY <1>3 DEF DepositFails, policyVars, bookVars
  <2>4. QED
    BY <2>2, <2>3, GiveUpStep
<1>4. CASE CancelFails
  <2>1. /\ pc = "cancel" /\ pc' = "place" /\ Fault
        /\ UNCHANGED <<drawn, wallet, free, locked, sold, deposited, topUp>>
    BY <1>4 DEF CancelFails, policyVars, bookVars
  <2>2. Credit \in Nat /\ Credit' = Credit + Need
    BY <1>0, <1>1, <2>1, CreditStep
  <2>3. OwnFunds \in Nat
    BY TradeLoopAssumption
  <2>4. QED
    BY <1>1, <2>1, <2>2, <2>3, Sizes
    DEF IInv, Numbers, Balanced, LooseCoins, TotalBounded, Carried, Loose,
        Total, Topping
<1>5. CASE PlaceFails
  <2>1. /\ pc = "place" /\ pc' = "sleep"
        /\ UNCHANGED <<drawn, wallet, free, locked, sold, deposited, topUp>>
    BY <1>5 DEF PlaceFails, policyVars, bookVars
  <2>2. /\ faults' = faults \/ faults' = faults + 1
        /\ faults' \in 0 .. MaxFaults
    BY <1>0, <1>5 DEF PlaceFails
  <2>3. QED
    BY <2>1, <2>2, GiveUpStep
<1>6. CASE TickDies
  <2>1. /\ pc' = "sleep" /\ topUp' = topUp
        /\ faults' \in 0 .. MaxFaults /\ faults' = faults + 1
    BY <1>1, <1>6 DEF TickDies
  <2>2. CASE UNCHANGED <<policyVars, vaultVars, wallet, bookVars>>
    <3>1. UNCHANGED <<drawn, wallet, free, locked, sold, deposited>>
      BY <2>2 DEF policyVars, bookVars
    <3>2. QED
      BY <2>1, <3>1, GiveUpStep
  <2>3. CASE pc = "withdraw" /\ WithdrawExecutes
    BY <2>1, <2>3, WithdrawStep
  <2>4. CASE pc = "deposit" /\ DepositExecutes
    BY <2>1, <2>4, DepositStep
  <2>5. CASE pc = "cancel" /\ CancelExecutes
    BY <2>1, <2>5, CancelStep
  <2>6. CASE pc = "place" /\ PlaceExecutes
    BY <2>1, <2>6, PlaceStep
  <2>7. QED
    BY <1>6, <2>2, <2>3, <2>4, <2>5, <2>6 DEF TickDies
<1>7. QED
  BY <1>2, <1>3, <1>4, <1>5, <1>6 DEF Failures

LEMMA EnvironmentStep == IInv /\ Environment => IInv'
<1> SUFFICES ASSUME IInv, Environment PROVE IInv'
  OBVIOUS
<1>1. CASE OwnerSetsPolicy
  BY <1>1, OwnerStep DEF OwnerSetsPolicy, P!Grant, agentVars
<1>2. CASE PolicyEnds
  BY <1>2, OwnerStep DEF PolicyEnds, P!End, agentVars
<1>3. CASE CoinArrives
  BY <1>3, OwnerStep DEF CoinArrives, policyVars, agentVars
<1>4. CASE OrdersFill
  <2>1. /\ sold' = sold + locked /\ locked' = 0
        /\ UNCHANGED <<drawn, wallet, free, deposited, pc, topUp, faults>>
    BY <1>4 DEF OrdersFill, policyVars, agentVars
  <2>2. Credit' = Credit /\ Credit \in Nat /\ OwnFunds \in Nat
    <3>1. faults \in Nat
      BY TradeLoopAssumption DEF IInv, Numbers
    <3>2. QED
      BY <2>1, <3>1, CreditStep, TradeLoopAssumption
  <2>3. QED
    BY <2>1, <2>2, Sizes
    DEF IInv, Numbers, Balanced, LooseCoins, TotalBounded, Carried, Loose,
        Total, Topping
<1>5. QED
  BY <1>1, <1>2, <1>3, <1>4 DEF Environment

THEOREM Invariance == Spec => []IInv
<1>1. IInv /\ UNCHANGED vars => IInv'
  BY OwnerStep DEF vars, policyVars, bookVars
<1>2. IInv /\ [Next]_vars => IInv'
  BY <1>1, AgentStep, FailureStep, EnvironmentStep DEF Next
<1>3. QED
  BY <1>2, InitInv, PTL DEF Spec

-----------------------------------------------------------------------------
\* Only money the policy paid out is ever deposited, and the agent's own
\* coins stay where they are, through any faults.
THEOREM OnlyAuthorisedDeposits == Spec => []DepositsAuthorised
<1>1. ASSUME IInv PROVE DepositsAuthorised
  <2>1. OwnFunds \in Nat
    BY TradeLoopAssumption
  <2>2. wallet >= OwnFunds
    BY <1>1, <2>1 DEF IInv, Numbers, LooseCoins, Loose, Carried
  <2>3. QED
    <3>1. /\ drawn \in Nat /\ wallet \in Nat /\ deposited \in Nat
          /\ drawn + OwnFunds = wallet + deposited
      BY <1>1 DEF IInv, Numbers, Balanced
    <3>2. deposited <= drawn
      BY <2>1, <2>2, <3>1
    <3>3. QED
      BY <2>2, <3>2 DEF DepositsAuthorised
<1>2. QED
  BY <1>1, Invariance, PTL

\* However long the loop runs: one top-up, one order, and one more top-up per
\* fault.
THEOREM ExposureAlwaysBounded == Spec => []ExposureBounded
<1>1. ASSUME IInv PROVE ExposureBounded
  <2>1. OwnFunds \in Nat /\ faults \in Nat
    BY <1>1, TradeLoopAssumption DEF IInv, Numbers
  <2>2. Credit \in Nat
    BY <2>1, CreditStep
  <2>3. Exposure <= Need + Lock + Credit
    BY <1>1, <2>1, <2>2, Sizes
    DEF IInv, Numbers, Balanced, LooseCoins, TotalBounded, Carried, Loose,
        Total, Topping, Exposure
  <2>4. QED
    BY <2>3 DEF ExposureBounded, Credit
<1>2. QED
  BY <1>1, Invariance, PTL

-----------------------------------------------------------------------------
(***************************************************************************)
(* What the invariant above leaves out: the policy, the vault and the      *)
(* program's place.                                                        *)
(***************************************************************************)
Coin == (1 .. MaxCoins) \X CoinValues

PolicyShape ==
  /\ live \in BOOLEAN /\ allowance \in Nat /\ payees \subseteq {"manager"}
  /\ consumed \subseteq Nat /\ IsFiniteSet(consumed)

VaultShape ==
  /\ staged \in Nat /\ sent \in 0 .. MaxCoins
  /\ pending \subseteq Coin

TickShape ==
  /\ pc \in {"sleep", "readBalance", "readPending", "withdraw", "deposit",
             "cancel", "place"}
  /\ chosen \in Coin \cup {NoCoin}
  /\ posted \in {"none", "rejected", "failed", "success"}
  /\ granted \in 0 .. MaxGrants

Shape == PolicyShape /\ VaultShape /\ TickShape

LEMMA ShapeInit == Init => Shape
<1> SUFFICES ASSUME Init PROVE Shape
  OBVIOUS
<1>1. IsFiniteSet({})
  BY FS_EmptySet
<1>2. PolicyShape
  BY <1>1 DEF Init, P!Init, PolicyShape
<1>3. VaultShape /\ TickShape
  BY TradeLoopAssumption DEF Init, VaultShape, TickShape
<1>4. QED
  BY <1>2, <1>3 DEF Shape

\* A withdrawal that goes through uses a nonce of its own, and leaves what it
\* does not take with the vault.
LEMMA WithdrawShape ==
  ASSUME IInv, Shape, WithdrawExecutes
  PROVE  /\ PolicyShape' /\ VaultShape'
         /\ FreshNonce \in Nat /\ topUp \in 0 .. allowance
<1>1. topUp \in Nat
  BY Sizes DEF IInv, Numbers
<1>2. FreshNonce \in Nat
  BY FS_CardinalityType DEF FreshNonce, Shape, PolicyShape
<1>3. /\ live' = live /\ payees' = payees
      /\ topUp <= allowance /\ allowance' = allowance - topUp
      /\ consumed' = consumed \cup {FreshNonce}
  BY DEF WithdrawExecutes, P!Draw
<1>4. IsFiniteSet(consumed')
  BY <1>3, FS_AddElement DEF Shape, PolicyShape
<1>5. topUp \in 0 .. allowance
  BY <1>1, <1>3 DEF Shape, PolicyShape
<1>6. PolicyShape'
  BY <1>1, <1>2, <1>3, <1>4 DEF Shape, PolicyShape
<1>7. chosen[2] \in Nat
  <2>1. CASE chosen \in Coin
    BY <2>1, TradeLoopAssumption DEF Coin
  <2>2. CASE chosen = NoCoin
    BY <2>2 DEF NoCoin
  <2>3. QED
    BY <2>1, <2>2 DEF Shape, TickShape
<1>8. /\ topUp <= staged + chosen[2] /\ staged' = staged + chosen[2] - topUp
      /\ pending' = pending \ {chosen} /\ sent' = sent
  BY DEF WithdrawExecutes
<1>9. VaultShape'
  BY <1>1, <1>7, <1>8 DEF Shape, VaultShape
<1>10. QED
  BY <1>2, <1>5, <1>6, <1>9

\* Steps that leave the policy and the vault alone.
LEMMA ShapeKept ==
  ASSUME Shape, UNCHANGED <<policyVars, vaultVars>>
  PROVE  PolicyShape' /\ VaultShape'
  BY DEF Shape, PolicyShape, VaultShape, policyVars, vaultVars

LEMMA ShapeStep == IInv /\ Shape /\ [Next]_vars => Shape'
<1> SUFFICES ASSUME IInv, Shape, [Next]_vars PROVE Shape'
  OBVIOUS
<1>1. CASE Agent
  <2>1. PolicyShape' /\ VaultShape'
    <3>1. CASE Withdraw
      BY <3>1, WithdrawShape DEF Withdraw
    <3>2. CASE UNCHANGED <<policyVars, vaultVars>>
      BY <3>2, ShapeKept
    <3>3. \/ Withdraw
          \/ UNCHANGED <<policyVars, vaultVars>>
      BY <1>1 DEF Agent, WakeUp, ReadBalance, ReadPending, WithdrawRejected,
                  Deposit, DepositExecutes, Cancel, CancelExecutes, Place,
                  PlaceExecutes
    <3>4. QED
      BY <3>1, <3>2, <3>3
  <2>2. /\ pc' \in {"readBalance", "readPending", "withdraw", "deposit",
                    "cancel", "place", "sleep"}
        /\ posted' \in {"none", "rejected", "success", posted}
        /\ granted' = granted
    BY <1>1 DEF Agent, WakeUp, ReadBalance, Decide, ReadPending, Withdraw,
                WithdrawRejected, Answered, Deposit, Cancel, Place
  <2>3. chosen' = chosen \/ chosen' \in pending \cup {NoCoin}
    BY <1>1 DEF Agent, WakeUp, ReadBalance, ReadPending, Withdraw,
                WithdrawRejected, Deposit, Cancel, Place
  <2>4. TickShape'
    BY <2>2, <2>3 DEF Shape, TickShape, VaultShape
  <2>5. QED
    BY <2>1, <2>4 DEF Shape
<1>2. CASE Failures
  <2>1. PolicyShape' /\ VaultShape'
    <3>1. \/ WithdrawExecutes
          \/ UNCHANGED <<policyVars, vaultVars>>
      BY <1>2 DEF Failures, ReadBalanceFails, DepositFails, CancelFails,
                  PlaceFails, TickDies, DepositExecutes, CancelExecutes,
                  PlaceExecutes
    <3>2. QED
      BY <3>1, WithdrawShape, ShapeKept
  <2>2. /\ pc' \in {"readPending", "cancel", "place", "sleep"}
        /\ posted' \in {"failed", posted}
        /\ granted' = granted /\ chosen' = chosen
    BY <1>2 DEF Failures, ReadBalanceFails, Decide, DepositFails, CancelFails,
                PlaceFails, TickDies, Answered
  <2>3. TickShape'
    BY <2>2 DEF Shape, TickShape
  <2>4. QED
    BY <2>1, <2>3 DEF Shape
<1>3. CASE OwnerSetsPolicy
  <2>1. PICK n \in Grants : P!Grant(n, {"manager"})
    BY <1>3 DEF OwnerSetsPolicy
  <2>2. PolicyShape'
    BY <2>1, TradeLoopAssumption DEF P!Grant, Shape, PolicyShape
  <2>3. VaultShape' /\ TickShape'
    BY <1>3, TradeLoopAssumption
    DEF OwnerSetsPolicy, Shape, VaultShape, TickShape, vaultVars, agentVars
  <2>4. QED
    BY <2>2, <2>3 DEF Shape
<1>4. CASE PolicyEnds
  <2>1. PolicyShape'
    BY <1>4 DEF PolicyEnds, P!End, Shape, PolicyShape
  <2>2. VaultShape' /\ TickShape'
    BY <1>4 DEF PolicyEnds, Shape, VaultShape, TickShape, vaultVars, agentVars
  <2>3. QED
    BY <2>1, <2>2 DEF Shape
<1>5. CASE CoinArrives
  <2>1. PolicyShape' /\ TickShape'
    BY <1>5
    DEF CoinArrives, Shape, PolicyShape, TickShape, policyVars, agentVars
  <2>2. PICK v \in CoinValues : pending' = pending \cup {<<sent + 1, v>>}
    BY <1>5 DEF CoinArrives
  <2>3. sent + 1 \in 1 .. MaxCoins /\ sent' \in 0 .. MaxCoins
    BY <1>5, TradeLoopAssumption DEF CoinArrives, Shape, VaultShape
  <2>4. VaultShape'
    BY <1>5, <2>2, <2>3 DEF CoinArrives, Shape, VaultShape, Coin
  <2>5. QED
    BY <2>1, <2>4 DEF Shape
<1>6. CASE OrdersFill
  <2>1. PolicyShape' /\ VaultShape'
    BY <1>6, ShapeKept DEF OrdersFill
  <2>2. TickShape'
    BY <1>6 DEF OrdersFill, Shape, TickShape, agentVars
  <2>3. QED
    BY <2>1, <2>2 DEF Shape
<1>7. CASE UNCHANGED vars
  BY <1>7 DEF vars, policyVars, vaultVars, Shape, PolicyShape, VaultShape,
              TickShape
<1>8. QED
  BY <1>1, <1>2, <1>3, <1>4, <1>5, <1>6, <1>7 DEF Next, Environment

LEMMA ShapeInvariance == Spec => [](IInv /\ Shape)
<1>1. IInv /\ [Next]_vars => IInv'
  BY OwnerStep, AgentStep, FailureStep, EnvironmentStep
  DEF Next, vars, policyVars, bookVars
<1>2. QED
  BY <1>1, InitInv, ShapeInit, ShapeStep, PTL DEF Spec

\* Every variable has its type: no balance ever goes below zero, neither the
\* policy's nor the vault's, the wallet's or the BalanceManager's.
THEOREM TypeCorrect == Spec => []TypeOK
<1>1. IInv /\ Shape => TypeOK
  BY DEF IInv, Numbers, Shape, PolicyShape, VaultShape, TickShape, Coin, TypeOK
<1>2. QED
  BY <1>1, ShapeInvariance, PTL

\* The loop implements the delegation it was given: whatever a tick does and
\* whatever executes without its knowledge, what leaves the vault is a draw on
\* a grant that is live, within what is left of it.
THEOREM LoopImplementsDelegation == Spec => P!Spec
<1>1. Init => P!Init
  BY DEF Init
<1>2. ASSUME IInv, Shape, [Next]_vars PROVE [P!Next]_(P!vars)
  <2>1. CASE WithdrawExecutes
    <3>1. FreshNonce \in Nat /\ topUp \in 0 .. allowance
      BY <1>2, <2>1, WithdrawShape
    <3>2. P!Draw(FreshNonce, topUp, "manager") /\ "manager" \in payees
      BY <2>1 DEF WithdrawExecutes, P!Draw
    <3>3. QED
      BY <3>1, <3>2 DEF P!Next
  <2>2. CASE UNCHANGED policyVars
    BY <2>2 DEF policyVars, P!vars
  <2>3. CASE Agent
    <3>1. WithdrawExecutes \/ UNCHANGED policyVars
      BY <2>3 DEF Agent, WakeUp, ReadBalance, ReadPending, Withdraw,
                  WithdrawRejected, Deposit, DepositExecutes, Cancel,
                  CancelExecutes, Place, PlaceExecutes
    <3>2. QED
      BY <2>1, <2>2, <3>1
  <2>4. CASE Failures
    <3>1. WithdrawExecutes \/ UNCHANGED policyVars
      BY <2>4 DEF Failures, ReadBalanceFails, DepositFails, CancelFails,
                  PlaceFails, TickDies, DepositExecutes, CancelExecutes,
                  PlaceExecutes
    <3>2. QED
      BY <2>1, <2>2, <3>1
  <2>5. CASE OwnerSetsPolicy
    BY <2>5 DEF OwnerSetsPolicy, P!Next
  <2>6. CASE PolicyEnds
    BY <2>6 DEF PolicyEnds, P!Next
  <2>7. CASE CoinArrives \/ OrdersFill
    BY <2>2, <2>7 DEF CoinArrives, OrdersFill
  <2>8. CASE UNCHANGED vars
    BY <2>2, <2>8 DEF vars
  <2>9. QED
    BY <1>2, <2>3, <2>4, <2>5, <2>6, <2>7, <2>8 DEF Next, Environment
<1>3. QED
  BY <1>1, <1>2, ShapeInvariance, PTL DEF Spec, P!Spec
=============================================================================
