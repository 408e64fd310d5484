-------------------------- MODULE Sportsbook_proofs --------------------------
(***************************************************************************)
(* Theorems about a market, for any bettors, stakes, odds and widths.      *)
(***************************************************************************)
EXTENDS Sportsbook, FiniteSums, TLAPS

\* The terms of a bet are a natural number whatever the odds: the integer
\* division of claim.
LEMMA EntitlementNat ==
  ASSUME TypeOK, NEW b \in Bettors, HasBet(b)
  PROVE  Entitlement(b) \in Nat
<1>1. bets[b].stake \in Nat /\ bets[b].pick \in Picks
  BY DEF TypeOK, HasBet, Bet
<1>2. odds[bets[b].pick] \in Nat
  BY <1>1 DEF TypeOK
<1>3. bets[b].stake * odds[bets[b].pick] \in Nat
  BY <1>1, <1>2
<1>4. (bets[b].stake * odds[bets[b].pick]) \div Bps \in Nat
  BY <1>3, SportsbookAssumption
<1>5. QED
  BY <1>1, <1>4 DEF Entitlement

\* The same of the next state.
LEMMA EntitlementNatNext ==
  ASSUME TypeOK', NEW b \in Bettors, HasBet(b)'
  PROVE  Entitlement(b)' \in Nat
<1>1. bets'[b].stake \in Nat /\ bets'[b].pick \in Picks
  BY DEF TypeOK, HasBet, Bet
<1>2. odds'[bets'[b].pick] \in Nat
  BY <1>1 DEF TypeOK
<1>3. bets'[b].stake * odds'[bets'[b].pick] \in Nat
  BY <1>1, <1>2
<1>4. (bets'[b].stake * odds'[bets'[b].pick]) \div Bps \in Nat
  BY <1>3, SportsbookAssumption
<1>5. QED
  BY <1>1, <1>4 DEF Entitlement

\* A claim pays a natural number that the pool holds.
LEMMA PayoutBounded ==
  ASSUME TypeOK, NEW b \in Bettors, HasBet(b)
  PROVE  /\ Payout(b) \in Nat
         /\ Payout(b) <= pool /\ Payout(b) <= Entitlement(b)
         /\ Payout(b) < Entitlement(b) => Payout(b) = pool
<1>1. Entitlement(b) \in Nat /\ pool \in Nat
  BY EntitlementNat DEF TypeOK
<1>2. QED
  BY <1>1 DEF Payout

LEMMA TypeStep == TypeOK /\ [Next]_vars => TypeOK'
<1> SUFFICES ASSUME TypeOK, [Next]_vars PROVE TypeOK'
  OBVIOUS
<1>1. ASSUME NEW o \in [Picks -> OddsChoices], NEW t \in 0 .. MaxTime,
             CreateMarket(o, t)
      PROVE  TypeOK'
  <2>1. created' \in BOOLEAN
    BY <1>1 DEF CreateMarket
  <2>2. odds' \in [Picks -> Nat] /\ closesAt' \in Nat
    <3>1. o \in [Picks -> Nat]
      BY SportsbookAssumption
    <3>2. t \in Nat
      BY SportsbookAssumption
    <3>3. odds' = o /\ closesAt' = t
      BY <1>1 DEF CreateMarket
    <3>4. QED
      BY <3>1, <3>2, <3>3
  <2>3. UNCHANGED <<outcome, pool, bets, clock, paid>>
    BY <1>1 DEF CreateMarket
  <2>4. QED
    BY <2>1, <2>2, <2>3 DEF TypeOK
<1>2. ASSUME NEW final \in FinalOutcomes, ResolveMarket(final)
      PROVE  TypeOK'
  BY <1>2 DEF ResolveMarket, TypeOK, market
<1>3. ASSUME NEW b \in Bettors, NEW p \in Picks, NEW s \in Stakes,
             PlaceBet(b, p, s)
      PROVE  TypeOK'
  <2>1. s \in Nat
    BY SportsbookAssumption
  <2>2. [stake |-> s, pick |-> p, claimed |-> FALSE] \in Bet
    BY <2>1 DEF Bet
  <2>3. bets' \in [Bettors -> Bet \cup {NoBet}]
    BY <1>3, <2>2 DEF PlaceBet, TypeOK
  <2>4. pool' \in Nat
    BY <1>3, <2>1 DEF PlaceBet, TypeOK
  <2>5. UNCHANGED <<created, odds, closesAt, outcome, clock, paid>>
    BY <1>3 DEF PlaceBet, market
  <2>6. QED
    BY <2>3, <2>4, <2>5 DEF TypeOK
<1>4. ASSUME NEW b \in Bettors, Claim(b)
      PROVE  TypeOK'
  <2>1. HasBet(b) /\ bets[b] \in Bet
    BY <1>4 DEF Claim, HasBet, TypeOK
  <2>2. Marked(bets[b]) \in Bet
    BY <2>1 DEF Marked, Bet
  <2>3. Payout(b) \in Nat /\ pool - Payout(b) \in Nat
    BY <2>1, PayoutBounded DEF TypeOK
  <2>4. paid[b] + Payout(b) \in Nat
    BY <2>3 DEF TypeOK
  <2>5. QED
    BY <1>4, <2>2, <2>3, <2>4 DEF Claim, TypeOK, market
<1>5. CASE Tick
  BY <1>5 DEF Tick, TypeOK, market
<1>6. CASE UNCHANGED vars
  BY <1>6 DEF vars, TypeOK
<1>7. QED
  BY <1>1, <1>2, <1>3, <1>4, <1>5, <1>6 DEF Next

\* The type invariant holds in every reachable state of every instance.
THEOREM TypeCorrect == Spec => []TypeOK
<1>1. Init => TypeOK
  <2>1. Init => created \in BOOLEAN
    BY DEF Init
  <2>2. QED
    BY <2>1 DEF Init, TypeOK
<1>2. QED
  BY <1>1, TypeStep, PTL DEF Spec

-----------------------------------------------------------------------------
\* The inductive invariant.  Beside the two properties: bets are only on a
\* created market, whose odds no longer change, and claims only on a resolved
\* one, whose pool no longer grows.
SettlementInv ==
  /\ PaidWithinTerms
  /\ ShortOnlyWhenDry
  /\ \A b \in Bettors : HasBet(b) =>
       created /\ (bets[b].claimed => outcome # "PENDING")

\* Before the market is resolved nobody was paid and no bet is claimed.
LEMMA ResolveKeepsSettlement ==
  ASSUME TypeOK, TypeOK', SettlementInv, NEW final \in FinalOutcomes,
         ResolveMarket(final)
  PROVE  SettlementInv'
<1>1. /\ outcome = "PENDING" /\ outcome' # "PENDING"
      /\ UNCHANGED <<created, odds, pool, bets, paid>>
  BY DEF ResolveMarket, market, FinalOutcomes, Picks
<1>2. \A b \in Bettors : paid[b] = 0 /\ (HasBet(b) => ~ bets[b].claimed)
  BY <1>1 DEF SettlementInv, PaidWithinTerms, TypeOK
<1>3. \A b \in Bettors : HasBet(b)' => Entitlement(b)' \in Nat
  BY EntitlementNatNext
<1>4. QED
  BY <1>1, <1>2, <1>3 DEF SettlementInv, PaidWithinTerms, ShortOnlyWhenDry,
                          HasBet

\* A new bet was paid nothing and is not claimed; the others keep their terms,
\* and none of them is claimed either, so the growing pool makes none of them
\* paid short of a pool that is not dry.
LEMMA PlaceKeepsSettlement ==
  ASSUME TypeOK, TypeOK', SettlementInv, NEW b \in Bettors, NEW p \in Picks,
         NEW s \in Stakes, PlaceBet(b, p, s)
  PROVE  SettlementInv'
<1>1. /\ created /\ outcome = "PENDING" /\ ~ HasBet(b)
      /\ UNCHANGED <<created, odds, outcome, paid>>
      /\ bets' = [bets EXCEPT ![b] = [stake |-> s, pick |-> p, claimed |-> FALSE]]
  BY DEF PlaceBet, BettingOpen, market
<1>2. \A c \in Bettors : paid[c] = 0
  BY <1>1 DEF SettlementInv, PaidWithinTerms, TypeOK
<1>3. \A c \in Bettors : HasBet(c)' => ~ bets'[c].claimed
  BY <1>1 DEF SettlementInv, HasBet, TypeOK
<1>4. \A c \in Bettors : HasBet(c)' => Entitlement(c)' \in Nat
  BY EntitlementNatNext
<1>5. QED
  BY <1>1, <1>2, <1>3, <1>4 DEF SettlementInv, PaidWithinTerms, ShortOnlyWhenDry

\* A claim pays one bettor its terms, or else the whole pool; it leaves the
\* terms of every bet as they are.
LEMMA ClaimKeepsSettlement ==
  ASSUME TypeOK, TypeOK', SettlementInv, NEW b \in Bettors, Claim(b)
  PROVE  SettlementInv'
<1>1. /\ outcome # "PENDING" /\ HasBet(b) /\ ~ bets[b].claimed
      /\ UNCHANGED <<created, odds, outcome>>
      /\ bets' = [bets EXCEPT ![b] = Marked(bets[b])]
      /\ pool' = pool - Payout(b)
      /\ paid' = [paid EXCEPT ![b] = paid[b] + Payout(b)]
  BY DEF Claim, market
<1>2. paid[b] = 0
  BY <1>1 DEF SettlementInv, PaidWithinTerms, TypeOK
<1>3. /\ Payout(b) \in Nat /\ Payout(b) <= pool /\ Payout(b) <= Entitlement(b)
      /\ Payout(b) < Entitlement(b) => Payout(b) = pool
  BY <1>1, PayoutBounded
<1>4. /\ bets'[b].stake = bets[b].stake /\ bets'[b].pick = bets[b].pick
      /\ bets'[b].claimed /\ HasBet(b)'
  <2>1. bets[b] \in Bet
    BY <1>1 DEF HasBet, TypeOK
  <2>2. /\ Marked(bets[b]) \in Bet
        /\ Marked(bets[b]).stake = bets[b].stake
        /\ Marked(bets[b]).pick = bets[b].pick
        /\ Marked(bets[b]).claimed
    BY <2>1 DEF Marked, Bet
  <2>3. bets'[b] = Marked(bets[b])
    BY <1>1 DEF TypeOK
  <2>4. QED
    BY <2>2, <2>3, SportsbookAssumption DEF HasBet
<1>5. \A c \in Bettors \ {b} : bets'[c] = bets[c] /\ paid'[c] = paid[c]
  BY <1>1 DEF TypeOK
<1>6. \A c \in Bettors : Entitlement(c)' = Entitlement(c)
  BY <1>1, <1>4, <1>5 DEF Entitlement
<1>7. paid'[b] = Payout(b)
  BY <1>1, <1>2, <1>3 DEF TypeOK
<1>8. pool \in Nat /\ pool' \in Nat /\ pool' <= pool
  BY <1>1, <1>3 DEF TypeOK
<1>9. PaidWithinTerms'
  BY <1>1, <1>3, <1>4, <1>5, <1>6, <1>7
     DEF SettlementInv, PaidWithinTerms, HasBet
<1>10. ShortOnlyWhenDry'
  <2>1. paid'[b] < Entitlement(b)' => pool' = 0
    BY <1>1, <1>3, <1>6, <1>7, <1>8
  <2>2. ASSUME NEW c \in Bettors \ {b}, HasBet(c)', bets'[c].claimed,
               paid'[c] < Entitlement(c)'
        PROVE  pool' = 0
    <3>1. pool = 0
      BY <1>5, <1>6, <2>2 DEF SettlementInv, ShortOnlyWhenDry, HasBet
    <3>2. QED
      BY <1>8, <3>1
  <2>3. QED
    BY <2>1, <2>2 DEF ShortOnlyWhenDry
<1>11. QED
  BY <1>1, <1>4, <1>5, <1>9, <1>10 DEF SettlementInv, HasBet

LEMMA SettlementInductive ==
  TypeOK /\ SettlementInv /\ [Next]_vars => SettlementInv'
<1> SUFFICES ASSUME TypeOK, SettlementInv, [Next]_vars PROVE SettlementInv'
  OBVIOUS
<1>0. TypeOK'
  BY TypeStep
<1>1. ASSUME NEW o \in [Picks -> OddsChoices], NEW t \in 0 .. MaxTime,
             CreateMarket(o, t)
      PROVE  SettlementInv'
  <2>1. \A b \in Bettors : ~ HasBet(b)
    BY <1>1 DEF CreateMarket, SettlementInv
  <2>2. QED
    BY <1>1, <2>1 DEF CreateMarket, SettlementInv, PaidWithinTerms,
                      ShortOnlyWhenDry, HasBet
<1>2. ASSUME NEW final \in FinalOutcomes, ResolveMarket(final)
      PROVE  SettlementInv'
  BY <1>0, <1>2, ResolveKeepsSettlement
<1>3. ASSUME NEW b \in Bettors, NEW p \in Picks, NEW s \in Stakes,
             PlaceBet(b, p, s)
      PROVE  SettlementInv'
  BY <1>0, <1>3, PlaceKeepsSettlement
<1>4. ASSUME NEW b \in Bettors, Claim(b)
      PROVE  SettlementInv'
  BY <1>0, <1>4, ClaimKeepsSettlement
<1>5. CASE Tick \/ UNCHANGED vars
  BY <1>5 DEF Tick, vars, market, SettlementInv, PaidWithinTerms,
              ShortOnlyWhenDry, HasBet, Entitlement
<1>6. QED
  BY <1>1, <1>2, <1>3, <1>4, <1>5 DEF Next

LEMMA SettlementInvariant == Spec => []SettlementInv
<1>1. Init => SettlementInv
  BY DEF Init, SettlementInv, PaidWithinTerms, ShortOnlyWhenDry, HasBet
<1>2. QED
  BY <1>1, SettlementInductive, TypeCorrect, PTL DEF Spec

\* No sequence of bets, resolution and claims pays a bettor more than the
\* terms of its bet, or pays without a claim on a resolved market.
THEOREM NeverOverpaid == Spec => []PaidWithinTerms
<1>1. SettlementInv => PaidWithinTerms
  BY DEF SettlementInv
<1>2. QED
  BY <1>1, SettlementInvariant, PTL

\* A bettor is paid less than its terms only when the pool is empty.
THEOREM ShortfallMeansDry == Spec => []ShortOnlyWhenDry
<1>1. SettlementInv => ShortOnlyWhenDry
  BY DEF SettlementInv
<1>2. QED
  BY <1>1, SettlementInvariant, PTL

-----------------------------------------------------------------------------
\* The pool and the bets that it owes.  RefundsCovered is inductive: a
\* pending market is not claimed on, and a resolved one is not resolved again.
StakeOwing == [b \in Owing |-> bets[b].stake]

LEMMA OwingStakes ==
  ASSUME TypeOK
  PROVE  /\ IsFiniteSet(Owing) /\ Owing \subseteq Bettors
         /\ \A b \in Owing : StakeOwing[b] \in Nat
         /\ SumFunction(StakeOwing) = SumFunctionOnSet(StakeOwing, Owing)
<1>1. Owing \subseteq Bettors
  BY DEF Owing
<1>2. IsFiniteSet(Owing)
  BY <1>1, FS_Subset, SportsbookAssumption
<1>3. \A b \in Owing : bets[b].stake \in Nat
  BY DEF Owing, HasBet, TypeOK, Bet
<1>4. DOMAIN StakeOwing = Owing
  BY DEF StakeOwing
<1>5. QED
  BY <1>1, <1>2, <1>3, <1>4 DEF StakeOwing, SumFunction

\* A new bet brings its stake into the pool and owes it.
LEMMA PlaceKeepsRefunds ==
  ASSUME TypeOK, TypeOK', RefundsCovered, NEW b \in Bettors, NEW p \in Picks,
         NEW s \in Stakes, PlaceBet(b, p, s)
  PROVE  RefundsCovered'
<1>1. /\ outcome = "PENDING" /\ ~ HasBet(b)
      /\ pool' = pool + s
      /\ bets' = [bets EXCEPT ![b] = [stake |-> s, pick |-> p, claimed |-> FALSE]]
  BY DEF PlaceBet, BettingOpen
<1>2. [stake |-> s, pick |-> p, claimed |-> FALSE] \in Bet
  BY SportsbookAssumption DEF Bet
<1>3. /\ bets'[b] # NoBet /\ bets'[b].stake = s /\ ~ bets'[b].claimed
      /\ \A c \in Bettors \ {b} : bets'[c] = bets[c]
  BY <1>1, <1>2, SportsbookAssumption DEF TypeOK
<1>4. Owing' = Owing \cup {b} /\ b \notin Owing
  BY <1>1, <1>3 DEF Owing, HasBet
<1>5. /\ IsFiniteSet(Owing) /\ Owing \subseteq Bettors
      /\ \A c \in Owing : StakeOwing[c] \in Nat
      /\ SumFunction(StakeOwing) = SumFunctionOnSet(StakeOwing, Owing)
  BY OwingStakes
<1>6. SumFunction(StakeOwing') = SumFunctionOnSet(StakeOwing', Owing')
  BY DEF StakeOwing, SumFunction
<1>7. /\ StakeOwing'[b] = s /\ s \in Nat
      /\ \A c \in Owing : StakeOwing'[c] = StakeOwing[c]
  BY <1>3, <1>4, <1>5, SportsbookAssumption DEF StakeOwing
<1>8. SumFunctionOnSet(StakeOwing', Owing \cup {b})
        = s + SumFunctionOnSet(StakeOwing', Owing)
  BY <1>4, <1>5, <1>7, SumAdd
<1>9. SumFunctionOnSet(StakeOwing', Owing) = SumFunctionOnSet(StakeOwing, Owing)
  BY <1>5, <1>7, SumAgree
<1>10. pool = SumFunction(StakeOwing) /\ pool \in Nat
  BY <1>1 DEF RefundsCovered, StakeOwing, TypeOK
<1>11. pool' = SumFunction(StakeOwing')
  BY <1>1, <1>4, <1>5, <1>6, <1>7, <1>8, <1>9, <1>10
<1>12. QED
  BY <1>11 DEF RefundsCovered, StakeOwing

\* A claim on a voided market takes the bettor's stake out of the pool, and
\* owes it no longer; the pool holds that much.
LEMMA ClaimKeepsRefunds ==
  ASSUME TypeOK, TypeOK', RefundsCovered, NEW b \in Bettors, Claim(b)
  PROVE  RefundsCovered'
<1>1. /\ outcome # "PENDING" /\ outcome' = outcome /\ Payable(b)
      /\ HasBet(b) /\ ~ bets[b].claimed
      /\ bets' = [bets EXCEPT ![b] = Marked(bets[b])]
      /\ pool' = pool - Payout(b)
  BY DEF Claim
<1>2. SUFFICES ASSUME outcome = "VOID" PROVE pool' = SumFunction(StakeOwing')
  BY <1>1 DEF RefundsCovered, StakeOwing
<1>3. bets[b] \in Bet
  BY <1>1 DEF HasBet, TypeOK
<1>4. bets[b].stake \in Nat /\ bets[b].stake <= pool /\ bets[b].pick # "VOID"
  <2>1. bets[b].stake \in Nat /\ bets[b].pick # "VOID"
    BY <1>3 DEF Bet, Picks
  <2>2. QED
    BY <1>1, <1>2, <2>1 DEF Payable
<1>5. Payout(b) = bets[b].stake
  <2>1. Entitlement(b) = bets[b].stake
    BY <1>2, <1>4 DEF Entitlement
  <2>2. QED
    BY <1>4, <2>1 DEF Payout, TypeOK
<1>6. /\ Marked(bets[b]).claimed
      /\ bets'[b] = Marked(bets[b])
      /\ \A c \in Bettors \ {b} : bets'[c] = bets[c]
  BY <1>1, <1>3 DEF Marked, Bet, TypeOK
<1>7. Owing' = Owing \ {b} /\ b \in Owing
  BY <1>1, <1>6 DEF Owing, HasBet
<1>8. /\ IsFiniteSet(Owing)
      /\ \A c \in Owing : StakeOwing[c] \in Nat
      /\ SumFunction(StakeOwing) = SumFunctionOnSet(StakeOwing, Owing)
  BY OwingStakes
<1>9. SumFunction(StakeOwing') = SumFunctionOnSet(StakeOwing', Owing')
  BY DEF StakeOwing, SumFunction
<1>10. /\ StakeOwing[b] = bets[b].stake
       /\ \A c \in Owing' : StakeOwing'[c] = StakeOwing[c]
  BY <1>6, <1>7 DEF StakeOwing, Owing
<1>11. SumFunctionOnSet(StakeOwing, Owing)
         = bets[b].stake + SumFunctionOnSet(StakeOwing, Owing \ {b})
  BY <1>7, <1>8, <1>10, SumRemove
<1>12. IsFiniteSet(Owing')
  BY <1>7, <1>8, FS_Subset
<1>13. SumFunctionOnSet(StakeOwing', Owing') = SumFunctionOnSet(StakeOwing, Owing')
  BY <1>10, <1>12, SumAgree
<1>14. SumFunctionOnSet(StakeOwing, Owing') \in Nat
  BY <1>7, <1>8, <1>12, SumNat
<1>15. pool = SumFunction(StakeOwing)
  BY <1>2 DEF RefundsCovered, StakeOwing
<1>16. QED
  BY <1>1, <1>4, <1>5, <1>7, <1>8, <1>9, <1>11, <1>13, <1>14, <1>15

LEMMA RefundsInductive ==
  TypeOK /\ RefundsCovered /\ [Next]_vars => RefundsCovered'
<1> SUFFICES ASSUME TypeOK, RefundsCovered, [Next]_vars PROVE RefundsCovered'
  OBVIOUS
<1>0. TypeOK'
  BY TypeStep
<1>1. ASSUME NEW final \in FinalOutcomes, ResolveMarket(final)
      PROVE  RefundsCovered'
  BY <1>1 DEF ResolveMarket, RefundsCovered, Owing, HasBet
<1>2. ASSUME NEW b \in Bettors, NEW p \in Picks, NEW s \in Stakes,
             PlaceBet(b, p, s)
      PROVE  RefundsCovered'
  BY <1>0, <1>2, PlaceKeepsRefunds
<1>3. ASSUME NEW b \in Bettors, Claim(b)
      PROVE  RefundsCovered'
  BY <1>0, <1>3, ClaimKeepsRefunds
<1>4. CASE UNCHANGED <<outcome, pool, bets>>
  BY <1>4 DEF RefundsCovered, Owing, HasBet
<1>5. QED
  BY <1>1, <1>2, <1>3, <1>4 DEF Next, CreateMarket, Tick, vars

\* A pending or voided market holds exactly the stakes it has not returned, so
\* a refund is never aborted for want of funds, whoever claimed before.
THEOREM RefundsNeverShort == Spec => []RefundsCovered
<1>1. Init => RefundsCovered
  <2> SUFFICES ASSUME Init PROVE RefundsCovered
    OBVIOUS
  <2>1. Owing = {} /\ pool = 0
    BY DEF Init, Owing, HasBet
  <2>2. SumFunction(StakeOwing) = SumFunctionOnSet(StakeOwing, {})
    BY <2>1 DEF StakeOwing, SumFunction
  <2>3. QED
    BY <2>1, <2>2, SumEmpty DEF RefundsCovered, StakeOwing
<1>2. QED
  BY <1>1, RefundsInductive, TypeCorrect, PTL DEF Spec
=============================================================================
