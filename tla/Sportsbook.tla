----------------------------- MODULE Sportsbook -----------------------------
(***************************************************************************)
(* One market of the sportsbook contract,                                  *)
(* packages/sportsbook/sources/sportsbook.move: created and resolved by    *)
(* the holder of the ResolverCap, bet on by anybody for any bettor id, and *)
(* claimed by anybody.  Stakes come from outside (the vault's withdrawals) *)
(* and claims go outside; `paid` remembers what each bettor's claims       *)
(* returned.  An aborting call is no step.                                 *)
(***************************************************************************)
EXTENDS Integers, FiniteSets, Functions

CONSTANTS
  Bettors,      \* ids bets are keyed by
  Stakes,       \* coin values that are tried
  OddsChoices,  \* odds that are tried, in units of 1 / Bps
  Bps,          \* 10000 in the source: decimal odds 1.00
  U64Max,       \* largest u64
  MaxTime,      \* bound: the clock stops here
  NoBet

VARIABLES
  created,   \* has create_market run?
  odds,      \* home_odds, away_odds, draw_odds
  closesAt,  \* closes_at_ms
  outcome,   \* final outcome, "PENDING" until resolved
  pool,      \* aggregate stake pool
  bets,      \* the bets table
  clock,     \* clock.timestamp_ms()
  paid       \* history: value of the coins each bettor's claims returned

market == <<created, odds, closesAt>>
vars == <<created, odds, closesAt, outcome, pool, bets, clock, paid>>

Picks == {"HOME", "AWAY", "DRAW"}
FinalOutcomes == Picks \cup {"VOID"}
Bet == [stake : Nat, pick : Picks, claimed : BOOLEAN]

\* A bettor id is an object's address, 32 bytes.
ASSUME SportsbookAssumption ==
  /\ IsFiniteSet(Bettors)
  /\ Stakes \subseteq Nat
  /\ OddsChoices \subseteq Nat
  /\ Bps \in Nat \ {0} /\ U64Max \in Nat /\ MaxTime \in Nat
  /\ NoBet \notin Bet

Init ==
  /\ created = FALSE
  /\ odds = [p \in Picks |-> 0]
  /\ closesAt = 0
  /\ outcome = "PENDING"
  /\ pool = 0
  /\ bets = [b \in Bettors |-> NoBet]
  /\ clock = 0
  /\ paid = [b \in Bettors |-> 0]

\* create_market: nothing is asked of the odds or of the closing time.
CreateMarket(o, closes) ==
  /\ ~ created
  /\ created' = TRUE
  /\ odds' = o
  /\ closesAt' = closes
  /\ UNCHANGED <<outcome, pool, bets, clock, paid>>

\* Mutation: a resolved market can be resolved again.
ResolveMarket_Again(final) ==
  /\ created
  /\ outcome' = final
  /\ UNCHANGED <<market, pool, bets, clock, paid>>

\* resolve_market: once, and at any time, also before the market closes.
ResolveMarket(final) ==
  /\ created
  /\ outcome = "PENDING"
  /\ outcome' = final
  /\ UNCHANGED <<market, pool, bets, clock, paid>>

HasBet(b) == bets[b] # NoBet

\* Mutation: bets are taken until the closing time, resolved or not.
BettingOpen_Resolved == created /\ clock < closesAt

BettingOpen == created /\ outcome = "PENDING" /\ clock < closesAt

\* place_bet.  The coin supply keeps the pool within u64.
PlaceBet(b, pick, stake) ==
  /\ BettingOpen
  /\ ~ HasBet(b)
  /\ pool + stake <= U64Max
  /\ pool' = pool + stake
  /\ bets' = [bets EXCEPT ![b] = [stake |-> stake, pick |-> pick,
                                  claimed |-> FALSE]]
  /\ UNCHANGED <<market, outcome, clock, paid>>

\* What the terms of the market give the bet: the stake back if voided, stake
\* times odds if won, nothing if lost.
Entitlement(b) ==
  CASE outcome = "VOID"         -> bets[b].stake
    [] outcome = bets[b].pick   -> (bets[b].stake * odds[bets[b].pick]) \div Bps
    [] OTHER                    -> 0

\* Mutation: the bet is not marked as claimed.
Marked_Never(bet) == bet

Marked(bet) == [bet EXCEPT !.claimed = TRUE]

\* Mutation: a win is split from the pool without the cap.
Payable_Uncapped(b) ==
  CASE outcome = "VOID"         -> bets[b].stake <= pool
    [] outcome = bets[b].pick   -> Entitlement(b) <= pool
    [] OTHER                    -> TRUE

\* The u64 product of claim aborts when it does not fit; the split of a refund
\* aborts when the pool is short, that of a win is capped at the pool.
Payable(b) ==
  CASE outcome = "VOID"         -> bets[b].stake <= pool
    [] outcome = bets[b].pick   -> bets[b].stake * odds[bets[b].pick] <= U64Max
    [] OTHER                    -> TRUE

\* Mutation: the cap is forgotten.
Payout_Uncapped(b) == Entitlement(b)

Payout(b) == IF Entitlement(b) > pool THEN pool ELSE Entitlement(b)

\* claim: anybody, for any bettor, once.
Claim(b) ==
  /\ outcome # "PENDING"
  /\ HasBet(b)
  /\ ~ bets[b].claimed
  /\ Payable(b)
  /\ bets' = [bets EXCEPT ![b] = Marked(bets[b])]
  /\ pool' = pool - Payout(b)
  /\ paid' = [paid EXCEPT ![b] = @ + Payout(b)]
  /\ UNCHANGED <<market, outcome, clock>>

Tick ==
  /\ clock < MaxTime
  /\ clock' = clock + 1
  /\ UNCHANGED <<market, outcome, pool, bets, paid>>

Next ==
  \/ \E o \in [Picks -> OddsChoices], t \in 0 .. MaxTime : CreateMarket(o, t)
  \/ \E final \in FinalOutcomes : ResolveMarket(final)
  \/ \E b \in Bettors, p \in Picks, s \in Stakes : PlaceBet(b, p, s)
  \/ \E b \in Bettors : Claim(b)
  \/ Tick

Spec == Init /\ [][Next]_vars

\* Somebody submits the claims that the contract accepts.
FairSpec == Spec /\ \A b \in Bettors : WF_vars(Claim(b))

-----------------------------------------------------------------------------
TypeOK ==
  /\ created \in BOOLEAN
  /\ odds \in [Picks -> Nat]
  /\ closesAt \in Nat
  /\ outcome \in FinalOutcomes \cup {"PENDING"}
  /\ pool \in Nat
  /\ bets \in [Bettors -> Bet \cup {NoBet}]
  /\ clock \in Nat
  /\ paid \in [Bettors -> Nat]

Owing == {b \in Bettors : HasBet(b) /\ ~ bets[b].claimed}

\* Whatever was claimed before, in whatever order, the pool of a voided (or
\* still pending) market holds every stake that was not refunded: no refund
\* ever aborts for lack of funds.
RefundsCovered ==
  outcome \in {"VOID", "PENDING"} =>
    pool = SumFunction([b \in Owing |-> bets[b].stake])

\* Nobody is paid more than the terms give, nor anything before the market is
\* resolved or without having claimed, however often claim is called.
PaidWithinTerms ==
  \A b \in Bettors :
    /\ paid[b] > 0 => outcome # "PENDING" /\ HasBet(b) /\ bets[b].claimed
    /\ HasBet(b) => paid[b] <= Entitlement(b)

\* The insolvency the source accepts ("demo accepts insolvency risk") is the
\* only way to be paid short: a settled bet got less than its terms only if
\* the pool ran dry, and then nothing can flow into it any more.
ShortOnlyWhenDry ==
  \A b \in Bettors :
    HasBet(b) /\ bets[b].claimed /\ paid[b] < Entitlement(b) => pool = 0

Settled(b) == HasBet(b) /\ bets[b].claimed

PayoutFits(b) ==
  /\ outcome # "PENDING"
  /\ HasBet(b)
  /\ bets[b].stake * odds[bets[b].pick] <= U64Max

\* Every bet of a resolved market whose payout fits a u64 is settled, if
\* claims are submitted: nothing another bettor does blocks it.
BetsSettle == \A b \in Bettors : PayoutFits(b) ~> Settled(b)
=============================================================================
