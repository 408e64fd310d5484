------------------------------- MODULE BetTick -------------------------------
(***************************************************************************)
(* The betting agent: agent/src/index.ts (runTick), iwallet.ts (placeBet), *)
(* walrus.ts (the audit trail) and server.ts (POST /tick, GET /state), with *)
(* the row status that betting-ui/src/lib/api.ts derives.                  *)
(*                                                                         *)
(* server.ts starts a tick per request and does not serialise them, so     *)
(* several run at once, interleaved at every await.  All bets are for one  *)
(* identity: a market (Sportsbook!PlaceBet) holds at most one of them.  A  *)
(* bet's transaction is atomic: withdrawal and place_bet, or neither.      *)
(*                                                                         *)
(* External: which picks Claude returns, the vault's budget (a number of   *)
(* stakes), and that the deployed package accepts the call as iwallet.ts   *)
(* spells it.  The keys are set, so no bet is a stub.                      *)
(***************************************************************************)
EXTENDS Naturals, Sequences, FiniteSets, SequencesExt

CONSTANTS
  Handlers,        \* requests the harness serves at the same time
  Events,          \* what picks are about
  PickLists,       \* what pickBets may return
  PoolSize,        \* number of markets in MARKET_POOL
  Budget,          \* stakes the policy allows
  MaxMarkets,      \* bound: markets in all
  MaxTicks,        \* bound: ticks run
  MaxFaults,       \* bound: failed external calls
  NoPick           \* no bet in the market

Outcomes == {"home", "away", "draw"}
PickOf == [event : Events, outcome : Outcomes]

\* picks.ts drops what is no pick, so a list holds nothing else.
ASSUME BetTickAssumption ==
  /\ \A picks \in PickLists : picks \in Seq(PickOf)
  /\ PoolSize \in Nat /\ Budget \in Nat
  /\ MaxMarkets \in Nat /\ MaxTicks \in Nat /\ MaxFaults \in Nat
  /\ 0 < PoolSize /\ PoolSize <= MaxMarkets

VARIABLES
  minting,   \* RESOLVER_CAP_ID is set: a market is minted per bet
  markets,   \* the markets on chain: what they offer, and the agent's bet
  job,       \* what each handler is doing: the locals of its runTick
  lastTick,  \* server.ts: the result /state serves
  landed,    \* history: bets on chain, as <<tick, index of the pick>>
  trail,     \* audit blobs written, as <<tick, index of the pick>>
  ticks,     \* number of ticks started so far; their ids
  faults     \* number of faults so far

vars == <<minting, markets, job, lastTick, landed, trail, ticks, faults>>

Idle == [pc |-> "idle", id |-> 0, picks |-> <<>>, next |-> 0, cursor |-> 0,
         market |-> 0, bets |-> <<>>, notes |-> {}]

\* Every market the repository creates, by createMarketForPick or by
\* setup-markets.ts, has draw_odds 0.
NewMarket == [offers |-> {"home", "away"}, bet |-> NoPick]

Init ==
  /\ minting \in BOOLEAN
  /\ markets = [m \in 1 .. PoolSize |-> NewMarket]
  /\ job = [h \in Handlers |-> Idle]
  /\ lastTick = Idle
  /\ landed = {}
  /\ trail = {}
  /\ ticks = 0
  /\ faults = 0

Fault == faults < MaxFaults /\ faults' = faults + 1

At(h, pc) == job[h].pc = pc
Pick(h) == job[h].picks[job[h].next]
BetId(h) == <<job[h].id, job[h].next>>

\* Mutation: an off-by-one, the loop runs past the last pick.
NextPick_OffByOne(j) ==
  [j EXCEPT !.next = @ + 1,
            !.pc = IF j.next > Len(j.picks) THEN "respond" ELSE "route"]

\* The loop over the picks: go on with the next one, or the tick is over.
NextPick(j) ==
  [j EXCEPT !.next = @ + 1,
            !.pc = IF j.next = Len(j.picks) THEN "respond" ELSE "route"]

\* A pick's failure is caught, noted under its event, and the loop goes on.
Noted(j) == NextPick([j EXCEPT !.notes = @ \cup {j.picks[j.next].event}])

\* A pick that is done joins the tick's bets.
Recorded(j) == NextPick([j EXCEPT !.bets = Append(@, j.picks[j.next])])

Tick(h) ==
  /\ At(h, "idle")
  /\ ticks < MaxTicks
  /\ ticks' = ticks + 1
  /\ job' = [job EXCEPT ![h] = [Idle EXCEPT !.pc = "pick", !.id = ticks + 1]]
  /\ UNCHANGED <<minting, markets, lastTick, landed, trail, faults>>

\* Odds, memories and picks arrive, and a new IWalletClient is made: its
\* market cursor starts at 0.
PickBets(h) ==
  /\ At(h, "pick")
  /\ \E picks \in PickLists :
       job' = [job EXCEPT ![h].picks = picks, ![h].next = 1, ![h].cursor = 0,
                          ![h].pc = IF picks = <<>> THEN "respond" ELSE "route"]
  /\ UNCHANGED <<minting, markets, lastTick, landed, trail, ticks, faults>>

\* fetchUpcomingOdds or pickBets throws: answered 500, lastTick stays.
PickBetsFails(h) ==
  /\ At(h, "pick")
  /\ Fault
  /\ job' = [job EXCEPT ![h] = Idle]
  /\ UNCHANGED <<minting, markets, lastTick, landed, trail, ticks>>

MarketMinted == markets' = Append(markets, NewMarket)

\* Mutation: the market minted last is used again.
MintMarket_Reuses(h) ==
  /\ At(h, "route") /\ minting
  /\ IF markets = <<>> THEN MarketMinted ELSE UNCHANGED markets
  /\ job' = [job EXCEPT ![h].market = Len(markets'), ![h].pc = "submit"]
  /\ UNCHANGED <<minting, lastTick, landed, trail, ticks, faults>>

\* createMarketForPick, in a transaction of its own.
MintMarket(h) ==
  /\ At(h, "route") /\ minting
  /\ Len(markets) < MaxMarkets
  /\ MarketMinted
  /\ job' = [job EXCEPT ![h].market = Len(markets) + 1, ![h].pc = "submit"]
  /\ UNCHANGED <<minting, lastTick, landed, trail, ticks, faults>>

\* It throws; the market may have been created all the same.
MintMarketFails(h) ==
  /\ At(h, "route") /\ minting
  /\ Fault
  /\ \/ UNCHANGED markets
     \/ Len(markets) < MaxMarkets /\ MarketMinted
  /\ job' = [job EXCEPT ![h] = Noted(@)]
  /\ UNCHANGED <<minting, lastTick, landed, trail, ticks>>

\* nextMarketId: round robin over the pool, from this client's cursor.
NextMarketId(h) ==
  /\ At(h, "route") /\ ~ minting
  /\ job' = [job EXCEPT ![h].market = (job[h].cursor % PoolSize) + 1,
                        ![h].cursor = @ + 1,
                        ![h].pc = "submit"]
  /\ UNCHANGED <<minting, markets, lastTick, landed, trail, ticks, faults>>

\* The transaction goes through: budget left, and no bet of this identity in
\* the market yet.
Accepted(h) ==
  Cardinality(landed) < Budget /\ markets[job[h].market].bet = NoPick

BetLands(h) ==
  /\ Accepted(h)
  /\ markets' = [markets EXCEPT ![job[h].market].bet = Pick(h)]
  /\ landed' = landed \cup {BetId(h)}

PlaceBet(h) ==
  /\ At(h, "submit")
  /\ BetLands(h)
  /\ job' = [job EXCEPT ![h].pc = "audit"]
  /\ UNCHANGED <<minting, lastTick, trail, ticks, faults>>

\* Mutation: the bet is tried again for as long as it aborts.
PlaceBetAborts_Retries(h) ==
  /\ At(h, "submit")
  /\ ~ Accepted(h)
  /\ UNCHANGED vars

\* It aborts.  Either the call throws, or it comes back with a digest, whose
\* effects placeBet does not ask for.
PlaceBetAborts(h) ==
  /\ At(h, "submit")
  /\ ~ Accepted(h)
  /\ \/ job' = [job EXCEPT ![h] = Noted(@)]
     \/ job' = [job EXCEPT ![h].pc = "audit"]
  /\ UNCHANGED <<minting, markets, lastTick, landed, trail, ticks, faults>>

\* The proof or the call fails, the latter after it was executed, perhaps.
PlaceBetFails(h) ==
  /\ At(h, "submit")
  /\ Fault
  /\ \/ UNCHANGED <<markets, landed>>
     \/ BetLands(h)
  /\ job' = [job EXCEPT ![h] = Noted(@)]
  /\ UNCHANGED <<minting, lastTick, trail, ticks>>

\* logAuditTrail, after which the bet is recorded in the tick's result.
LogAuditTrail(h) ==
  /\ At(h, "audit")
  /\ trail' = trail \cup {BetId(h)}
  /\ job' = [job EXCEPT ![h] = Recorded(@)]
  /\ UNCHANGED <<minting, markets, lastTick, landed, ticks, faults>>

\* Mutation: a failed audit is swallowed.
LogAuditTrailFails_Silent(h) ==
  /\ At(h, "audit")
  /\ Fault
  /\ job' = [job EXCEPT ![h] = NextPick(@)]
  /\ UNCHANGED <<minting, markets, lastTick, landed, trail, ticks>>

\* The publisher refuses the blob: noted as a failed bet.
LogAuditTrailFails(h) ==
  /\ At(h, "audit")
  /\ Fault
  /\ job' = [job EXCEPT ![h] = Noted(@)]
  /\ UNCHANGED <<minting, markets, lastTick, landed, trail, ticks>>

Respond(h) ==
  /\ At(h, "respond")
  /\ lastTick' = job[h]
  /\ job' = [job EXCEPT ![h] = Idle]
  /\ UNCHANGED <<minting, markets, landed, trail, ticks, faults>>

Step(h) ==
  \/ PickBets(h) \/ MintMarket(h) \/ NextMarketId(h)
  \/ PlaceBet(h) \/ PlaceBetAborts(h) \/ LogAuditTrail(h) \/ Respond(h)

Failure(h) ==
  \/ PickBetsFails(h) \/ MintMarketFails(h) \/ PlaceBetFails(h)
  \/ LogAuditTrailFails(h)

Next == \E h \in Handlers : Tick(h) \/ Step(h) \/ Failure(h)

Spec == Init /\ [][Next]_vars

\* Every call of a tick returns or throws.
FairSpec == Spec /\ \A h \in Handlers : WF_vars(Step(h) \/ Failure(h))

-----------------------------------------------------------------------------
TypeOK ==
  /\ \A m \in DOMAIN markets :
       /\ markets[m].offers \subseteq Outcomes
       /\ markets[m].bet = NoPick \/ markets[m].bet.outcome \in Outcomes
  /\ Len(markets) \in PoolSize .. MaxMarkets
  /\ \A h \in Handlers :
       /\ job[h].pc \in {"idle", "pick", "route", "submit", "audit", "respond"}
       /\ job[h].id \in 0 .. ticks
       /\ job[h].next \in 0 .. Len(job[h].picks) + 1
       /\ job[h].pc \in {"route", "submit", "audit"} =>
            job[h].next \in DOMAIN job[h].picks
       /\ job[h].market \in 0 .. Len(markets)
  /\ landed \subseteq (1 .. ticks) \X Nat /\ trail \subseteq (1 .. ticks) \X Nat
  /\ ticks \in 0 .. MaxTicks /\ faults \in 0 .. MaxFaults

\* Nothing a tick did on chain drops out of its result: each bet that landed
\* for a pick already dealt with is among the tick's bets, or its event is
\* named in a note, whatever failed on the way and whatever ran beside it.
EveryBetAccounted ==
  \A h \in Handlers : \A i \in 1 .. job[h].next - 1 :
    <<job[h].id, i>> \in landed =>
      \/ Contains(job[h].bets, job[h].picks[i])
      \/ job[h].picks[i].event \in job[h].notes

\* iwallet.ts:60-64, minting "so we never hit EBetAlreadyPlaced": a bet is
\* submitted to a market nobody has bet on, also with ticks side by side.
FreshMarket ==
  minting =>
    \A h \in Handlers :
      At(h, "submit") => markets[job[h].market].bet = NoPick

\* Every request for a tick is answered.
TickAnswered == \A h \in Handlers : ~ At(h, "idle") ~> At(h, "idle")

-----------------------------------------------------------------------------
(***************************************************************************)
(* What the comments and the screens say.                                  *)
(***************************************************************************)
\* The row api.ts shows for the i-th pick of the last tick.
Status(i) ==
  IF Contains(lastTick.bets, lastTick.picks[i]) THEN "onchain" ELSE "reverted"

\* api.ts:33-34, a row without a digest is one with "No successful bet":
\* shown as reverted, it has no bet on chain.
RevertedMeansNoBet ==
  \A i \in DOMAIN lastTick.picks :
    Status(i) = "reverted" => <<lastTick.id, i>> \notin landed

\* AgentFeed.tsx, "proof-verified tx": a row shown as on chain has its bet
\* on chain.
OnchainMeansLanded ==
  \A i \in DOMAIN lastTick.picks :
    Status(i) = "onchain" => <<lastTick.id, i>> \in landed
=============================================================================
