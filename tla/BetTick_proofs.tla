--------------------------- MODULE BetTick_proofs ---------------------------
(***************************************************************************)
(* Theorems about the betting agent, for any number of handlers, lists of  *)
(* picks and bounds.  One inductive invariant carries all three: what a    *)
(* handler's job may be (Fit), that ticks running side by side have ids    *)
(* and, when minting, markets of their own (OwnTick, OwnMarket), and that  *)
(* no bet lands ahead of the pick its tick is at (NotAhead).               *)
(***************************************************************************)
EXTENDS BetTick, TLAPS

Job == [pc : {"idle", "pick", "route", "submit", "audit", "respond"},
        id : Nat, picks : Seq(PickOf), next : Nat, cursor : Nat,
        market : Nat, bets : Seq(PickOf), notes : SUBSET Events]
Market == [offers : SUBSET Outcomes, bet : PickOf \cup {NoPick}]

Types ==
  /\ minting \in BOOLEAN
  /\ markets \in Seq(Market)
  /\ Len(markets) \in PoolSize .. MaxMarkets
  /\ job \in [Handlers -> Job]
  /\ landed \subseteq (1 .. ticks) \X Nat /\ trail \subseteq (1 .. ticks) \X Nat
  /\ ticks \in 0 .. MaxTicks /\ faults \in 0 .. MaxFaults

\* A job among t ticks and n markets.
Fit(j, t, n) ==
  /\ j.id <= t /\ j.market <= n
  /\ j.pc # "idle" => j.id >= 1
  /\ j.pc \in {"idle", "pick"} => j.next = 0
  /\ j.pc \in {"route", "submit", "audit"} => j.next \in 1 .. Len(j.picks)
  /\ j.pc = "submit" => j.market >= 1
  /\ j.next <= Len(j.picks) + 1

Fits == \A h \in Handlers : Fit(job[h], ticks, Len(markets))

Running(h) == job[h].pc # "idle"

OwnTick ==
  \A g, h \in Handlers : g # h /\ Running(g) /\ Running(h) =>
    job[g].id # job[h].id

OwnMarket ==
  minting => \A g, h \in Handlers :
    g # h /\ At(g, "submit") /\ At(h, "submit") =>
      job[g].market # job[h].market

NotAhead ==
  \A h \in Handlers : Running(h) => \A b \in landed : b[1] = job[h].id =>
    b[2] < job[h].next \/ (b[2] = job[h].next /\ At(h, "audit"))

IInv ==
  /\ Types /\ Fits /\ OwnTick /\ OwnMarket /\ FreshMarket
  /\ NotAhead /\ EveryBetAccounted

-----------------------------------------------------------------------------
\* Going on with the next pick touches the loop's counter and place only.
LEMMA NextPickJob ==
  ASSUME NEW j \in Job, j.next \in 1 .. Len(j.picks)
  PROVE  /\ NextPick(j) \in Job
         /\ NextPick(j).next = j.next + 1
         /\ NextPick(j).pc \in {"route", "respond"}
         /\ NextPick(j).pc = "route" => j.next + 1 <= Len(j.picks)
         /\ NextPick(j).id = j.id /\ NextPick(j).picks = j.picks
         /\ NextPick(j).market = j.market
         /\ NextPick(j).bets = j.bets /\ NextPick(j).notes = j.notes
<1>1. /\ j.next \in Nat /\ Len(j.picks) \in Nat /\ j.next <= Len(j.picks)
      /\ j.next + 1 \in Nat
  BY DEF Job
<1>2. CASE j.next = Len(j.picks)
  <2>1. NextPick(j) = [j EXCEPT !.next = j.next + 1, !.pc = "respond"]
    BY <1>2 DEF NextPick
  <2>2. QED
    BY <1>1, <2>1 DEF Job
<1>3. CASE j.next # Len(j.picks)
  <2>1. NextPick(j) = [j EXCEPT !.next = j.next + 1, !.pc = "route"]
    BY <1>3 DEF NextPick
  <2>2. j.next + 1 <= Len(j.picks)
    BY <1>1, <1>3
  <2>3. QED
    BY <1>1, <2>1, <2>2 DEF Job
<1>4. QED
  BY <1>2, <1>3

\* The same for a pick that failed: its event is noted.
LEMMA NotedJob ==
  ASSUME NEW j \in Job, j.next \in 1 .. Len(j.picks)
  PROVE  /\ Noted(j) \in Job
         /\ Noted(j).next = j.next + 1
         /\ Noted(j).pc \in {"route", "respond"}
         /\ Noted(j).pc = "route" => j.next + 1 <= Len(j.picks)
         /\ Noted(j).id = j.id /\ Noted(j).picks = j.picks
         /\ Noted(j).market = j.market /\ Noted(j).bets = j.bets
         /\ Noted(j).notes = j.notes \cup {j.picks[j.next].event}
<1> DEFINE k == [j EXCEPT !.notes = j.notes \cup {j.picks[j.next].event}]
<1>1. j.picks[j.next] \in PickOf
  BY DEF Job
<1>2. /\ k \in Job /\ k.next = j.next /\ k.picks = j.picks /\ k.id = j.id
      /\ k.market = j.market /\ k.bets = j.bets
      /\ k.notes = j.notes \cup {j.picks[j.next].event}
  BY <1>1 DEF Job, PickOf
<1>3. Noted(j) = NextPick(k)
  BY DEF Noted
<1> HIDE DEF k
<1>4. QED
  BY <1>2, <1>3, NextPickJob

\* And for a bet that is recorded in the tick's result.
LEMMA RecordedJob ==
  ASSUME NEW j \in Job, j.next \in 1 .. Len(j.picks),
         NEW k, k = Recorded(j)
  PROVE  /\ k \in Job
         /\ k.next = j.next + 1
         /\ k.pc \in {"route", "respond"}
         /\ k.pc = "route" => j.next + 1 <= Len(j.picks)
         /\ k.id = j.id /\ k.picks = j.picks
         /\ k.market = j.market /\ k.notes = j.notes
         /\ Contains(k.bets, j.picks[j.next])
         /\ \A p : Contains(j.bets, p) => Contains(k.bets, p)
<1> DEFINE p0 == j.picks[j.next]
           b == [j EXCEPT !.bets = Append(j.bets, p0)]
<1>1. p0 \in PickOf /\ j.bets \in Seq(PickOf)
  BY DEF Job
<1>2. /\ b \in Job /\ b.next = j.next /\ b.picks = j.picks /\ b.id = j.id
      /\ b.market = j.market /\ b.notes = j.notes
      /\ b.bets = Append(j.bets, p0)
  <2> DEFINE bets == Append(j.bets, p0)
  <2>1. bets \in Seq(PickOf)
    BY <1>1
  <2> HIDE DEF bets, p0
  <2>2. b = [j EXCEPT !.bets = bets]
    BY DEF bets, p0
  <2> HIDE DEF b
  <2>3. QED
    BY <2>1, <2>2 DEF Job, bets
<1>3. /\ Len(b.bets) = Len(j.bets) + 1 /\ Len(j.bets) \in Nat
      /\ b.bets[Len(j.bets) + 1] = p0
      /\ \A i \in 1 .. Len(j.bets) : b.bets[i] = j.bets[i]
  BY <1>1, <1>2
<1>4. Contains(b.bets, p0) /\ \A p : Contains(j.bets, p) => Contains(b.bets, p)
  BY <1>3 DEF Contains
<1>5. k = NextPick(b)
  BY DEF Recorded
<1> HIDE DEF b, p0
<1>6. /\ NextPick(b) \in Job
      /\ NextPick(b).next = j.next + 1
      /\ NextPick(b).pc \in {"route", "respond"}
      /\ NextPick(b).pc = "route" => j.next + 1 <= Len(j.picks)
      /\ NextPick(b).id = j.id /\ NextPick(b).picks = j.picks
      /\ NextPick(b).market = j.market
      /\ NextPick(b).bets = b.bets /\ NextPick(b).notes = j.notes
  BY <1>2, NextPickJob
<1>7. QED
  BY <1>4, <1>5, <1>6 DEF p0

-----------------------------------------------------------------------------
\* A job that fits goes on fitting as ticks start and markets are minted.
LEMMA FitGrows ==
  ASSUME NEW j \in Job, NEW t \in Nat, NEW n \in Nat, Fit(j, t, n),
         NEW t2 \in Nat, NEW n2 \in Nat, t <= t2, n <= n2
  PROVE  Fit(j, t2, n2)
<1>1. j.id \in Nat /\ j.market \in Nat
  BY DEF Job
<1>2. j.id <= t2 /\ j.market <= n2
  BY <1>1 DEF Fit
<1>3. QED
  BY <1>2 DEF Fit

\* One handler's job changes to one that fits; the others' jobs still do.
LEMMA JobChange ==
  ASSUME IInv, NEW h \in Handlers, NEW j \in Job, job' = [job EXCEPT ![h] = j],
         Fit(j, ticks', Len(markets')),
         ticks' \in Nat, ticks <= ticks',
         Len(markets') \in Nat, Len(markets) <= Len(markets')
  PROVE  /\ job' \in [Handlers -> Job]
         /\ Fits'
         /\ job'[h] = j
         /\ \A g \in Handlers \ {h} : job'[g] = job[g]
<1>1. /\ job \in [Handlers -> Job] /\ ticks \in Nat /\ Len(markets) \in Nat
      /\ Fits
  BY BetTickAssumption DEF IInv, Types
<1>2. /\ job' \in [Handlers -> Job] /\ job'[h] = j
      /\ \A g \in Handlers \ {h} : job'[g] = job[g]
  BY <1>1
<1>3. ASSUME NEW g \in Handlers \ {h} PROVE Fit(job'[g], ticks', Len(markets'))
  <2>1. Fit(job[g], ticks, Len(markets)) /\ job'[g] = job[g] /\ job[g] \in Job
    BY <1>1, <1>2 DEF Fits
  <2>2. QED
    BY <1>1, <2>1, FitGrows
<1>4. QED
  BY <1>2, <1>3 DEF Fits

\* The ways a running job moves on, where bets that landed are concerned: it
\* stays with its pick; it is done with it, the pick recorded or noted; or it
\* gets its picks.
Stays(j, k) ==
  /\ k.next = j.next /\ k.picks = j.picks
  /\ k.bets = j.bets /\ k.notes = j.notes
  /\ j.pc # "audit"

Done(j, k) ==
  /\ k.next = j.next + 1 /\ k.picks = j.picks
  /\ j.notes \subseteq k.notes
  /\ \A p : Contains(j.bets, p) => Contains(k.bets, p)
  /\ Contains(k.bets, j.picks[j.next]) \/ j.picks[j.next].event \in k.notes

Starts(j, k) == j.pc = "pick" /\ k.next = 1

\* A running job moves on; nothing lands, or the bet it submits does, in
\* which case it goes on to the audit or is done with the pick.
LEMMA MovesOn ==
  ASSUME IInv, NEW h \in Handlers, NEW k \in Job, job' = [job EXCEPT ![h] = k],
         Running(h), k.pc # "idle", k.id = job[h].id,
         Stays(job[h], k) \/ Done(job[h], k) \/ Starts(job[h], k),
         \/ landed' = landed
         \/ /\ landed' = landed \cup {BetId(h)}
            /\ ~ Starts(job[h], k)
            /\ Stays(job[h], k) => k.pc = "audit"
  PROVE  OwnTick' /\ NotAhead' /\ EveryBetAccounted'
<1>1. /\ job \in [Handlers -> Job] /\ Fits /\ OwnTick /\ NotAhead
      /\ EveryBetAccounted
      /\ landed \subseteq (1 .. ticks) \X Nat
  BY DEF IInv, Types
<1>2. /\ job[h] \in Job /\ job'[h] = k
      /\ \A g \in Handlers \ {h} : job'[g] = job[g]
  BY <1>1
<1>3. OwnTick'
  BY <1>1, <1>2 DEF OwnTick, Running
<1>4. /\ \A g \in Handlers \ {h} : Running(g) => job[g].id # job[h].id
      /\ job[h].next \in Nat /\ k.next \in Nat
      /\ BetId(h)[1] = job[h].id /\ BetId(h)[2] = job[h].next
  BY <1>1, <1>2 DEF OwnTick, BetId, Job
<1>5. \A b \in landed : b[1] \in Nat /\ b[2] \in Nat /\ b = <<b[1], b[2]>>
  BY <1>1
<1>6. NotAhead'
  <2>1. ASSUME NEW g \in Handlers \ {h}, Running(g), NEW b \in landed',
               b[1] = job[g].id
        PROVE  b[2] < job[g].next \/ (b[2] = job[g].next /\ At(g, "audit"))
    <3>1. b \in landed
      BY <1>4, <2>1
    <3>2. QED
      BY <1>1, <2>1, <3>1 DEF NotAhead
  <2>2. ASSUME NEW b \in landed', b[1] = k.id
        PROVE  b[2] < k.next \/ (b[2] = k.next /\ k.pc = "audit")
    <3>1. CASE b \in landed
      <4>1. b[2] < job[h].next \/ (b[2] = job[h].next /\ job[h].pc = "audit")
        BY <1>1, <2>2, <3>1 DEF NotAhead, At
      <4>2. CASE Stays(job[h], k)
        BY <4>1, <4>2 DEF Stays
      <4>3. CASE Done(job[h], k)
        BY <1>4, <1>5, <3>1, <4>1, <4>3 DEF Done
      <4>4. CASE Starts(job[h], k)
        <5>1. job[h].next = 0 /\ job[h].pc = "pick"
          BY <1>1, <4>4 DEF Starts, Fits, Fit
        <5>2. QED
          BY <1>5, <3>1, <4>1, <5>1
      <4>5. QED
        BY <4>2, <4>3, <4>4
    <3>2. CASE b \notin landed
      <4>1. b[2] = job[h].next /\ ~ Starts(job[h], k)
            /\ (Stays(job[h], k) => k.pc = "audit")
        BY <1>4, <2>2, <3>2
      <4>2. CASE Stays(job[h], k)
        BY <4>1, <4>2 DEF Stays
      <4>3. CASE Done(job[h], k)
        BY <1>4, <4>1, <4>3 DEF Done
      <4>4. QED
        BY <4>1, <4>2, <4>3
    <3>3. QED
      BY <3>1, <3>2
  <2>3. QED
    BY <1>2, <2>1, <2>2 DEF NotAhead, Running, At
<1>7. EveryBetAccounted'
  <2>1. ASSUME NEW g \in Handlers \ {h}, NEW i \in 1 .. job[g].next - 1,
               <<job[g].id, i>> \in landed'
        PROVE  \/ Contains(job[g].bets, job[g].picks[i])
               \/ job[g].picks[i].event \in job[g].notes
    <3>1. Running(g)
      <4>1. job[g].next # 0
        BY <2>1
      <4>2. QED
        BY <1>1, <4>1 DEF Fits, Fit, Running
    <3>2. <<job[g].id, i>> \in landed
      BY <1>4, <2>1, <3>1 DEF BetId
    <3>3. QED
      BY <1>1, <2>1, <3>2 DEF EveryBetAccounted
  <2>2. ASSUME NEW i \in 1 .. k.next - 1, <<k.id, i>> \in landed'
        PROVE  \/ Contains(k.bets, k.picks[i])
               \/ k.picks[i].event \in k.notes
    <3>1. CASE Stays(job[h], k)
      <4>1. i \in 1 .. job[h].next - 1 /\ <<job[h].id, i>> \in landed
        BY <1>4, <2>2, <3>1 DEF Stays, BetId
      <4>2. QED
        BY <1>1, <3>1, <4>1 DEF EveryBetAccounted, Stays
    <3>2. CASE Done(job[h], k)
      <4>1. CASE i = job[h].next
        BY <3>2, <4>1 DEF Done
      <4>2. CASE i # job[h].next
        <5>1. i \in 1 .. job[h].next - 1 /\ <<job[h].id, i>> \in landed
          BY <1>4, <2>2, <3>2, <4>2 DEF Done, BetId
        <5>2. \/ Contains(job[h].bets, job[h].picks[i])
              \/ job[h].picks[i].event \in job[h].notes
          BY <1>1, <5>1 DEF EveryBetAccounted
        <5>3. QED
          BY <3>2, <5>2 DEF Done
      <4>3. QED
        BY <4>1, <4>2
    <3>3. CASE Starts(job[h], k)
      BY <2>2, <3>3 DEF Starts
    <3>4. QED
      BY <3>1, <3>2, <3>3
  <2>3. QED
    BY <1>2, <2>1, <2>2 DEF EveryBetAccounted
<1>8. QED
  BY <1>3, <1>6, <1>7

-----------------------------------------------------------------------------
LEMMA Minted ==
  ASSUME IInv, MarketMinted
  PROVE  /\ markets' \in Seq(Market) /\ Len(markets') = Len(markets) + 1
         /\ \A m \in 1 .. Len(markets) : markets'[m] = markets[m]
         /\ markets'[Len(markets) + 1].bet = NoPick
<1>1. markets \in Seq(Market)
  BY DEF IInv, Types
<1>2. NewMarket \in Market /\ NewMarket.bet = NoPick
  BY DEF NewMarket, Market, Outcomes
<1>3. QED
  BY <1>1, <1>2 DEF MarketMinted

LEMMA Landing ==
  ASSUME IInv, NEW h \in Handlers, At(h, "submit"), BetLands(h)
  PROVE  /\ markets' \in Seq(Market) /\ Len(markets') = Len(markets)
         /\ \A m \in 1 .. Len(markets) :
              m # job[h].market => markets'[m] = markets[m]
         /\ landed' = landed \cup {BetId(h)}
         /\ landed' \subseteq (1 .. ticks) \X Nat
<1>1. /\ markets \in Seq(Market) /\ job[h] \in Job
      /\ Fit(job[h], ticks, Len(markets))
      /\ landed \subseteq (1 .. ticks) \X Nat /\ ticks \in Nat
  BY BetTickAssumption DEF IInv, Types, Fits
<1>2. /\ job[h].id \in 1 .. ticks /\ job[h].next \in 1 .. Len(job[h].picks)
      /\ job[h].market \in 1 .. Len(markets)
      /\ job[h].picks \in Seq(PickOf)
  BY <1>1 DEF Fit, At, Job
<1>3. Pick(h) \in PickOf
  BY <1>2 DEF Pick
<1> DEFINE m0 == job[h].market
           taken == [markets[m0] EXCEPT !.bet = Pick(h)]
<1>4. markets[m0] \in Market
  BY <1>1, <1>2
<1>5. taken \in Market
  BY <1>3, <1>4 DEF Market
<1>6. markets' = [markets EXCEPT ![m0] = taken]
  BY DEF BetLands
<1>7. m0 \in 1 .. Len(markets)
  BY <1>2
<1> HIDE DEF taken, m0
<1>8. /\ markets' \in Seq(Market) /\ Len(markets') = Len(markets)
      /\ \A m \in 1 .. Len(markets) : m # m0 => markets'[m] = markets[m]
  BY <1>1, <1>5, <1>6, <1>7
<1>9. landed' = landed \cup {BetId(h)} /\ BetId(h) \in (1 .. ticks) \X Nat
  BY <1>1, <1>2 DEF BetLands, BetId, Job
<1>10. QED
  BY <1>1, <1>8, <1>9 DEF m0

\* A handler that goes elsewhere than to submit a bet leaves the other
\* handlers' markets as they are, but for the bet it has just submitted.
LEMMA MarketsKept ==
  ASSUME IInv, NEW h \in Handlers, NEW k \in Job, job' = [job EXCEPT ![h] = k],
         k.pc # "submit", minting' = minting,
         \A m \in 1 .. Len(markets) :
           \/ markets'[m] = markets[m]
           \/ At(h, "submit") /\ m = job[h].market
  PROVE  OwnMarket' /\ FreshMarket'
<1>1. /\ job \in [Handlers -> Job] /\ Fits /\ OwnMarket /\ FreshMarket
  BY DEF IInv, Types
<1>2. job'[h] = k /\ \A g \in Handlers \ {h} : job'[g] = job[g]
  BY <1>1
<1>3. OwnMarket'
  BY <1>1, <1>2 DEF OwnMarket, At
<1>4. ASSUME minting, NEW g \in Handlers \ {h}, At(g, "submit")
      PROVE  markets'[job[g].market].bet = NoPick
  <2>1. job[g].market \in 1 .. Len(markets)
    <3>1. job[g].market \in Nat
      BY <1>1 DEF Job
    <3>2. job[g].market <= Len(markets) /\ job[g].market >= 1
      BY <1>1, <1>4 DEF Fits, Fit, At
    <3>3. Len(markets) \in Nat
      BY BetTickAssumption DEF IInv, Types
    <3>4. QED
      BY <3>1, <3>2, <3>3
  <2>2. markets'[job[g].market] = markets[job[g].market]
    BY <1>1, <1>4, <2>1 DEF OwnMarket
  <2>3. QED
    BY <1>1, <1>4, <2>2 DEF FreshMarket
<1>5. FreshMarket'
  BY <1>2, <1>4 DEF FreshMarket, At
<1>6. QED
  BY <1>3, <1>5

-----------------------------------------------------------------------------
\* One step of a running handler h, whose job becomes k: what each action
\* below has to show of itself.
LEMMA StepKeepsIInv ==
  ASSUME IInv, NEW h \in Handlers, NEW k \in Job, job' = [job EXCEPT ![h] = k],
         Running(h), k.pc # "idle", k.id = job[h].id,
         Fit(k, ticks, Len(markets')),
         Stays(job[h], k) \/ Done(job[h], k) \/ Starts(job[h], k),
         \/ landed' = landed
         \/ /\ landed' = landed \cup {BetId(h)}
            /\ ~ Starts(job[h], k)
            /\ Stays(job[h], k) => k.pc = "audit",
         minting' = minting, ticks' = ticks, faults' \in 0 .. MaxFaults,
         markets' \in Seq(Market), Len(markets') \in PoolSize .. MaxMarkets,
         Len(markets) <= Len(markets'),
         landed' \subseteq (1 .. ticks) \X Nat,
         trail' \subseteq (1 .. ticks) \X Nat,
         OwnMarket' /\ FreshMarket'
  PROVE  IInv'
<1>1. minting \in BOOLEAN /\ ticks \in 0 .. MaxTicks
  BY DEF IInv, Types
<1>2. /\ ticks' \in Nat /\ ticks <= ticks' /\ Len(markets') \in Nat
      /\ Fit(k, ticks', Len(markets'))
  BY <1>1, BetTickAssumption
<1>3. job' \in [Handlers -> Job] /\ Fits'
  BY <1>2, JobChange
<1>4. Types'
  BY <1>1, <1>3 DEF Types
<1>5. OwnTick' /\ NotAhead' /\ EveryBetAccounted'
  BY MovesOn
<1>6. QED
  BY <1>3, <1>4, <1>5 DEF IInv

\* What holds of a running job, spelled out.
LEMMA AtWork ==
  ASSUME IInv, NEW h \in Handlers
  PROVE  /\ job \in [Handlers -> Job] /\ job[h] \in Job
         /\ Fit(job[h], ticks, Len(markets))
         /\ job[h].id \in Nat /\ job[h].next \in Nat /\ job[h].market \in Nat
         /\ job[h].cursor \in Nat /\ job[h].picks \in Seq(PickOf)
         /\ markets \in Seq(Market)
         /\ Len(markets) \in PoolSize .. MaxMarkets
         /\ Len(markets) \in Nat /\ minting \in BOOLEAN
         /\ ticks \in 0 .. MaxTicks /\ ticks \in Nat
         /\ faults \in 0 .. MaxFaults
         /\ landed \subseteq (1 .. ticks) \X Nat
         /\ trail \subseteq (1 .. ticks) \X Nat
<1>1. /\ job \in [Handlers -> Job] /\ markets \in Seq(Market)
      /\ Len(markets) \in PoolSize .. MaxMarkets
      /\ minting \in BOOLEAN /\ ticks \in 0 .. MaxTicks
      /\ faults \in 0 .. MaxFaults
      /\ landed \subseteq (1 .. ticks) \X Nat
      /\ trail \subseteq (1 .. ticks) \X Nat
  BY DEF IInv, Types
<1>2. job[h] \in Job /\ Fit(job[h], ticks, Len(markets))
  BY <1>1 DEF IInv, Fits
<1>3. ticks \in Nat /\ Len(markets) \in Nat
  BY <1>1, BetTickAssumption
<1>4. QED
  BY <1>1, <1>2, <1>3 DEF Job

LEMMA FaultCounts ==
  ASSUME faults \in 0 .. MaxFaults, Fault
  PROVE  faults' \in 0 .. MaxFaults
  BY BetTickAssumption DEF Fault

\* A pick that failed on the way: whatever the failed call did on chain, the
\* tick is done with the pick, which it has noted.
LEMMA PickFails ==
  ASSUME IInv, NEW h \in Handlers, job' = [job EXCEPT ![h] = Noted(job[h])],
         At(h, "route") \/ At(h, "submit") \/ At(h, "audit"),
         landed' = landed \/ landed' = landed \cup {BetId(h)},
         minting' = minting, ticks' = ticks, faults' \in 0 .. MaxFaults,
         markets' \in Seq(Market), Len(markets') \in PoolSize .. MaxMarkets,
         Len(markets) <= Len(markets'),
         \A m \in 1 .. Len(markets) :
           \/ markets'[m] = markets[m]
           \/ At(h, "submit") /\ m = job[h].market,
         landed' \subseteq (1 .. ticks) \X Nat, trail' = trail
  PROVE  IInv'
<1> DEFINE k == Noted(job[h])
<1>1. /\ job[h] \in Job /\ job[h].next \in 1 .. Len(job[h].picks)
      /\ Running(h)
      /\ Fit(job[h], ticks, Len(markets))
      /\ job[h].next \in Nat /\ job[h].market \in Nat
      /\ Len(job[h].picks) \in Nat
      /\ Len(markets) \in Nat /\ Len(markets') \in Nat
      /\ trail \subseteq (1 .. ticks) \X Nat
  BY AtWork, BetTickAssumption DEF Fit, At, Running
<1>2. /\ k \in Job /\ k.next = job[h].next + 1
      /\ k.pc \in {"route", "respond"}
      /\ k.pc = "route" => job[h].next + 1 <= Len(job[h].picks)
      /\ k.id = job[h].id /\ k.picks = job[h].picks
      /\ k.market = job[h].market /\ k.bets = job[h].bets
      /\ k.notes = job[h].notes \cup {job[h].picks[job[h].next].event}
  BY <1>1, NotedJob
<1> HIDE DEF k
<1>3. Done(job[h], k) /\ ~ Starts(job[h], k) /\ ~ Stays(job[h], k)
  BY <1>1, <1>2 DEF Done, Starts, Stays, At
<1>4. Fit(k, ticks, Len(markets'))
  <2>1. k.market <= Len(markets')
    BY <1>1, <1>2 DEF Fit
  <2>2. /\ k.next \in 1 .. Len(k.picks) + 1
        /\ k.pc = "route" => k.next <= Len(k.picks)
    BY <1>1, <1>2
  <2>3. k.id <= ticks /\ k.id >= 1
    BY <1>1, <1>2 DEF Fit, Running
  <2>4. QED
    BY <1>1, <1>2, <2>1, <2>2, <2>3 DEF Fit
<1>5. OwnMarket' /\ FreshMarket'
  BY <1>2, MarketsKept DEF k
<1>6. QED
  BY <1>1, <1>2, <1>3, <1>4, <1>5, StepKeepsIInv DEF k

-----------------------------------------------------------------------------
LEMMA IdleJob ==
  /\ Idle \in Job /\ Idle.pc = "idle" /\ Idle.next = 0 /\ Idle.id = 0
  /\ Idle.market = 0 /\ Idle.picks = <<>>
  BY DEF Idle, Job

\* A handler that becomes idle accounts for nothing any more, and submits
\* nothing.
LEMMA Stops ==
  ASSUME IInv, NEW h \in Handlers, job' = [job EXCEPT ![h] = Idle],
         UNCHANGED <<minting, markets, landed, trail, ticks>>,
         faults' \in 0 .. MaxFaults
  PROVE  IInv'
<1>1. /\ job \in [Handlers -> Job] /\ ticks \in Nat /\ Len(markets) \in Nat
      /\ OwnTick /\ NotAhead /\ EveryBetAccounted
  BY AtWork DEF IInv
<1>2. /\ Idle \in Job /\ Idle.pc = "idle" /\ Idle.next = 0
      /\ Fit(Idle, ticks, Len(markets))
  BY <1>1, IdleJob DEF Fit
<1>3. /\ job' \in [Handlers -> Job] /\ Fits' /\ job'[h] = Idle
      /\ \A g \in Handlers \ {h} : job'[g] = job[g]
  <2>1. ticks' = ticks /\ markets' = markets
    OBVIOUS
  <2>2. /\ Fit(Idle, ticks', Len(markets')) /\ ticks' \in Nat
        /\ ticks <= ticks' /\ Len(markets') \in Nat
        /\ Len(markets) <= Len(markets')
    BY <1>1, <1>2, <2>1
  <2>3. QED
    BY <1>2, <2>2, JobChange
<1>4. Types'
  BY <1>3 DEF IInv, Types
<1>5. OwnTick' /\ NotAhead'
  BY <1>1, <1>2, <1>3 DEF OwnTick, NotAhead, Running, At
<1>6. EveryBetAccounted'
  <2>1. 1 .. Idle.next - 1 = {}
    BY <1>2
  <2>2. QED
    BY <1>1, <1>3, <2>1 DEF EveryBetAccounted
<1>7. OwnMarket' /\ FreshMarket'
  BY <1>2, MarketsKept
<1>8. QED
  BY <1>3, <1>4, <1>5, <1>6, <1>7 DEF IInv

\* A tick starts under an id no bet has yet.
LEMMA TickKeeps ==
  ASSUME IInv, NEW h \in Handlers, Tick(h)
  PROVE  IInv'
<1> DEFINE k == [Idle EXCEPT !.pc = "pick", !.id = ticks + 1]
<1>1. /\ job \in [Handlers -> Job] /\ ticks \in Nat /\ Len(markets) \in Nat
      /\ OwnTick /\ NotAhead /\ EveryBetAccounted
      /\ landed \subseteq (1 .. ticks) \X Nat
      /\ trail \subseteq (1 .. ticks) \X Nat
      /\ \A g \in Handlers : job[g].id \in Nat /\ job[g].id <= ticks
  BY AtWork DEF IInv, Fit
<1>2. /\ job' = [job EXCEPT ![h] = k] /\ ticks' = ticks + 1 /\ ticks < MaxTicks
      /\ UNCHANGED <<minting, markets, landed, trail, faults>>
  BY DEF Tick
<1>3. /\ k \in Job /\ k.pc = "pick" /\ k.next = 0 /\ k.id = ticks + 1
      /\ Fit(k, ticks + 1, Len(markets))
  <2>1. /\ k \in Job /\ k.pc = "pick" /\ k.next = 0 /\ k.id = ticks + 1
        /\ k.market = 0 /\ k.picks = <<>>
    <3> DEFINE n == ticks + 1
    <3>1. n \in Nat
      BY <1>1
    <3>2. Idle \in Job
      BY IdleJob
    <3> HIDE DEF n
    <3>3. [Idle EXCEPT !.pc = "pick", !.id = n] \in Job
      BY <3>1, <3>2 DEF Job
    <3>4. QED
      BY <3>3, IdleJob DEF n, Job
  <2> HIDE DEF k
  <2>2. QED
    BY <1>1, <2>1 DEF Fit
<1> HIDE DEF k
<1>4. /\ job' \in [Handlers -> Job] /\ Fits' /\ job'[h] = k
      /\ \A g \in Handlers \ {h} : job'[g] = job[g]
  <2>1. /\ Fit(k, ticks', Len(markets')) /\ ticks' \in Nat
        /\ ticks <= ticks' /\ Len(markets') \in Nat
        /\ Len(markets) <= Len(markets')
    BY <1>1, <1>2, <1>3
  <2>2. QED
    BY <1>2, <1>3, <2>1, JobChange
<1>5. Types'
  <2>1. ticks' \in 0 .. MaxTicks
    BY <1>1, <1>2, BetTickAssumption
  <2>2. 1 .. ticks \subseteq 1 .. ticks'
    BY <1>1, <1>2
  <2>3. /\ landed' \subseteq (1 .. ticks') \X Nat
        /\ trail' \subseteq (1 .. ticks') \X Nat
    BY <1>1, <1>2, <2>2
  <2>4. QED
    BY <1>2, <1>4, <2>1, <2>3 DEF IInv, Types
<1>6. \A g \in Handlers \ {h} : job'[g].id # k.id
  BY <1>1, <1>3, <1>4
<1>7. OwnTick'
  BY <1>1, <1>4, <1>6 DEF OwnTick, Running
<1>8. NotAhead'
  <2>1. \A b \in landed : b[1] # k.id
    BY <1>1, <1>3
  <2>2. QED
    BY <1>1, <1>2, <1>4, <2>1 DEF NotAhead, Running, At
<1>9. EveryBetAccounted'
  <2>1. 1 .. k.next - 1 = {}
    BY <1>3
  <2>2. QED
    BY <1>1, <1>2, <1>4, <2>1 DEF EveryBetAccounted
<1>10. OwnMarket' /\ FreshMarket'
  BY <1>2, <1>3, MarketsKept
<1>11. QED
  BY <1>4, <1>5, <1>7, <1>8, <1>9, <1>10 DEF IInv

\* The picks arrive.
LEMMA PickBetsKeeps ==
  ASSUME IInv, NEW h \in Handlers, PickBets(h)
  PROVE  IInv'
<1>1. PICK picks \in PickLists :
        job' = [job EXCEPT ![h].picks = picks, ![h].next = 1, ![h].cursor = 0,
                  ![h].pc = IF picks = <<>> THEN "respond" ELSE "route"]
  BY DEF PickBets
<1> DEFINE place == IF picks = <<>> THEN "respond" ELSE "route"
           k == [job[h] EXCEPT !.picks = picks, !.next = 1, !.cursor = 0,
                               !.pc = place]
<1>2. /\ job \in [Handlers -> Job] /\ job[h] \in Job
      /\ Fit(job[h], ticks, Len(markets)) /\ job[h].pc = "pick"
      /\ ticks \in Nat /\ Len(markets) \in Nat
  BY AtWork DEF PickBets, At
<1>3. /\ picks \in Seq(PickOf) /\ Len(picks) \in Nat
      /\ place = "respond" \/ (place = "route" /\ 1 <= Len(picks))
  <2>1. picks \in Seq(PickOf)
    BY BetTickAssumption
  <2>2. QED
    BY <2>1
<1>4. job' = [job EXCEPT ![h] = k]
  BY <1>1, <1>2
<1> HIDE DEF place
<1>5. /\ k \in Job /\ k.pc = place /\ k.next = 1 /\ k.picks = picks
      /\ k.id = job[h].id /\ k.market = job[h].market
  BY <1>2, <1>3 DEF Job
<1> HIDE DEF k
<1>6. Fit(k, ticks, Len(markets))
  <2>1. k.id <= ticks /\ k.id >= 1 /\ k.market <= Len(markets)
    BY <1>2, <1>5 DEF Fit
  <2>2. /\ k.next <= Len(k.picks) + 1
        /\ k.pc = "route" => k.next \in 1 .. Len(k.picks)
    BY <1>3, <1>5
  <2>3. QED
    BY <1>3, <1>5, <2>1, <2>2 DEF Fit
<1>7. UNCHANGED <<minting, markets, landed, trail, ticks, faults>>
  BY DEF PickBets
<1>8. Starts(job[h], k) /\ Running(h) /\ k.pc # "idle" /\ k.pc # "submit"
  BY <1>2, <1>3, <1>5 DEF Starts, Running
<1>9. OwnMarket' /\ FreshMarket'
  BY <1>4, <1>5, <1>7, <1>8, MarketsKept
<1>10. /\ landed' = landed /\ trail' = trail /\ minting' = minting
       /\ ticks' = ticks /\ faults' \in 0 .. MaxFaults
       /\ markets' \in Seq(Market) /\ Len(markets') \in PoolSize .. MaxMarkets
       /\ Len(markets) <= Len(markets') /\ Fit(k, ticks, Len(markets'))
       /\ landed' \subseteq (1 .. ticks) \X Nat
       /\ trail' \subseteq (1 .. ticks) \X Nat
  BY <1>2, <1>6, <1>7, AtWork
<1>11. QED
  BY <1>4, <1>5, <1>8, <1>9, <1>10, StepKeepsIInv

\* A market is minted for the pick: nobody else is at it.
LEMMA MintMarketKeeps ==
  ASSUME IInv, NEW h \in Handlers, MintMarket(h)
  PROVE  IInv'
<1> DEFINE m == Len(markets) + 1
           k == [job[h] EXCEPT !.market = m, !.pc = "submit"]
<1>1. /\ job \in [Handlers -> Job] /\ job[h] \in Job
      /\ Fit(job[h], ticks, Len(markets)) /\ job[h].pc = "route"
      /\ ticks \in Nat /\ Len(markets) \in Nat
      /\ Len(markets) \in PoolSize .. MaxMarkets
  BY AtWork DEF MintMarket, At
<1>2. /\ minting /\ MarketMinted /\ Len(markets) < MaxMarkets
      /\ UNCHANGED <<minting, landed, trail, ticks, faults>>
      /\ job' = [job EXCEPT ![h] = k]
  BY <1>1 DEF MintMarket
<1>3. /\ markets' \in Seq(Market) /\ Len(markets') = Len(markets) + 1
      /\ \A n \in 1 .. Len(markets) : markets'[n] = markets[n]
      /\ markets'[m].bet = NoPick
  BY <1>2, Minted
<1>4. m \in Nat /\ m >= 1 /\ Len(markets') = m /\ Len(markets) <= m
      /\ m \in PoolSize .. MaxMarkets
  BY <1>1, <1>2, <1>3, BetTickAssumption
<1> HIDE DEF m
<1>5. /\ k \in Job /\ k.pc = "submit" /\ k.market = m
      /\ k.next = job[h].next /\ k.picks = job[h].picks /\ k.id = job[h].id
      /\ k.bets = job[h].bets /\ k.notes = job[h].notes
  BY <1>1, <1>4 DEF Job
<1> HIDE DEF k
<1>6. Fit(k, ticks, Len(markets'))
  BY <1>1, <1>4, <1>5 DEF Fit
<1>7. /\ Stays(job[h], k) /\ Running(h) /\ k.pc # "idle"
  BY <1>1, <1>5 DEF Stays, Running
<1>8. /\ job'[h] = k /\ \A g \in Handlers \ {h} : job'[g] = job[g]
  BY <1>1, <1>2
<1>9. \A g \in Handlers \ {h} :
        At(g, "submit") => job[g].market \in 1 .. Len(markets)
  BY AtWork DEF Fit, At
<1>10. \A g \in Handlers \ {h} : At(g, "submit") => job[g].market # m
  BY <1>1, <1>9 DEF m
<1>11. OwnMarket'
  <2>1. ASSUME NEW f \in Handlers, NEW g \in Handlers, f # g,
               At(f, "submit")', At(g, "submit")'
        PROVE  job'[f].market # job'[g].market
    <3>1. CASE f = h
      BY <1>5, <1>8, <1>10, <2>1, <3>1 DEF At
    <3>2. CASE g = h
      BY <1>5, <1>8, <1>10, <2>1, <3>2 DEF At
    <3>3. CASE f # h /\ g # h
      BY <1>2, <1>8, <2>1, <3>3 DEF IInv, OwnMarket, At
    <3>4. QED
      BY <3>1, <3>2, <3>3
  <2>2. QED
    BY <2>1 DEF OwnMarket
<1>12. FreshMarket'
  BY <1>3, <1>5, <1>8, <1>9, <1>2 DEF IInv, FreshMarket, At
<1>13. QED
  BY <1>2, <1>3, <1>4, <1>5, <1>6, <1>7, <1>11, <1>12, AtWork, StepKeepsIInv

\* The pool's next market, of a client that does not mint.
LEMMA NextMarketIdKeeps ==
  ASSUME IInv, NEW h \in Handlers, NextMarketId(h)
  PROVE  IInv'
<1> DEFINE m == (job[h].cursor % PoolSize) + 1
           c == job[h].cursor + 1
           k == [job[h] EXCEPT !.market = m, !.cursor = c, !.pc = "submit"]
<1>1. /\ job \in [Handlers -> Job] /\ job[h] \in Job
      /\ Fit(job[h], ticks, Len(markets)) /\ job[h].pc = "route"
      /\ ticks \in Nat /\ Len(markets) \in Nat /\ job[h].cursor \in Nat
      /\ Len(markets) \in PoolSize .. MaxMarkets
  BY AtWork DEF NextMarketId, At
<1>2. /\ ~ minting
      /\ minting' = minting /\ markets' = markets /\ landed' = landed
      /\ trail' = trail /\ ticks' = ticks /\ faults' = faults
      /\ job' = [job EXCEPT ![h] = k]
  BY <1>1 DEF NextMarketId
<1>3. /\ m \in Nat /\ m >= 1 /\ m <= Len(markets)
      /\ c \in Nat
  BY <1>1, BetTickAssumption
<1> HIDE DEF m, c
<1>4. /\ k \in Job /\ k.pc = "submit" /\ k.market = m
      /\ k.next = job[h].next /\ k.picks = job[h].picks /\ k.id = job[h].id
      /\ k.bets = job[h].bets /\ k.notes = job[h].notes
  BY <1>1, <1>3 DEF Job
<1> HIDE DEF k
<1>5. Fit(k, ticks, Len(markets'))
  BY <1>1, <1>2, <1>3, <1>4 DEF Fit
<1>6. /\ Stays(job[h], k) /\ Running(h) /\ k.pc # "idle"
  BY <1>1, <1>4 DEF Stays, Running
<1>7. OwnMarket' /\ FreshMarket'
  BY <1>2 DEF OwnMarket, FreshMarket
<1>8. /\ markets' \in Seq(Market) /\ Len(markets') \in PoolSize .. MaxMarkets
      /\ Len(markets) <= Len(markets') /\ faults' \in 0 .. MaxFaults
      /\ landed' \subseteq (1 .. ticks) \X Nat
      /\ trail' \subseteq (1 .. ticks) \X Nat
  BY <1>1, <1>2, AtWork
<1>9. QED
  BY <1>2, <1>4, <1>5, <1>6, <1>7, <1>8, StepKeepsIInv

\* A bet went through, or an aborted one came back with a digest: the tick
\* goes on to its audit, with the same pick.
LEMMA GoesToAudit ==
  ASSUME IInv, NEW h \in Handlers, At(h, "submit"),
         job' = [job EXCEPT ![h].pc = "audit"],
         UNCHANGED <<minting, trail, ticks, faults>>,
         UNCHANGED <<markets, landed>> \/ BetLands(h)
  PROVE  IInv'
<1> DEFINE k == [job[h] EXCEPT !.pc = "audit"]
<1>1. /\ job \in [Handlers -> Job] /\ job[h] \in Job
      /\ Fit(job[h], ticks, Len(markets)) /\ job[h].pc = "submit"
      /\ ticks \in Nat /\ Len(markets) \in Nat
      /\ Len(markets) \in PoolSize .. MaxMarkets
      /\ markets \in Seq(Market) /\ landed \subseteq (1 .. ticks) \X Nat
  BY AtWork DEF At
<1>2. job' = [job EXCEPT ![h] = k]
  BY <1>1
<1>3. /\ k \in Job /\ k.pc = "audit" /\ k.market = job[h].market
      /\ k.next = job[h].next /\ k.picks = job[h].picks /\ k.id = job[h].id
      /\ k.bets = job[h].bets /\ k.notes = job[h].notes
  BY <1>1 DEF Job
<1> HIDE DEF k
<1>4. /\ markets' \in Seq(Market) /\ Len(markets') = Len(markets)
      /\ \A m \in 1 .. Len(markets) :
           m # job[h].market => markets'[m] = markets[m]
      /\ landed' = landed \/ landed' = landed \cup {BetId(h)}
      /\ landed' \subseteq (1 .. ticks) \X Nat
  <2>1. CASE UNCHANGED <<markets, landed>>
    BY <1>1, <2>1
  <2>2. CASE BetLands(h)
    BY <2>2, Landing
  <2>3. QED
    BY <2>1, <2>2
<1>5. Fit(k, ticks, Len(markets'))
  BY <1>1, <1>3, <1>4 DEF Fit
<1>6. /\ Stays(job[h], k) /\ ~ Starts(job[h], k)
      /\ Running(h) /\ k.pc # "idle" /\ k.pc # "submit"
  BY <1>1, <1>3 DEF Stays, Starts, Running
<1>7. OwnMarket' /\ FreshMarket'
  BY <1>2, <1>3, <1>4, <1>6, MarketsKept
<1>8. /\ Len(markets') \in PoolSize .. MaxMarkets
      /\ Len(markets) <= Len(markets') /\ faults' \in 0 .. MaxFaults
      /\ trail' \subseteq (1 .. ticks) \X Nat
      /\ minting' = minting /\ ticks' = ticks
  BY <1>1, <1>4, AtWork
<1>9. QED
  BY <1>2, <1>3, <1>4, <1>5, <1>6, <1>7, <1>8, StepKeepsIInv

\* The audit is written and the bet is recorded.
LEMMA LogAuditTrailKeeps ==
  ASSUME IInv, NEW h \in Handlers, LogAuditTrail(h)
  PROVE  IInv'
<1> DEFINE k == Recorded(job[h])
<1>1. /\ job \in [Handlers -> Job] /\ job[h] \in Job
      /\ Fit(job[h], ticks, Len(markets)) /\ job[h].pc = "audit"
      /\ ticks \in Nat /\ Len(markets) \in Nat
      /\ Len(markets) \in PoolSize .. MaxMarkets
      /\ job[h].next \in 1 .. Len(job[h].picks) /\ job[h].next \in Nat
      /\ Len(job[h].picks) \in Nat
      /\ trail \subseteq (1 .. ticks) \X Nat
  BY AtWork DEF LogAuditTrail, At, Fit
<1>2. /\ minting' = minting /\ markets' = markets /\ landed' = landed
      /\ trail' = trail \cup {BetId(h)} /\ ticks' = ticks /\ faults' = faults
      /\ job' = [job EXCEPT ![h] = k]
  BY <1>1 DEF LogAuditTrail
<1>3. k = Recorded(job[h])
  OBVIOUS
<1> HIDE DEF k
<1>4. /\ k \in Job
      /\ k.next = job[h].next + 1
      /\ k.pc \in {"route", "respond"}
      /\ k.pc = "route" => job[h].next + 1 <= Len(job[h].picks)
      /\ k.id = job[h].id /\ k.picks = job[h].picks
      /\ k.market = job[h].market /\ k.notes = job[h].notes
      /\ Contains(k.bets, job[h].picks[job[h].next])
      /\ \A p : Contains(job[h].bets, p) => Contains(k.bets, p)
  BY <1>1, <1>3, RecordedJob
<1>5. Done(job[h], k) /\ Running(h) /\ k.pc # "idle" /\ k.pc # "submit"
  BY <1>1, <1>4 DEF Done, Running
<1>6. Fit(k, ticks, Len(markets'))
  <2>1. k.id <= ticks /\ k.id >= 1 /\ k.market <= Len(markets')
    BY <1>1, <1>2, <1>4 DEF Fit
  <2>2. /\ k.next \in 1 .. Len(k.picks) + 1
        /\ k.pc = "route" => k.next <= Len(k.picks)
        /\ k.next \in Nat /\ Len(k.picks) \in Nat
    BY <1>1, <1>4
  <2>3. QED
    BY <1>4, <2>1, <2>2 DEF Fit
<1>7. OwnMarket' /\ FreshMarket'
  BY <1>2, <1>4, <1>5, MarketsKept
<1>8. BetId(h) \in (1 .. ticks) \X Nat
  <2>1. job[h].id \in Nat /\ job[h].id >= 1 /\ job[h].id <= ticks
    BY <1>1, AtWork DEF Fit
  <2>2. QED
    BY <1>1, <2>1 DEF BetId
<1>9. /\ markets' \in Seq(Market) /\ Len(markets') \in PoolSize .. MaxMarkets
      /\ Len(markets) <= Len(markets') /\ faults' \in 0 .. MaxFaults
      /\ landed' \subseteq (1 .. ticks) \X Nat
      /\ trail' \subseteq (1 .. ticks) \X Nat
  BY <1>1, <1>2, <1>8, AtWork
<1>10. QED
  BY <1>2, <1>4, <1>5, <1>6, <1>7, <1>9, StepKeepsIInv

\* Minting, placing or auditing the bet fails: noted, whatever the call did.
LEMMA FailureKeeps ==
  ASSUME IInv, NEW h \in Handlers,
         MintMarketFails(h) \/ PlaceBetFails(h) \/ LogAuditTrailFails(h)
  PROVE  IInv'
<1>1. /\ faults' \in 0 .. MaxFaults
      /\ minting' = minting /\ ticks' = ticks /\ trail' = trail
      /\ job' = [job EXCEPT ![h] = Noted(job[h])]
  BY AtWork, FaultCounts DEF MintMarketFails, PlaceBetFails, LogAuditTrailFails
<1>2. /\ markets \in Seq(Market) /\ Len(markets) \in Nat
      /\ Len(markets) \in PoolSize .. MaxMarkets
      /\ landed \subseteq (1 .. ticks) \X Nat
  BY AtWork
<1>3. CASE MintMarketFails(h)
  <2>1. At(h, "route") /\ landed' = landed
    BY <1>3 DEF MintMarketFails
  <2>2. \/ markets' = markets
        \/ Len(markets) < MaxMarkets /\ MarketMinted
    BY <1>3 DEF MintMarketFails
  <2>3. /\ markets' \in Seq(Market)
        /\ Len(markets') \in PoolSize .. MaxMarkets
        /\ Len(markets) <= Len(markets')
        /\ \A m \in 1 .. Len(markets) : markets'[m] = markets[m]
    <3>1. CASE markets' = markets
      BY <1>2, <3>1
    <3>2. CASE Len(markets) < MaxMarkets /\ MarketMinted
      <4>1. /\ markets' \in Seq(Market) /\ Len(markets') = Len(markets) + 1
            /\ \A m \in 1 .. Len(markets) : markets'[m] = markets[m]
        BY <3>2, Minted
      <4>2. QED
        BY <1>2, <3>2, <4>1, BetTickAssumption
    <3>3. QED
      BY <2>2, <3>1, <3>2
  <2>4. QED
    BY <1>1, <1>2, <2>1, <2>3, PickFails
<1>4. CASE PlaceBetFails(h)
  <2>1. At(h, "submit")
    BY <1>4 DEF PlaceBetFails
  <2>2. /\ markets' \in Seq(Market) /\ Len(markets') = Len(markets)
        /\ \A m \in 1 .. Len(markets) :
             m # job[h].market => markets'[m] = markets[m]
        /\ landed' = landed \/ landed' = landed \cup {BetId(h)}
        /\ landed' \subseteq (1 .. ticks) \X Nat
    <3>1. CASE UNCHANGED <<markets, landed>>
      BY <1>2, <3>1
    <3>2. CASE BetLands(h)
      BY <2>1, <3>2, Landing
    <3>3. QED
      BY <1>4, <3>1, <3>2 DEF PlaceBetFails
  <2>3. /\ Len(markets') \in PoolSize .. MaxMarkets
        /\ Len(markets) <= Len(markets')
    BY <1>2, <2>2
  <2>4. QED
    BY <1>1, <2>1, <2>2, <2>3, PickFails
<1>5. CASE LogAuditTrailFails(h)
  <2>1. At(h, "audit") /\ markets' = markets /\ landed' = landed
    BY <1>5 DEF LogAuditTrailFails
  <2>2. Len(markets) <= Len(markets')
    BY <1>2, <2>1
  <2>3. QED
    BY <1>1, <1>2, <2>1, <2>2, PickFails
<1>6. QED
  BY <1>3, <1>4, <1>5

\* The contract aborts the bet: noted if the call throws, and otherwise taken
\* for a bet.
LEMMA PlaceBetAbortsKeeps ==
  ASSUME IInv, NEW h \in Handlers, PlaceBetAborts(h)
  PROVE  IInv'
<1>1. /\ At(h, "submit") /\ minting' = minting /\ markets' = markets
      /\ landed' = landed /\ trail' = trail /\ ticks' = ticks
      /\ faults' = faults
  BY DEF PlaceBetAborts
<1>2. CASE job' = [job EXCEPT ![h] = Noted(job[h])]
  <2>1. /\ faults' \in 0 .. MaxFaults /\ markets' \in Seq(Market)
        /\ Len(markets') \in PoolSize .. MaxMarkets
        /\ Len(markets) <= Len(markets')
        /\ landed' \subseteq (1 .. ticks) \X Nat
    BY <1>1, AtWork
  <2>2. QED
    BY <1>1, <1>2, <2>1, PickFails
<1>3. CASE job' = [job EXCEPT ![h].pc = "audit"]
  BY <1>1, <1>3, GoesToAudit
<1>4. QED
  BY <1>2, <1>3 DEF PlaceBetAborts

-----------------------------------------------------------------------------
LEMMA InitIInv == Init => IInv
<1> SUFFICES ASSUME Init PROVE IInv
  OBVIOUS
<1>1. NewMarket \in Market /\ NewMarket.bet = NoPick
  BY DEF NewMarket, Market, Outcomes
<1>2. /\ markets \in Seq(Market) /\ Len(markets) = PoolSize
  BY <1>1, BetTickAssumption DEF Init
<1>3. job \in [Handlers -> Job] /\ \A h \in Handlers : job[h] = Idle
  BY IdleJob DEF Init
<1>4. Types
  BY <1>2, <1>3, BetTickAssumption DEF Init, Types
<1>5. Fits
  <2>1. Fit(Idle, ticks, Len(markets))
    BY <1>2, IdleJob, BetTickAssumption DEF Init, Fit
  <2>2. QED
    BY <1>3, <2>1 DEF Fits
<1>6. OwnTick /\ OwnMarket /\ FreshMarket
  BY <1>3, IdleJob DEF OwnTick, OwnMarket, FreshMarket, Running, At
<1>7. NotAhead /\ EveryBetAccounted
  BY DEF Init, NotAhead, EveryBetAccounted
<1>8. QED
  BY <1>4, <1>5, <1>6, <1>7 DEF IInv

LEMMA Inductive == IInv /\ [Next]_vars => IInv'
<1> SUFFICES ASSUME IInv, [Next]_vars PROVE IInv'
  OBVIOUS
<1>1. ASSUME NEW h \in Handlers, Tick(h) PROVE IInv'
  BY <1>1, TickKeeps
<1>2. ASSUME NEW h \in Handlers, Step(h) PROVE IInv'
  <2>1. CASE PickBets(h)
    BY <2>1, PickBetsKeeps
  <2>2. CASE MintMarket(h)
    BY <2>2, MintMarketKeeps
  <2>3. CASE NextMarketId(h)
    BY <2>3, NextMarketIdKeeps
  <2>4. CASE PlaceBet(h)
    BY <2>4, GoesToAudit DEF PlaceBet
  <2>5. CASE PlaceBetAborts(h)
    BY <2>5, PlaceBetAbortsKeeps
  <2>6. CASE LogAuditTrail(h)
    BY <2>6, LogAuditTrailKeeps
  <2>7. CASE Respond(h)
    BY <2>7, AtWork, Stops DEF Respond
  <2>8. QED
    BY <1>2, <2>1, <2>2, <2>3, <2>4, <2>5, <2>6, <2>7 DEF Step
<1>3. ASSUME NEW h \in Handlers, Failure(h) PROVE IInv'
  <2>1. CASE PickBetsFails(h)
    BY <2>1, AtWork, FaultCounts, Stops DEF PickBetsFails
  <2>2. CASE MintMarketFails(h) \/ PlaceBetFails(h) \/ LogAuditTrailFails(h)
    BY <2>2, FailureKeeps
  <2>3. QED
    BY <1>3, <2>1, <2>2 DEF Failure
<1>4. CASE UNCHANGED vars
  BY <1>4 DEF vars, IInv, Types, Fits, OwnTick, OwnMarket, FreshMarket,
              NotAhead, EveryBetAccounted, Running, At
<1>5. QED
  BY <1>1, <1>2, <1>3, <1>4 DEF Next

LEMMA TypesImplyTypeOK == IInv => TypeOK
<1> SUFFICES ASSUME IInv PROVE TypeOK
  OBVIOUS
<1>1. /\ markets \in Seq(Market) /\ Len(markets) \in PoolSize .. MaxMarkets
      /\ landed \subseteq (1 .. ticks) \X Nat
      /\ trail \subseteq (1 .. ticks) \X Nat
      /\ ticks \in 0 .. MaxTicks /\ faults \in 0 .. MaxFaults
  BY DEF IInv, Types
<1>2. ASSUME NEW m \in DOMAIN markets
      PROVE  /\ markets[m].offers \subseteq Outcomes
             /\ markets[m].bet = NoPick \/ markets[m].bet.outcome \in Outcomes
  <2>1. markets[m] \in Market
    BY <1>1
  <2>2. markets[m].offers \subseteq Outcomes
    BY <2>1 DEF Market
  <2>3. markets[m].bet \in PickOf \cup {NoPick}
    BY <2>1 DEF Market
  <2>4. QED
    BY <2>2, <2>3 DEF PickOf
<1>3. ASSUME NEW h \in Handlers
      PROVE  /\ job[h].pc \in
                  {"idle", "pick", "route", "submit", "audit", "respond"}
             /\ job[h].id \in 0 .. ticks
             /\ job[h].next \in 0 .. Len(job[h].picks) + 1
             /\ job[h].pc \in {"route", "submit", "audit"} =>
                  job[h].next \in DOMAIN job[h].picks
             /\ job[h].market \in 0 .. Len(markets)
  <2>1. /\ job[h] \in Job /\ Fit(job[h], ticks, Len(markets))
        /\ job[h].id \in Nat /\ job[h].next \in Nat /\ job[h].market \in Nat
        /\ job[h].picks \in Seq(PickOf)
        /\ Len(markets) \in Nat /\ ticks \in Nat
    BY AtWork
  <2>2. job[h].pc \in {"idle", "pick", "route", "submit", "audit", "respond"}
    BY <2>1 DEF Job
  <2>3. Len(job[h].picks) \in Nat
        /\ DOMAIN job[h].picks = 1 .. Len(job[h].picks)
    BY <2>1
  <2>4. QED
    BY <2>1, <2>2, <2>3 DEF Fit
<1>4. QED
  BY <1>1, <1>2, <1>3 DEF TypeOK

LEMMA Invariant == Spec => []IInv
<1>1. QED
  BY InitIInv, Inductive, PTL DEF Spec

\* Every variable has its type; a tick in the middle of its loop is at one of
\* its picks, and a market it has chosen is one of those on chain.
THEOREM TypeCorrect == Spec => []TypeOK
<1>1. QED
  BY Invariant, TypesImplyTypeOK, PTL

\* With minting, the market a bet is submitted to holds no bet of the agent,
\* however many ticks are served at once and whatever fails: a mint that
\* throws after it was executed wastes its market, and an abort because of a
\* bet already placed is out of the question.
THEOREM MarketIsFresh == Spec => []FreshMarket
<1>1. IInv => FreshMarket
  BY DEF IInv
<1>2. QED
  BY <1>1, Invariant, PTL

\* Every bet a tick has on chain for a pick it has dealt with is among its
\* bets, or a note names its event: also one whose call threw after it was
\* executed, and one whose audit failed.
THEOREM BetsAccounted == Spec => []EveryBetAccounted
<1>1. IInv => EveryBetAccounted
  BY DEF IInv
<1>2. QED
  BY <1>1, Invariant, PTL
=============================================================================
