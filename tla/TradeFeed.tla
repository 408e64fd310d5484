----------------------------- MODULE TradeFeed -----------------------------
(***************************************************************************)
(* The trade feed: agents post each action to the backend                  *)
(* (agent/src/report.ts), which keeps the newest in memory                 *)
(* (backend/src/trades.ts, behind the routes of index.ts), and the         *)
(* component AgentTradeFeed polls them (agent-trade-feed.tsx, use-poll.ts, *)
(* lib/trades.ts).  It is the feed of a page that names its iWallets:      *)
(* the newest `Limit` trades of all agents are fetched, and filtered.      *)
(*                                                                         *)
(* A poll does not wait for the one before, so several are in flight, and  *)
(* their answers are applied as they arrive; nothing takes back the polls  *)
(* of an effect that was cleaned up.  A POST that fails is dropped by the  *)
(* agent and changes nothing here.  What is in a trade besides its         *)
(* identity does not matter; `n` numbers the trades that were recorded.    *)
(*                                                                         *)
(* The names that every component has (Init, Next, Spec...) are prefixed:  *)
(* the feed is part of the dashboard, and one module holds the theorems    *)
(* about both.                                                             *)
(***************************************************************************)
EXTENDS Naturals, Sequences, SequencesExt, FiniteSets

CONSTANTS
  Identities,   \* iWallets whose agents trade
  MAX,          \* size of the buffer
  Limit,        \* the component's limit, 20 on the dashboard
  MaxTrades,    \* bound: trades recorded
  MaxPolls,     \* bound: polls in flight when the interval ticks
  MaxScopes,    \* bound: times the page changes its list
  MaxFailures,  \* bound: failed calls and restarts
  NoAnswer      \* a poll the backend has not answered

ASSUME TradeFeedAssumption ==
  /\ \A n \in {MAX, Limit, MaxTrades, MaxPolls, MaxScopes, MaxFailures} : n \in Nat
  /\ 0 < MAX /\ Limit <= MAX

VARIABLES
  scope,     \* identityIds of the render on screen
  scopes,    \* number of times the page has changed them
  buffer,    \* the backend's buffer, newest first
  accepted,  \* history: the trades recorded since the backend's start
  count,     \* history: number of trades ever recorded
  polls,     \* requests in flight: whose closure, and the answer
  polled,    \* identityIds the last effect closed over, {} before the first
  trades,    \* state of the component
  hidden,    \* document.hidden
  failures   \* number of failures so far

serverVars == <<buffer, accepted, count>>
clientVars == <<polls, polled, trades>>
viewVars == <<scope, scopes, hidden>>
feedVars == <<serverVars, clientVars, viewVars, failures>>

Trade == [n : 1 .. MaxTrades, identityId : Identities]

Poll == [scope : SUBSET Identities, data : BoundedSeq(Trade, Limit) \cup {NoAnswer}]

FeedInit ==
  /\ scope = {} /\ scopes = 0
  /\ buffer = <<>> /\ accepted = <<>> /\ count = 0
  /\ polls = {} /\ polled = {} /\ trades = <<>>
  /\ hidden = FALSE
  /\ failures = 0

Failure == failures < MaxFailures /\ failures' = failures + 1

-----------------------------------------------------------------------------
(***************************************************************************)
(* The backend.                                                            *)
(***************************************************************************)
Newest(list, n) == SubSeq(list, 1, IF Len(list) < n THEN Len(list) ELSE n)

\* Mutations: a full buffer refuses the new trade; it is never cut.
AddTrade_WhenRoom(t) ==
  buffer' = IF Len(buffer) < MAX THEN <<t>> \o buffer ELSE buffer
AddTrade_NotCut(t) == buffer' = <<t>> \o buffer

AddTrade(t) == buffer' = Newest(<<t>> \o buffer, MAX)

listTrades(limit) == Newest(buffer, limit)

\* POST /trades with the right key and shape.
PostTrade(id) ==
  /\ count < MaxTrades
  /\ LET t == [n |-> count + 1, identityId |-> id]
     IN  AddTrade(t) /\ accepted' = Append(accepted, t)
  /\ count' = count + 1
  /\ UNCHANGED <<clientVars, viewVars, failures>>

RestartBackend ==
  /\ buffer # <<>>
  /\ Failure
  /\ buffer' = <<>> /\ accepted' = <<>>
  /\ UNCHANGED <<count, clientVars, viewVars>>

\* GET /trades: the answer is what the buffer holds now; it arrives later.
GetTrades(p) ==
  /\ p \in polls /\ p.data = NoAnswer
  /\ polls' = (polls \ {p}) \cup {[p EXCEPT !.data = listTrades(Limit)]}
  /\ UNCHANGED <<serverVars, polled, trades, viewVars, failures>>

-----------------------------------------------------------------------------
(***************************************************************************)
(* The component.                                                          *)
(***************************************************************************)
\* `tick` of usePoll, with the closure of the effect that set the interval.
Tick(ids) ==
  polls' = IF hidden THEN polls
           ELSE polls \cup {[scope |-> ids, data |-> NoAnswer]}

Room == Cardinality(polls) < MaxPolls

\* Mutation: the effect does not depend on idsKey.
Effect_Once ==
  /\ polled # scope /\ polled = {}
  /\ polled' = scope
  /\ Tick(scope)
  /\ UNCHANGED <<serverVars, trades, viewVars, failures>>

\* The effect runs again when idsKey has changed: a new interval, and a tick.
Effect ==
  /\ polled # scope
  /\ polled' = scope
  /\ Tick(scope)
  /\ UNCHANGED <<serverVars, trades, viewVars, failures>>

Interval ==
  /\ ~ hidden /\ Room
  /\ Tick(polled)
  /\ UNCHANGED <<serverVars, polled, trades, viewVars, failures>>

\* The trades of a list that are of these iWallets, in its order.
Scoped(list, ids) ==
  LET kept[k \in 0 .. Len(list)] ==
        IF k = 0 THEN <<>>
        ELSE IF list[k].identityId \in ids THEN Append(kept[k - 1], list[k])
        ELSE kept[k - 1]
  IN  kept[Len(list)]

\* `then` of the poll: the answer replaces what is shown, whatever that is.
Apply(p) ==
  /\ p \in polls /\ p.data # NoAnswer
  /\ polls' = polls \ {p}
  /\ trades' = Scoped(p.data, p.scope)
  /\ UNCHANGED <<serverVars, polled, viewVars, failures>>

\* getTrades makes an empty list of any failure, and that is applied too.
PollFails(p) ==
  /\ p \in polls
  /\ Failure
  /\ polls' = polls \ {p}
  /\ trades' = <<>>
  /\ UNCHANGED <<serverVars, polled, viewVars>>

\* The user goes to another tab, or comes back.
VisibilityChange ==
  /\ hidden' = ~ hidden
  /\ UNCHANGED <<serverVars, clientVars, scope, scopes, failures>>

\* The dashboard lists other iWallets: a load has ended, or the owner switched.
PageLists(ids) ==
  /\ scopes < MaxScopes
  /\ scope' = ids /\ scopes' = scopes + 1
  /\ UNCHANGED <<serverVars, clientVars, hidden, failures>>

Answered == \E p \in polls : GetTrades(p)
Applied == \E p \in polls : Apply(p)

FeedNext ==
  \/ \E id \in Identities : PostTrade(id)
  \/ RestartBackend
  \/ Answered
  \/ Effect
  \/ Interval
  \/ Applied
  \/ \E p \in polls : PollFails(p)
  \/ VisibilityChange
  \/ \E ids \in SUBSET Identities : PageLists(ids)

\* Effects run, the interval ticks, and a fetch ends, by an answer or a
\* failure.  Nothing is owed by agents or by the user.
FeedSpec ==
  /\ FeedInit
  /\ [][FeedNext]_feedVars
  /\ WF_feedVars(Effect) /\ WF_feedVars(Interval)
  /\ WF_feedVars(Answered) /\ WF_feedVars(Applied)

-----------------------------------------------------------------------------
FeedTypeOK ==
  /\ scope \subseteq Identities /\ scopes \in 0 .. MaxScopes
  /\ buffer \in BoundedSeq(Trade, MAX) /\ count \in 0 .. MaxTrades
  /\ accepted \in BoundedSeq(Trade, MaxTrades)
  /\ polls \subseteq Poll /\ polled \subseteq Identities
  /\ trades \in BoundedSeq(Trade, Limit)
  /\ hidden \in BOOLEAN

\* The backend lists the newest trades, newest first: exactly those accepted
\* since it started, up to its capacity, whatever was posted before.
FeedIsRecent == buffer = Newest(Reverse(accepted), MAX)

\* However answers overtook each other, failed or were for other iWallets, a
\* page that stays in view ends up showing the trades of the iWallets it lists
\* now, among the newest `Limit` the backend has now.
FeedConverges ==
  <>[] ~ hidden => <>[] (trades = Scoped(listTrades(Limit), scope))
=============================================================================
