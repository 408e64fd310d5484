# Verification of iWallet

TLA+ models of the iWallet repository, TLC configurations that check them on
small instances, and TLAPS proofs of what matters most for every instance.
Paths below are those of the repository, without the leading `src/` where that
is clear; the Move contract of the vault is `sources/prototype.move`.

1. The system: components, state, operations, interactions
2. Where it is hard
3. The modules and how they correspond to the code
4. The runs
5. The proofs
6. Disagreements between code and documentation
7. What is not modelled
8. Plan

## 1. The system

An *iWallet* is a shared Move object that holds money and lets an AI agent
spend it within a mandate. The agent proves in zero knowledge that it knows
the witness the object was registered under, and the contract checks the proof
and the mandate before it releases a coin.

```
 create wizard ──create_iidentity, set_policy──►┌─────────────────┐
 dashboard, owner scripts ──set/revoke_policy──►│  VAULT contract │◄── coins sent to
 owner ───────────owner_withdraw───────────────►│ prototype.move  │    its address
                                                └───────┬─────────┘
   PROOF generation ──proof + public inputs──►withdraw_with_proof
                                                        │ Coin<T>, in the same transaction
                  ┌─────────────────────────────────────┴───────────┐
        BETTING agent                                        TRADING agents
     index.ts, iwallet.ts                              trade-loop.ts, trade.ts
  place_bet │      │ audit blob                  deposit, orders │      │ report
            ▼      ▼                                             ▼      ▼
     SPORTSBOOK  Walrus                                     DeepBook   TRADE FEED
     contract      │                                                      │
            └──── betting UI (api.ts)                          dashboard (polls)
```

| component | code | state | operations |
|---|---|---|---|
| Vault contract | `sources/prototype.move` | owner, identity hash, active policy (cap, spent, recipients, expiry), used nonces, staged balances by key; coins waiting at its address | `create_iidentity`, `set_policy`, `revoke_policy`, `withdraw_with_proof` (with `receive_coin`), `owner_withdraw` |
| Sportsbook contract | `packages/sportsbook/sources/sportsbook.move` | market: odds, closing time, outcome, pool, bets by bettor | `create_market`, `resolve_market`, `place_bet`, `claim` |
| Proof generation | `agent/src/proof.ts`, `circuits/iwallet.circom` | none | fresh nonce, intent hash, Groth16 proof |
| Vault withdrawals | `agent/src/vault.ts` | none (reads the chain) | largest pending coin, prove, submit |
| Continuous trade loop | `agent/src/trade-loop.ts`, `deepbook.ts`, `report.ts` | none between ticks | tick: read balance, withdraw, deposit, cancel, place, report |
| One-shot trade tick | `agent/src/trade.ts` | none | withdraw, deposit, place |
| Betting agent | `agent/src/index.ts`, `iwallet.ts`, `walrus.ts`, `server.ts`; `betting-ui/src/lib/api.ts` | `lastTick`; market cursor per tick | `POST /tick`: odds, picks, one bet and one audit blob per pick; `GET /state` |
| Picks and odds | `agent/src/picks.ts`, `odds.ts` | none | ask Claude, validate |
| Owner scripts | `agent/src/set-policy.ts`, `revoke.ts`, `provision.ts` | `.env` | the calls of the owner |
| Create wizard | `frontend/.../create-iwallet-flow.tsx`, `lib/enoki.ts`, `lib/local-identities.ts` | form, witness, created id; `localStorage` registry; recovery file | choose owner, generate witness, create and set policy (sponsored, else direct) |
| Dashboard | `frontend/.../dashboard-real.tsx`, `restore-from-file.tsx`, `lib/sui-client.ts` | list of wallets | discover, load, import, remove, restore |
| Trade feed | `backend/src/trades.ts`, `frontend/.../agent-trade-feed.tsx`, `lib/use-poll.ts` | ring buffer of 200 reports, in memory | add, list; poll |
| Gas station | `backend/src/index.ts`, `sponsor.ts` | none | sponsor, execute |
| Name service | `backend/src/agent/service.ts`, `suins.ts` | none (reads SuiNS) | look a name up, build its registration |
| Orchestrator | `backend/src/agent/orchestrator.ts`, `router.ts`, `controller.ts` | none between requests | plan, run workers in order or in parallel |
| Witness program | `circuits/iwallet_cpp`: `main.cpp`, `calcwit.cpp`, `iwallet.cpp`, `circom.hpp` | 585 shared signals, 147 components with their input counters, the inputs set so far | load the inputs, run the circuit, write the witness |
| Field arithmetic | `circuits/iwallet_cpp`: `fr.asm`, `fr.cpp`, `fr.hpp` | elements tagged short, long, Montgomery | arithmetic, comparison, conversion |
| Agent memory, setup scripts, CLI, landing pages, `iwallet_js` | see `PROJECT.json` | | |

What makes each of them correct:

* **Vault.** Budgets are never exceeded over any history of grants and
  revocations; a nonce is executed once; nothing is executed that was not
  proved, for that amount and recipient, under a live policy; no coin is lost;
  an owner without an agent gets the money back.
* **Sportsbook.** Nobody is paid twice, too much or too early; a voided market
  can refund everybody; a shortfall means an empty pool; one bettor cannot
  block another.
* **Trade loop.** Only what the policy released reaches DeepBook; money outside
  the vault does not pile up whatever fails; an agent without a mandate
  should say so; one with enough in DeepBook goes on.
* **Betting agent.** No bet on chain drops out of the result shown; bets do not
  collide in a market; each request is answered; what the UI says of a bet is
  what happened to it.
* **Witness program.** A witness is written only for inputs that prove
  something, and satisfies the circuit; every component runs once, on inputs
  that are there; arithmetic does not depend on how a number is represented.
* **Dashboard.** A quiet page shows what the browser tracks; discovery gives an
  owner back what is recent on chain, after a cleared cache and after a removal
  alike, and nothing else that was removed; loading ends.
* **Trade feed.** The backend keeps the newest reports; a page in view ends up
  showing those of its iWallets.
* **Create wizard.** Fallbacks and retries do not multiply identities; what the
  wizard stores and shows is complete (the dashboard lists any identity it
  discovers, complete or not); the recovery file recovers it.

## 2. Where it is hard

`PROJECT.json` lists the hazards by line. They come in six groups.

* **Two transactions where one is meant.** The trade loop withdraws in one
  transaction and deposits in the next; the wizard creates and sets the policy
  in two; the betting agent mints the market before it bets. In between:
  crashes, lost answers, revocation, another tick, another wallet account.
* **Values read before an `await` and used after it.** The manager's balance,
  the pending coin, the market cursor, the witness on the screen.
* **Errors that are answered with a default.** The balance reads as 0 on an
  error; a failed `cancelAll` is ignored; a failed sponsored transaction is
  sent again, executed or not; a missing status is taken for success.
* **Loads and polls that overlap.** Dashboard and feed start a request whenever
  something changes, and apply the answers in the order they arrive.
* **Generated code without types.** Offsets and counters are plain numbers, the
  circuit starts in the middle of the loop that sets its inputs, and an element
  carries parts its tag does not name.
* **Long legal histories of the contracts.** Re-grants that reset a counter,
  refunds without a cap next to wins with one, u64 products, coins only a
  withdrawal can receive.

## 3. The modules

Data are abstracted, control is kept: every guard, early return and error path
of a handler is in its action. An aborting Move call is rolled back as a whole,
so it is no step of the contract; for the caller, who sees the abort, it is.

| module | models | composes |
|---|---|---|
| `Delegation` | what the vault promises, in five variables | |
| `Vault` | the vault contract, coins, clock, proofs, the event log | refines `Delegation` |
| `Recovery` | the owner's procedure of `docs/DELEGATION_MODEL.md` §5 | `Vault` |
| `Sportsbook` | one market | |
| `TradeLoop` | the trade loop with its vault and its BalanceManager | `Delegation` as the policy |
| `BetTick` | the betting agent, its harness, the rows of the UI | |
| `CreateFlow` | the create wizard | |
| `Dashboard` | the list of iWallets, its loads and clicks, the browser's registry | |
| `TradeFeed` | the backend's buffer and the component that polls it | |
| `FieldOrder` | the prime, and the numbers modulo it | |
| `Circuit` | the generated witness program: components, signals, loops; its contract `CircuitSpec` | `FieldOrder` |
| `InputDocument` | the JSON document: flattening, reading numbers | `FieldOrder` |
| `WitnessCalc` | the loader of the inputs and the writer of the witness | `Circuit`, refines `CircuitSpec` |
| `WitnessProgram` | the two together: the whole program | `WitnessCalc`, `InputDocument` |
| `PrimeField` | what the field arithmetic promises: numbers modulo a prime | `FieldOrder` |
| `FieldElement` | tagged elements and the dispatch on their tags | `FieldOrder`, refines `PrimeField` |
| `FiniteSums` | lemmas on sums over finite sets (`SumFunction` of the community modules) | |
| `Vault_proofs`, `Sportsbook_proofs` | theorems | the module they name, `FiniteSums` |
| `TradeLoop_proofs`, `BetTick_proofs`, `CreateFlow_proofs` | theorems | the module they name |
| `Dashboard_proofs` | theorems | `Dashboard`, `TradeFeed` |
| `Witness_proofs` | theorems | `FieldElement`, `Circuit`, `WitnessCalc` |
| `MCVault`, `MCRecovery`, `MCBetTick`, `MCDashboard` | values for TLC | the module they name |
| `MCWitness` | values for TLC | `WitnessProgram` |

`TradeLoop` takes the abstract `Delegation` for the vault's policy and not the
contract itself. That is sound because `Vault` implements `Delegation`, which
is checked and proved (`ImplementsDelegation`).

**Vault.** Variables are the fields of `IIdentity` (`owner`, `identityHash`,
`policy`, `usedNonces`, and `bagKeys` with `staged` for the bag), the coins
sent to the object's address (`pending`), the addresses' coins (`wallet`), the
clock, and two records of the past: the events (`log`) and the proofs ever
made. An entry function is one action, its assertions in order:
`PolicyAllows` is Rules A, B and C, `ProofAccepted` replay protection, intent
binding and verification. keccak256 and Poseidon are taken as injective and
Groth16 as sound, so a proof is the record of its public inputs. `Withdraw`
submits any proof ever made with any arguments, key, coin and destination:
that covers delays, reordering, duplicates and third parties. `IWalletOwner` is
not tied to an identity in the source and constrains nobody; `daily_limit`,
`spent_today`, `last_reset_timestamp` and `revoked` are written and never
read; they are left out. The u64 sum of Rule B aborts on overflow, which the
comparison with a cap below 2^64 says as well.

**Recovery.** The agent leaves at any moment. The owner then composes the
vault's own actions: a policy for itself, one zero-amount withdrawal per
waiting coin, `owner_withdraw`. There is no code for this in the repository;
the actions of the vault it uses are the code's.

**Sportsbook.** One market, any odds (0 included), closing time and outcome.
`Claim` does what `claim` does in order: mark, compute, cap by the pool, pay.
`Entitlement` is what the terms give; `Payout` what is paid; `Payable` says
when the call goes through: the product fits a u64, and a refund, which has no
cap, is in the pool. `ResolverCap` is a given: only its holder's calls are
steps.

**TradeLoop.** `pc` is the `await` a tick stands at. The environment acts
between any two: the owner grants or revokes, coins arrive, orders fill. A call
that aborts is `WithdrawRejected`, `DepositFails` or `PlaceFails`: it comes
back with a status, which is posted, or as an exception, which is only logged.
A call that throws whatever came of it, or a killed process, is `TickDies`,
and the next tick starts from what is on chain, as the process keeps nothing.
`ReadPending` sees one `Page` of the coins, of the node's choosing, as
`getOwnedObjects` is asked once. The ask side is modelled, the one that deposits
what it trades; price, memory and rationale decide no transfer.

**BetTick.** `job[h]` holds the local variables of a `runTick` the harness is
serving; requests are not serialised, so several run at once. A bet's
transaction (withdrawal and `place_bet`) is atomic: `BetLands` or nothing. An
abort may come back as an exception or as a digest, since `placeBet` does not
ask for the effects. `minting` says whether `RESOLVER_CAP_ID` is set (a market
per bet) or not (the pool, or the single fixed market: a pool of one).
External: Claude's picks (any list from a set), the budget, and the deployed
package, which is taken to accept the call as `iwallet.ts` spells it. Markets
close after 14 days, beyond the runs; the keys are set, so no bet is a stub.

**CreateFlow.** `run` is the `onCreate` in progress with the values it closed
over; `form` is what is on the screen. All other clicks stay possible
meanwhile: another owner, another wallet account, a new witness, a download, a
closed tab. `Sender` says whose transaction it is: Enoki binds the owner the
run started with, the wallet signs with its current account. `saved` is the
wizard's own contribution to the registry in `localStorage`; the registry itself
has more writers and is a variable of `Dashboard`. `StoreRefused` is the browser
that does not take the id although the policy is set: an error, nothing stored,
no created id on the screen. Leaving the page without closing the tab is not
modelled.

**Dashboard.** A load is a record from its start to its end, with the owner its
closure saw; it awaits the discovery (`Discovering`), then stores what was
found, reads the registry and awaits the objects (`Listing`). Switching the
owner, importing, restoring and removing each start a load, and none cancels
another. `Wallets` filters by the owner connected now. Removal is possible only
when nothing is loading, as the list is not rendered meanwhile. A failed read
drops one id, a failed scan what it would have found; a registry that cannot be
written (`StoreFails`) empties the list after it may have stored some of the
ids. `Reload` ends everything that was awaited; `Navigate`, to another page of
the site and back, does not: loads that were scanning (`orphans`, a number for
each owner) still store what they find, imports and restores (`leftAdding`)
still add, while nobody sees the lists they would set. The history variable
`gone` holds what was removed and not added by the user since; no load takes
anything out of it. The chain and its recent activity, all that discovery sees,
are constants.

**TradeFeed.** `Effect` is the effect of `usePoll`, which ticks at once and
sets the interval, `Interval` a later tick. A poll carries the list of iWallets
its closure filters by and, once answered (`GetTrades`), what the buffer held
then; `Apply` replaces what is shown, in any order of arrival. A failure is an
empty list, which is applied too. `RestartBackend` empties the buffer.
`PageLists` is the dashboard above it showing other iWallets.

**Circuit.** The component tree at its real size: main, the hasher, PoseidonEx
and its 144 children, the offsets of their signals in one array of 585, the
number of inputs each waits for. `Feed` is the piece of code generated for
every copy: store the value, count down, run the child at 0. One action per
loop of `PoseidonEx_68_run`, one step per pass. A signal nobody wrote is
`Undef`, and so is everything computed from it. The prime and the round
constants are parameters; `PoseidonHash` is an independent reference, written
as a function of the permutation's rounds. `CircuitSpec` is the circuit with
any caller that keeps to its interface: `SetInputs` gives values to inputs of
main that have none and starts the circuit with the last of them, `GiveUp` ends
the process.

**InputDocument.** `Loaded` flattens a document as `qualify_input` does, into
the items `loadJson` goes through: a key, and the field elements of its value
if they can be read.

**WitnessCalc.** The documents and what is `Flattened` of each are parameters.
`LoadItem` is one pass of `loadJson`: look the key up in the hash map, test that
the values were readable and the number right (`Accepts`), set the signals, and
run the circuit when none is missing, before the next key is looked at
(`SetSignals`). `Finish` is the rest of `main`. Exceptions and assertions end
the process, `"abort"`; this takes the build for one with assertions on, which
is how the `Makefile` builds it. `WitnessProgram` makes `Flattened` what
`InputDocument` reads; the split is there because the walk over a document is
recursive, and a module that is proved about may not be.

**FieldElement.** An element is the triple of the code. Each operation is
written over an arbitrary leftover (`Junk`), with the same split on the tags as
the assembly. A long number is a number modulo the prime, not four limbs;
Montgomery multiplication is what it computes. An inverse that does not exist
leaves any number (the code ignores gmp's answer), a division of integers by
zero ends the process. `ImplementsPrimeField` maps an element to the number it
stands for: whatever sequence of operations runs, it behaves as one on numbers.

## 4. The runs

Each constant that is called a bound in a module cuts an unbounded counter, in
a guard. Deadlock checking is off where the bounds (ticks, clicks, claims) end
every run; in `TradeLoop` it is on, since the loop never ends.

| run | question | instance | states |
|---|---|---|---|
| `vault` | do budget, events and coins agree, is every execution authorised, once, under a live grant? (`TypeOK`, `ExtractionWithinGrants`, `SpentMatchesLog`, `Conservation`, `SingleUse`, `ExecutionsAuthorised`, `ImplementsDelegation`) | 2 keys, 2 coins, 2 nonces, 2 witnesses, 2 grants of cap 2 with expiry 0 or 1, amounts 1–2, 3 addresses | 301 000 |
| `recovery` | does the owner get everything out? (`NeverBricked`) | 2 coins, 2 nonces for the owner, 2 grants | 50 000 |
| `sportsbook_market` | are payouts right, and made? (`TypeOK`, `RefundsCovered`, `PaidWithinTerms`, `ShortOnlyWhenDry`, `BetsSettle`) | 3 bettors, stakes 1 and 3, odds 0 and 2.50, u64 of at most 12 | 135 000 |
| `tradeloop_ticks` | is the money outside the vault authorised and bounded, does the loop go on? (`TypeOK`, `DepositsAuthorised`, `ExposureBounded`, `KeepsTrading`) | order of 2 + 2 buffer + 1 fee, 3 coins of 8 or 10, pages of 2, 2 grants of 5 or 24, 2 faults | 1 524 000 |
| `bettick_ticks` | do bets, notes and markets agree, is each request answered? (`TypeOK`, `EveryBetAccounted`, `FreshMarket`, `TickAnswered`) | 2 handlers, 2 ticks of up to 2 picks, minted or pooled markets, budget 3, 2 faults | 63 000 |
| `create_flow` | how many identities, and are those the wizard stores the complete ones? (`TypeOK`, `IdentitiesBounded`, `SavedIsComplete`) | 2 accounts and a passkey, 2 witnesses, 2 clicks, 1 closed tab, 2 faults | 333 000 |
| `dashboard` | is the list right when loads overlap, and what does discovery bring back? (`TypeOK`, `SettledList`, `RegistryRecovers`, `LoadingEnds`) | 2 owners with an iWallet each (one beyond recent activity), 4 loads, 1 addition at a time, 1 reopened page, 1 fault | 944 000 |
| `feed` | is the feed the newest reports, and does a page end up showing it? (`FeedTypeOK`, `FeedIsRecent`, `FeedConverges`) | buffer of 2, limit 1, 3 trades of 2 iWallets, 2 polls in flight, 2 changes of the list, 1 fault | 758 000 |
| `witness` | who gets a witness, and is it right? (`TypeOK`, `RunsOnWrittenInputs`, `CircuitSpec`, `SingleAssignment`, `WitnessSatisfies`, `WitnessOnlyAndAlwaysForProofs`) | the real layout and hash map size, a field of 13, 22 documents | 2 500 |
| `field` | do representations matter? (`FrTypeOK`, `ReadersAgree`, `ImplementsPrimeField`) | prime 11, radix 16, "int32" of -2..1, every operation, 3 leftovers | 413 000 |
| `bettick_onchain`, `create_recovery` | see section 6 | as small as shows it | |

Why the bounds are enough for what is asked:

* *Vault.* Two grants are what a counter that survives a grant takes; a cap of
  2 with amounts 1 and 2 has the exact cap, one beyond it, and the sum over
  calls; two keys give "received under a key the bag has" and "has not"; two
  nonces with two witnesses give every wrong combination of proof and
  arguments. The clock passes expiry, at it and after it. Nonces, keys and
  coin ids are interchangeable, so symmetry is used, with safety only.
* *Sportsbook.* Three bettors with stakes 1 and 3 at 2.50: a win of 2
  for 1, rounded down, which a pool of small stakes cannot pay in full, and a
  product of 15 that does not fit "u64"; a third bettor is the one who comes
  after a short payment, or whose bet slips in after the resolution with a
  guard missing.
* *TradeLoop.* Coins of 8 and 10 against top-ups of up to 4 let the largest
  coin change between read and use, and three of them on pages of two hide it; a
  cap of 5 allows one top-up only; two
  faults let a lost withdrawal meet a failed deposit.
* *BetTick.* Two ticks of two picks collide in a market side by side and one
  after the other; the list with one pick twice and the one with a draw are the
  two that confuse the result; a budget of 3 runs out.
* *Dashboard.* Two loads overtake each other, a third meets a removal; with the
  four in all, a page that is opened again has loads of its own beside those of
  the page that was left. The iWallets are one that discovery finds and one, of
  another owner, that it does not.
* *TradeFeed.* A buffer of 2 is cut by the third trade and lists less than it
  holds; a poll of the list before overtakes the one of the list now; a restart
  or a failure meets either.
* *Witness program.* The control of the circuit does not depend on data, so one
  document that runs it covers it; the others are one for each way through the
  loader: text in both bases, numbers that lose digits, negative numbers,
  nested and mixed arrays, nested objects, missing and unknown keys, a key that
  falls on a taken slot, a wrong identity. 13 is small enough for two
  values to agree by chance, but the 585 signals and 64 rounds make a wrong
  constant or matrix show in one of the documents.
* *FieldElement.* A radix and a prime with no relation to each other and a word
  small enough that products and sums overflow it; all four tags are reached
  for both operands.
* *CreateFlow.* Two clicks with two faults: a lost answer on the sponsored and
  on the direct path, and a second run over what the first has left.

**Fairness.** Each assumption is one the code's scheduling gives.

* `Recovery!RSpec`: the owner carries its procedure through (weak fairness of
  its four actions); none of the agent, the clock or in-flight transactions.
* `Sportsbook!FairSpec`: someone submits the claim of each bettor; claims are
  permissionless.
* `TradeLoop!FairSpec`: the `for (;;)` loop runs and its calls return. The
  owner, the market and faults owe nothing.
* `BetTick!FairSpec`: every call of a tick returns or throws.
* `Dashboard!Spec`: the reads of a load return or throw (`DiscoverEnds`,
  `ListEnds`).
* `TradeFeed!FeedSpec`: effects run, the interval ticks while the page is in view,
  a fetch is answered and its answer applied. Agents and users owe nothing.
* `WitnessCalc!Spec`: the process runs.
* `CreateFlow`: none. A wallet prompt may stay open for ever.

Every property of these runs is paired in `PROJECT.json` with a plausible bug
in a mapped definition, written next to it (`..._Something`, "Mutation:"),
that makes it fail.

## 5. The proofs

All hold for every value of the constants, under the named assumptions of the
modules only (`VaultAssumption` and so on: sizes are natural numbers, null
values are not values). A few are about more than sizes. `Addresses` and `Keys`
of the vault and `Bettors` of a market are finite sets of any size, since a sum
over an infinite one means nothing; a chain has finitely many of each. A list of
picks holds picks, since `picks.ts:131` drops what is none. The modulus q of the
field is an odd prime, the radix R is larger and no multiple of it, and the
square of the smallest machine integer is below q (in the code, 2^256, and 2^62
against 254 bits). The round constants are elements of the field. An entry of
the input hash map that has a size is for inputs of main.

**FiniteSums.** The community modules define a sum over a set by recursion on a
choice: `CHOOSE` of a function that satisfies the recursive equation. So that
such a function exists has to be shown first (`SumsExist`), and that the order
of the choices does not matter (`SumsAgree`, `SumsRemove`). Both go by
induction on finite sets, which is stated here for sets of sets
(`InductionOnSet`), from the well-foundedness of the naturals, because the
library's own induction theorems take an operator. The components use what
follows from it: `SumNat`, `SumAgree`, `SumZero`, `SumRemove`, `SumAdd` and
`SumChange`.

**Vault_proofs.** `WithdrawEffect` says what a withdrawal changes; `StepKinds`
that every other step changes nothing of the policy, the log or the totals
beyond a grant or a revocation. From them:

* `TypeCorrect` — `TypeOK` is inductive.
* `BudgetBounded` — `ExtractionWithinGrants`, with `TypeOK`.
* `NoReplay`, `IntentBinding` — from `AuthorityInv`: single use, executions
  authorised, and that nothing was executed before the vault was created;
  without the latter the registered hash could change under the log.
* `TrackerMatchesLog` — the log is the history of the events, the counter a
  field of the policy. Appending an execution adds its amount to both
  (`TotalGrows`); a grant resets the counter and ends the segment of the log it
  is compared with (`SetPolicyKeepsTotals`), which is why the invariant needs
  to know that the log's amounts are numbers and nothing else.
* `ValueConserved` — a sum over addresses, one over keys and one over waiting
  coins, whose total is constant (`FundsInv`). Each step takes from one place
  and adds to another: a wallet (`WalletChange`), a key (`StagedChange`), the
  set of waiting coins (`CoinArrives`, `CoinReceived`). The hard case is a
  withdrawal that receives a coin, joins it to the staged balance and splits
  the amount off in one step (`WithdrawKeepsFunds`).
* `DelegationImplemented` — the initial state maps to one of `Delegation`, and
  each step to a grant, an end, a draw or a stutter. A tick of the clock is an
  end when it passes the expiry, and `set_policy` is a grant or, if the new
  policy is expired already, an end.

**Sportsbook_proofs.** `EntitlementNat` and `PayoutBounded` are about the
integer division and the cap. `TypeCorrect` needs them: the pool never goes
negative. `NeverOverpaid` and `ShortfallMeansDry` follow from `SettlementInv`:
claimed bets are on resolved markets, whose pool no longer grows and whose
terms no longer change. `RefundsNeverShort` is about the other markets: the
stakes that are owing are a sum (`OwingStakes`); a bet adds its stake to it and
to the pool (`PlaceKeepsRefunds`), a claim of a void market takes it from both
(`ClaimKeepsRefunds`), and once an outcome is set it is never set again.

**TradeLoop_proofs.** `ExposureBounded` is far from inductive. `IInv` balances
the books: every coin drawn is at the agent's address or was deposited
(`Balanced`); what lies loose there beyond its own funds and what the tick is
carrying is paid for by faults, and so are stacked orders (`LooseCoins`); the
total is within one top-up and one order plus that credit, and while a top-up
is under way there is room for it (`TotalBounded`). One lemma per call that
moves coins, shared by the call that returns and the one that is executed and
lost. `OnlyAuthorisedDeposits` and `ExposureAlwaysBounded` follow. `Shape` adds
the policy, the vault and the program's place; with it `TypeCorrect`, where the
work is that a withdrawal, made with a coin chosen two awaits before, leaves the
vault's balance natural, and `LoopImplementsDelegation`: the loop's behaviours,
restricted to the policy, are behaviours of `Delegation`, since what is executed
and lost is still a draw, and its nonce, one more than the number used before,
is one of those `Delegation` allows.

**BetTick_proofs.** One invariant carries all three theorems. `Fit` says what a
job may be in each place of the program: its tick has started, its market
exists, the pick it is at is one of its picks. `OwnTick` and `OwnMarket` are
about two handlers: ticks in progress have different ids and, when minting, are
never at one market. `NotAhead` says that a tick's bets on chain are for picks
it is past, or for the one it is just auditing: without it a bet could be there
before the loop gets to its pick, and a later failure need not mention it.
`MovesOn` is the heart: a job stays with its pick, is done with it, or starts,
and in each case the bets on chain go on being accounted for, also when the
step that fails has put one there. `StepKeepsIInv` collects what an action has
left to show, `PickFails` does it for the failures at once. `TypeCorrect`,
`MarketIsFresh` and `BetsAccounted` follow. TLC has checked the parts of this
invariant on the instance of `bettick_ticks`.

**CreateFlow_proofs.** `IInv` adds to the types that a run without its identity
still has a click to its account (`Pending`), so that a fault or a closed tab
after execution is counted once, and that a run setting a policy has an
identity (`RunOK`). `EffectOnChain` says what one transaction may do to the
chain, `OthersIncomplete` that it completes at most the identity of the run, so
that what is complete and unstored grows by one at most, with a fault or a
closed tab (`SavedKept`). `TypeCorrect`, `CreatesBounded` and
`SavedAlwaysComplete` follow.

**Dashboard_proofs.** `TypeCorrect` needs to know that the loads are finitely
many (`LoadsFinite`), or a page that is left would have no number of them.
`RegistryRecovers` speaks of moments without any scan; inductive is that the
connected owner's own scans are over (`RecoversInv`): a removal starts one, and
both scans of it find all that is recent (`ScansFindRecent`).
`RegistryRecoversHolds` follows. `SettledList` is not inductive: `SettledInv`
adds that no load carries a position beyond `registered` (`NumbersBounded`) and
that, unless a load is still to read the registry, the load that read it last
carries it as it is (`LastHoldsRegistry`). So a change of the registry without
a load after it, or a load that reads too early, breaks the induction; a page
that was left and writes takes the position `registered` for itself.

The feed is in the same module. `FeedIsRecentHolds` says the buffer is a
function of the past. `RecentInv` adds the type of `accepted`; `NewestCons` (to
cut before adding is to cut after) and `ReverseAppend` are what a post needs.
`FeedTypeCorrect` bounds the lists the browser and the backend hold. What the
component shows is filtered by a recursive function on the list (`Scoped`). That
such a function exists (`KeepsExists`) and that it yields a list of members, no
longer than the list (`KeepsTyped`), is shown from the least prefix that would
be a counterexample, as the provers have no induction. The history stays within
its bound because it is never longer than the count of trades, which a restart
does not reset (`FeedTypeInv`).

**Witness_proofs**, first the field, for every modulus, radix and width allowed
above. `FrInv` is `FrTypeOK` and what the fetched instruction may be. An element
`Represents` a number when each part its tag names does. Addition and products
go by congruence modulo q (`CongAdd`, `CongMul`, `ModCong`); that R has an
inverse follows from primality (`RadixInverse`), and from it that Montgomery
multiplication multiplies (`MontgomeryProduct`). Then one lemma per operation
(`AddCorrect`, `MulCorrect`, `LessCorrect` and so on): whatever the tags of
the operands and the junk in the target, the result is well formed and is the
result for the numbers. `FrTypeCorrect`, `ReadersAlwaysAgree` and
`FieldImplemented` follow. Two things came out of the attempt: the arms of the
dispatch of `Fr_mul` have to be read in the order of the assembly's tests, as
they overlap, and the largest short number has to be positive, or the 1 that a
comparison returns would not be one.

*The circuit*, for every such prime and all round constants, at its real size.
Every input of a component is fed by one step of one loop. `Due` numbers these
steps and `Fed` reads them back, so different inputs have different steps
(`DueBack`, `DueOnce`). `Position` ties the program's place to the number of
steps done. `CircuitInv` says of each component what it is by comparing that
number with its own: inputs still `Undef`, half filled, or run, with its outputs
computed from its inputs (`Ready`), and each filled input a copy of what feeds
it. A step keeps it because no two components' signals overlap (`Placed`,
`Disjoint`) and because what is copied is there already (`CopiedReady`).
`CircuitRunsOnWrittenInputs` and `CircuitAssignsOnce` follow.
`CircuitComputesPoseidon` chains the equations of the components at the end:
each full round is a layer (`FullLayer`), each of the 56 partial rounds too
(`PartialLayer`), and that they are together what the recursive reference
computes is again an argument from the least round that would differ
(`PartialsAreLayers`).

*The program*, for every set of documents, whatever is flattened from them, and
every hash map whose entries are inputs of main. `LoadInv` is about the book the
loader keeps: the inputs it has marked as set are those with a value; the
circuit is idle while one is missing and was started when none is; a written
witness is a copy of the signals of a circuit that has ended. That a counter of
missing inputs at 0 means all are set is a fact on cardinalities
(`CountInputs`). Every step of the program is then a step the contract of the
circuit allows, or leaves the circuit alone (`ProgramStep`):
`ProgramImplementsCircuit`, so the invariants of the circuit hold in the
program. `TypeCorrect`, and `WitnessIsSatisfying`: a witness is only written
when all of its signals are, and it satisfies the circuit, Poseidon included.

**Checked and not proved.** Liveness, which is out of the prover's reach:
`NeverBricked`, `BetsSettle`, `KeepsTrading`, `TickAnswered`, `LoadingEnds`,
`FeedConverges`, `WitnessOnlyAndAlwaysForProofs`. The last also depends on how
JSON becomes items, in the RECURSIVE operators of `InputDocument`, over which no
theorem can be stated: the proofs take any items. All other properties of the
passing runs are theorems; for the limits of the models themselves see section
7.

## 6. Disagreements between code and documentation

Two runs exhibit a behaviour a comment or a screen denies.

* `bettick_onchain` (`OnchainMeansLanded`). The effects of the bet's
  transaction are not looked at; one that aborted on chain is shown as
  "proof-verified tx".
* `create_recovery` (`RecoveryRestores`). The recovery file pairs the created
  id with the witness on the screen, which "Regenerate" may have replaced; such
  a file restores nothing.

Four more are stated in the modules and found violated by TLC the same way;
the configurations are not kept.

* `TradesForever` of `TradeLoop`. The loop "trades forever within whatever the
  policy allowed; revocation just stops further top-ups"
  (`trade-loop.ts:18`). But the stale orders are cancelled after the top-up,
  and a rejected top-up returns before it: an agent whose base sits in its own
  order never cancels it, and reports "rejected" for ever.
* `RejectionReported` of `TradeLoop`. "Success, policy-rejection
  (budget/expiry/revoked), and failures all show up" in the feed
  (`docs/SUBTRACK2_DEEPBOOK.md:117`). A rejection that is an exception, as one
  found by a dry run is, reaches only the log: a revoked agent can be turned
  down tick after tick without a word.
* `RevertedMeansNoBet` of `BetTick`. The audit blob is written in the same
  `try` as the bet. If it fails, a bet that landed is noted as failed and
  shown as reverted, "No successful bet" (`betting-ui/src/lib/api.ts:32`).
* `RemovedStays` of `Dashboard`. "Remove from this browser"
  (`dashboard-real.tsx:153`) removes an iWallet from `localStorage` and starts a
  load; with its owner connected and the iWallet among the recent activity, that
  load's discovery stores it again (`:53`). The shortest trace is the owner
  connecting, a list, the removal and the discovery. Only what is not recent
  stays away, which `RegistryRecovers` states beside the rest of what discovery
  promises.

Seen while modelling and stated here without a run: an identity whose wizard
was closed before the policy was set is listed by the dashboard all the same,
since discovery asks for no policy (`sui-client.ts:171`), nor do import and
restore; the recipient checked
against `allow_recipients`, "the ONLY address this agent can send funds to"
(`prototype.move:55`), is the one proved, not the one paid, as the coin is
returned to the transaction, which sends it on (`agent/src/vault.ts:175`: to
the agent); at exactly `expiration_ms`
a withdrawal still goes through, although the keys are "useless" then
(`prototype.move:57`, `:222`); `owner_withdraw` needs no proof, although "no
owner key can touch" the object (`:131`); a bet on an outcome that is "not
offered" (odds 0) is accepted (`sportsbook.move:41`, `:146`), and
`createMarketForPick` mints draws at 0 (`iwallet.ts:77`); only bets whose call
returned are audited, not "every bet attempt" (`walrus.ts:4`); the round robin
over the pool starts anew at each tick (`index.ts:64`); a load of the dashboard
that is overtaken by an older one leaves the older list on the screen until the
next load (`dashboard-real.tsx:56`; `SettledList` says that, beside failed
reads, this is the only way); a restored wallet of another owner is "Restored ... to your dashboard",
which filters it out (`restore-from-file.tsx:49`); a poll of the list
before shows the trades of iWallets no longer listed, and a failed
one an empty feed, until the next (`agent-trade-feed.tsx:49`); the feed of a
list takes the newest 20 trades of everybody and filters them afterwards, so
that busy strangers empty it (`:48`); `Fr_mul` says "just save and
return" and does not return, so that a product of two short numbers is always
long (`fr.asm:2396`; harmless, `ImplementsPrimeField` holds).

## 7. What is not modelled

* Cryptography, encodings and formatting: byte layouts, Groth16, keccak256,
  Poseidon outside the witness program, units and decimals.
* The bid side of the loop (its `deposit` funds no order it places), prices,
  queries that decide no transfer, and `trade.ts` (a withdrawal, and a deposit
  with an order in one transaction).
* A second agent or withdrawer on the trade loop's vault: a coin the loop has
  chosen is received by nobody else in `TradeLoop`.
* More than one identity per agent, more than one market at a time in
  `Sportsbook` (markets share nothing).
* Pages that only show data, the CLI stubs, Claude, odds, Walrus and MemWal,
  which are environment; name service, orchestrator and the browser's witness
  calculator (`PROJECT.json` says why).
* Of the witness program: the byte formats of `iwallet.dat` and the `.wtns`
  file, messages, memory allocation beyond `released`; of the field: bitwise,
  shift and logical operations, which the circuit does not use, and the limbs
  under a long number (`Fr_raw...`, `RawFr`).

The map covers a small share of the repository by lines, and cannot cover a
large one: of 218 394 lines of C++, 217 249 are the generated `iwallet.cpp`,
and these are tables and copies: 147 000 lines are four functions that return
the round constants for every width of the hash, 62 000 the 56 templates of the
sparse round, one per round, which differ in three constants. `Circuit` takes
the constants as parameters, says each loop and template once, and is mapped to
one copy of it.

## 8. Plan

Done, in this order: `Delegation`, `Vault`, `Recovery`, `Sportsbook`,
`TradeLoop`, `BetTick`, `CreateFlow`, `Circuit`, `WitnessCalc`, `PrimeField`,
`FieldElement`, `Dashboard`, `TradeFeed`, `InputDocument`, `WitnessProgram`, and
the theorems of section 5.

Next theorems: in `BetTick`, that an audit blob exists for every bet recorded;
in `TradeLoop`, that the vault's staged balance, its pending coins and the draws
add up to what was sent.

Next modules: `TradeTick` (`trade.ts` as a second agent on the same vault,
wallet and BalanceManager as the loop), `AgentName` (`service.ts`, `suins.ts`),
`Orchestrator`.
