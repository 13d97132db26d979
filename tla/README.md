# Verification of the trading bot

TLA+ modules of the parts of this repository that decide whether money moves:
which markets are known, what is seen and forecast of their weather, what the
strategy makes of it, the firewall and the gates before an order, the broker
session and the trading cycle, and what is learned, tuned and told afterwards.
TLC checks them on small instances; TLAPS proves central results for every
value of the constants.

1. [The system](#the-system)
2. [Modules](#modules)
3. [What each run checks](#what-each-run-checks)
4. [What is proved](#what-is-proved)
5. [Where code and documentation disagree](#where-code-and-documentation-disagree)
6. [Abstractions and what is left out](#abstractions-and-what-is-left-out)
7. [Not modelled](#not-modelled)

Commands, in this directory: `tlc -workers 2 -config MC_Sources.cfg MC_Sources`
checks an instance, `tlapm Desk_proofs.tla` checks proofs.

## The system

The bot trades weather contracts on Kalshi. `execution_daemon.py` is the main
process; `sniper_cron.py` runs one cycle of the same code as a second process;
`scripts/watchdog.py` looks on; the cockpit and audits are processes of their
own. They share SQLite databases, JSON files and one exchange account, and,
with few exceptions, no lock.

| Component | State it keeps | Operations | Modules |
|---|---|---|---|
| Entry firewall `forecast/firewall.py` | flag, ticker halts, lockouts, round trips, realized events | five-gate check, exit records, daily reset, settlement sync | `Firewall` |
| Broker session `execution/kalshi_broker.py` | `_open_positions`, its authority and age; the paper account's file | sync, orders, hydration, cancel-and-confirm, sweep; shadow execution | `Broker`, `OrderDesk`, `Paper` |
| Trading cycle `forecast/runner.py`, `execution_daemon.py`, `runtime/position_reconciler.py` | loop position, candidates, admitted book | startup, exits, candidates, swap, monitor | `Trading`, `Entries` |
| Execution controller `execution/kalshi_execution_controller.py` | pacing times | plan, refresh, gates, order | `Entries`, `Trading`, `Release` |
| Discovery and catalogue `forecast/discovery.py`, `forecast/db.py`, `forecast/market_snapshot.py` | events, contracts, quotes, position rows | list, write, clean up, expire, poll | `Universe`, `Trading` |
| Strategy and sizing `forecast/strategy_engine.py`, `covariance_engine.py`, `config.py`, `runtime/economics.py` | tuned parameters | vetoes, choice of a side, size, fees, rails | `Admission`, `Entries` |
| Weather monitor `data/kalshi_weather_monitor.py`, `forecast/weather_contracts.py` | watermark file, provider cache and slot, records, snapshot | observe, forecast, restore, read a contract | `Watermarks`, `Forecasts`, `SingleFlight`, `Contracts` |
| Release gate and lane state `runtime/release_gate.py`, `operator_truth.py`, `runtime_state.py`, `scripts/release_audit.py` | audit artifact, lane row, heartbeat | audit, deploy, promote; three looks before an order | `Release`, `Readiness` |
| Incidents and sentinel `runtime/incident_tracker.py`, `sentinel.py` | incident rows, marks, state file | ingest, alert, recover | `Incidents`, `Sentinel` |
| Outcomes `intelligence/outcomes.py`, `forecast/resolution_sync.py` | training table, resolution rows | official and provisional writes | `Outcomes`, `ResolutionRegister`, `Contracts` |
| RBI intelligence `intelligence/rbi2.py`, `cerebro.py`, `runner.py` | artifacts, insights, experiments | train, score, process, propose | `Promotion`, `WeightRegister`, `Cerebro` |
| Approvals, mutation ledger `runtime/approvals.py`, `agent_mutation_ledger.py`, `learning/agent_optimizer.py`, `runtime/post_deploy_soak.py` | requests, mutations, `hub_params.json` | request, resolve, execute, apply, roll back | `Promotion`, `Cerebro`, `Tuning` |
| Journal, storage, notifications, dashboard, scripts | logs, caches | append, report | not modelled |

### What is hard about it

* **Two processes on one database.** An entry check reads four tables in five
  transactions; discovery, settlement sync, incident sync and the intelligence
  cycle each read, think and write in transactions of their own, and a second
  process does the same at the same time.
* **HTTP calls that may not answer.** A POST is sent once; an error says nothing
  about the order. A compact reply does not give the fill and the read that
  completes it may fail. Immediate-or-cancel orders have been seen to rest.
* **Cached books, rows and files.** Caps and exits read `_open_positions`; the
  gate reads an artifact another process rewrites in place; two threads each
  overwrite one watermark file from dictionaries of their own.
* **Long cycles.** Minutes pass between a candidate's evaluation and its order.
  Every rail is computed from what was read at some earlier moment.
* **Several records of one fact.** Exchange, cache, position rows and ledger;
  training table and resolution row; approval and artifact; parameter file and
  mutation log. Each write may fail, and the process may die between two.
* **Time that turns.** A UTC day, a settlement day, a moved close time, a
  cooldown, a heartbeat and an audit age, each with readers before and after.

### What makes each component correct

* *Firewall*: no entry passes a bar that stood while it was checked; halts are
  permanent; a day's loss counts once, with the official amount in the end.
* *Broker session*: the cached book equals the exchange except where something
  unreported happened; a cancelled order cannot fill; a successful sweep leaves
  nothing it found. The paper account is what its journal says.
* *Trading cycle*: entries never pass the cap nor double a position, rows close
  only on flat positions and agree with the exchange after a cycle, every close
  reaches the ledger; every rail still stands when the order goes out, unless
  the account moved after the last look.
* *Discovery*: a closed market is dropped for good, a tradable one is evaluated
  again and again.
* *Strategy*: what is bought clears its hurdle at its own size, and no veto of one
  side spoils the other.
* *Weather*: a watermark was observed, on its day; one fetch at a time and none
  inside the cooldown, yet forecasts recover; the contracts of a day have one
  winner.
* *Gates*: an order leaves on a passing audit of the build and container that
  sends it; what must stop it does; what is refused has its reason.
* *Outcomes and learning*: an official result is never turned back into a guess,
  no answer is recorded twice running, weights in use were validated and
  approved, an approval acts once.
* *Alerts*: counts are exact, every escalation is marked and told, and not again
  and again.

## Modules

```
Firewall, Readiness, Tuning, Admission
           <- MC_Desk <- Desk_proofs;  Firewall <- MC_Firewall
Broker     <- Trading <- MC_Trading, MC_Cycle
Broker     <- Broker_proofs <- Trading_proofs (with Trading)
Broker, Watermarks, Entries, Contracts, Paper
           <- MC_Sources <- Sources_proofs (with Broker_proofs);  Watermarks <- MC_Bust
Release, Incidents, Sentinel, Forecasts
           <- MC_Operations <- Operations_proofs;  Incidents <- MC_Alerts
Outcomes   <- Outcomes_proofs
Universe, Outcomes, Cerebro, Promotion
           <- MC_Learning <- Learning_proofs (with Outcomes_proofs)
Sums_proofs <- Desk_proofs, Sources_proofs

implements (INSTANCE ... WITH):
Broker -> OrderDesk    Forecasts -> SingleFlight
Outcomes -> ResolutionRegister    Promotion -> WeightRegister
```

`Trading` composes the cycle with the broker session. The four larger MC modules
(`MC_Desk`, `MC_Sources`, `MC_Learning`, `MC_Operations`) put modules that share
no variable side by side: a variable `focus`, which no step changes, says which one
moves, so their state spaces add up instead of multiplying.

Four small modules say what a component promises to whoever uses it, without the
machinery that keeps the promise; the component implements them under a refinement
mapping, which TLC checks as a property and TLAPS proves:

| Abstract module | Promise | What implements it, and the mapping |
|---|---|---|
| `OrderDesk` | an order trades no more than was asked, one that is over trades no more, and only such are reported gone | `Broker`: `SeenAll` are the orders at the exchange, `Told` what the last answer reported gone |
| `SingleFlight` | one thread at a time asks a provider, and none for a while after a failure | `Forecasts`: the threads that are `Fetching`, the age of the last failure, the restarts |
| `ResolutionRegister` | an official answer wins, and is not turned back | `Outcomes`: the published answers and the resolution rows |
| `WeightRegister` | weights come into use when asked for and cleared in their epoch; only a redeploy brings the baseline's back | `Promotion`: `Requested`, `Cleared`, the champion's weights |

### Firewall

One variable per table, plus the position of every process. `pc[p]` is the gate
an entry check has reached; each SQL transaction of `check_entry_firewall` is
one action, so anything may happen between two of them.

| Action | Code |
|---|---|
| `ReadFlag`, `HealFlag` | `is_entries_allowed_today`: the read, then (in another connection) the self-healing reset |
| `ReadLoss`, `CompareEdge`, `BlockEntries` | `check_kill_switch`, `set_entries_blocked` |
| `CheckHalt`, `CheckLockout`, `CountTrips`, `WriteHalt` | gates (c), (a), (b) |
| `CheckFails` | a database error anywhere: the caller refuses the entry |
| `ExitFill`, `RecordExitLockout`, `RecordRoundTrip`, `RecordRealizedPnl`, `WriteFails` | what the runner writes after an exit, in the order of that kind of exit, and what is skipped when a write raises |
| `BeginCycle` | the daemon's reset at its UTC day turn, which may fail and be retried |
| `SyncOfficialSettlementPnl`, `SyncFails` | the start of `run_execution_cycle` |
| `CoherenceHalt` | `check_quote_coherence` in the monitor |
| `Restart`, `Tick`, `Settle` | the process, the time and the exchange |

`standing` and `lossExited` are history variables: no action reads them.
`Observe` keeps, for each check in progress, the bars that have stood in every
state since it began. That is the strongest promise a check of several
transactions can make: what appears half way may be missed, what stood
throughout may not.

### Broker

The session of one process (`cache`, `snapshot`, `call`, `sweep`, `result`) and
the exchange behind it (`held`, `order`). The exchange is external: it does what
the client code expects or defends against. Each request of a call is a step:
a `Post`, then `Hydrate` or `Cancel` and up to three `Confirm`s. Between two
steps the `World` moves: a resting order fills, a request whose reply was lost
arrives, an accepted cancel takes effect, settlement or a hand changes a
position, the snapshot ages. `blind` is the history of what the process cannot
know: tickers changed since its last successful sync without a reply saying so.

`ApplyFill` is `_apply_entry_fill` and `_apply_exit_fill`: the exit's fill is
clamped to the cached quantity. `SyncFails` is every unusable reply: the book
stays and loses its authority. `Client` is any caller; that what holds for it
holds of the trading cycle is the theorem `DaemonKeepsSession`.

### Trading

`Trading` EXTENDS `Broker` and replaces `Client` by the daemon. `at` is its
place in the cycle, `todo` the candidates or positions its loop has left,
`deal` what it has in hand, `db` the active row of `forecast_positions`. An
action is the code between two calls of the broker. The book of the second
refresh is compared with the admitted one (`RefreshSubmissionRiskState`), the
snapshot must be fresh at the POST (`Submit`), and admission counts against the
base cap while the room after a swap counts against the candidate's own.

Histories: `strays` are positions the world opened (a late or resting order of
this process included), `unrecorded` the tickers with a full close the firewall's
ledger was not told of, `uncertain` whether this cycle left an order it could
not prove cancelled.

### Entries

The rails of one sweep over the daily weather markets, in cents: cash, deployed
share, event share, position cap, region lean. `offers` are the candidates of the
evaluation, `pick` the one in hand, `seen` and `bankroll` what was last read of
`positions` and `cash`, `moved` and `late` what changed since.

| Action | Code |
|---|---|
| `PositionMoves`, `CashMoves` | the account: settlement, a hand, the other process |
| `ReadCash`, `ReadPositions` | the start of `run_strategy_cycle` and the evaluation's snapshot |
| `NotApproved`, `Evaluate`, `Select` | `evaluate_market_snapshots`: charge, hedge guard, one market per slot |
| `Veto`, `RefreshBook`, `Turn`, `Admit` | the candidate loop's refreshes, duplicate guard, rails and region shrink |
| `Replan`, `RefreshFunds`, `RefreshRiskBook`, `PostEntry` | `plan_entry` on new quotes and depth, then `execute_plan` |
| `EndSweepOfMarkets` | the loop's end |

### Admission

One market from probabilities and quotes to a side and a size. `Choose` is
`evaluate_contract`: side and vetoes (`SideOf`), floor, conviction and cap, the
solver of the size in five rounds (`Sized`), clamps, and the market gate, with
ceiled fees. `Evaluate` does so once, `MarketShows` changes the market, `JarvisTunes`
is the cockpit's `update_system_parameter` behind its shield.

### Universe

Which markets a cycle evaluates. `eventsOn`, `rowsOn`, `settledRows` and `quotes`
are the tables; `pass[p]` is where a process is in its discovery.

| Action | Code |
|---|---|
| `Opens`, `ClosesEarly`, `CloseMoves`, `HourPasses`, `Settles` | the exchange, the clock, the settlement sync |
| `BeginPass`, `Disconnected` | the start of `run_discovery`, and a broker that is not connected |
| `ListSeries`, `SeriesSkipped`, `ListingBreaks`, `Rank` | `discover_markets` series by series, and its window and order |
| `Persist` | the upserts of one market, a side at a time may fail |
| `CleanEvents`, `CleanContracts`, `NotCleaned` | the clean-up of what was not found |
| `ExpireRows`, `PollQuotes`, `EvaluateMarkets`, `NoEntries` | retire, poll, snapshot and age limit |

`owed` is a history: the processes that have not been through a clean-up of a
pass begun after a market closed.

### Watermarks, Forecasts, Contracts

`Watermarks`: `marks` is the file, `writer[w].marks` each thread's own dictionary,
`shown` the intraday part the trading cycle reads.

| Action | Code |
|---|---|
| `Report`, `DayTurns` | METAR, the station's settlement day |
| `Begin`, `Observe`, `ObserveNothing`, `OpenMarks`, `CloseMarks`, `LeaveOut` | a thread's sync: load, take the maximum, rain and trend, rewrite the file in place, publish |
| `BeginForecast`, `EndForecast`, `DropForecast` | the forecast sync carrying the intraday part along |
| `LoadSnapshot`, `WatermarksDie` | restart |
| `BustExit` | the monitor's exit on a settled extreme |

`Forecasts`: `Ask`, `InCooldown`, `MustWait`, `Lead`, `Fetch`, `SetCooldown`, `Release`,
`StopWaiting`, `Show` are one thread's way through cache, cooldown and slot
(`_cached_provider_record`, `_claim_provider_fetch_slot` and their kin), each look a
step of its own;
`Restore`, `Restart`, `ProviderTurns`, `ForecastTick` are the daemon, the provider and
the time.

`Contracts`: `Semantics(r)` is what `weather_contracts.py` makes of a title, or of a
ticker and strike; `SourceShows`, `DayEnds`, `DeadlinePasses`, `CacheExpires` are the
sources and the day; `SyncRow` is one provisional resolution.

### Release, Readiness

`Release`: `OpenArtifact` empties the file, `CloseArtifact` fills it, twice per audit.

| Action | Code |
|---|---|
| `TurnBad`, `TurnGood` | the conditions the gate looks at |
| `BeginAudit`, `Collect`, `OpenArtifact`, `CloseArtifact` | `scripts/release_audit.py`, hosted |
| `Seed`, `Recreate`, `ContainersRestart` | `deploy.sh` |
| `FirstGate`, `ReadRelease`, `DynamicGate`, `RefreshRisk`, `FinalGate`, `PostOrder`, `AttemptReturns` | `execute_plan` of one entry |

`Readiness` is the report behind the gate: `BeginExecutionCycle`, `Discover`,
`BeginSweep`, `EvaluateAll`, `SkipSweep`, `EndSweep`, `Monitor`, `Cache`, `LoopDies` are a
cycle's writes of the lane's row and what it takes from it; `Attempt` is an entry's
look; `Audit` and `Promote` the hosted and the operator's audit; `SeriesTurns`,
`WorldTurns`, `TimePasses` the world.

### Outcomes, Promotion, Cerebro, Tuning

`Outcomes`: `Close` and `Finalize` are the exchange; `BeginSync`, `Ask`, `ReadCurrent`,
`WriteRevision`, `UpdateLegacy` the official sweep, one step per request and
transaction; `BeginGuesses`, `NoTruth`, `Observe`, `EndSync` the provisional one;
`AskFails`, `MarketFails`, `SyncDies` the faults. It INSTANCEs `ResolutionRegister`
with the published answers and the resolution rows.

`Promotion`: `Train`, `StillLearning`, `NewEpoch` are `rbi2.py` and a redeploy;
`RequestChange` is `request_change` with its deduplication; `Resolve`, `Execute`,
`Promote`, `Mark` the transactions of one `resolve()`; `ResolverDies` a session's death.

`Cerebro`: `BeginCycle`, `Score`, `Notice`, `BeginProcessing`, `ProcessRow`, `Propose`,
`ProposedAlready`, `MarkPending`, `LockedOut`, `EndCycle` are one intelligence cycle. Its
open transaction (`staged`) holds SQLite's write lock while a request for approval
waits on another connection: from the second update on a cycle locks itself out,
and rolls back. `CreateExperiment`, `AgentProposes`, `Answer`, `CyclerDies` are the rest.

`Tuning`: `ReadConfig`, `Record`, `Apply`, `TakeBack`, `Conclude`, `Abandon` are
`agent_optimizer.py` under its file lock; `BeginSoakPass`, `Degraded`, `RollBack`,
`MarkReverted`, `SoaksOn`, `EndSoakPass`, `Ripens` the soak monitor without it.

### Incidents, Sentinel, Paper

`Incidents`: `LogEvent`, `Expire`, `RecordIncident` feed it; `ReadEvents`, `Upsert`,
`SelectAlerts`, `Push`, `MarkAlerted`, `CommitMarks` are one
`sync_incidents_and_notify`; `LockTimeout`, `SyncerDies` what goes wrong.

`Sentinel`: `BeginPass`, `Alert`, `Recover`, `TellNothing`, `CheckRaises`, `SaveState` are a
pass over the checks and their file; `Tick`, `ProblemBegins`, `ProblemEnds`,
`DaemonDies` the world.

`Paper`: `PaperConnect`, `PaperRead`, `PaperSync`, `ShadowBuy`, `ShadowSell`, `OpenBalance`,
`WriteBalance`, `BalanceNotSaved`, `LogTrade`, `PaperDies`: shadow execution, with the
balance file rewritten in place.

## What each run checks

| Run | Module | Foci and instance | Distinct states |
|---|---|---|---|
| `firewall` | `MC_Desk` | *firewall*: one daemon, a watchdog, one ticker, two days of two ticks, two exits, a loss and a gain (543 k); *gate*, *lane*, *promotion*: one loop, two series, one world move, one audit (69 k); *tuning*: two optimizers, two keys, two mutations (62 k); *market*: 1,500 markets under the constants of `config.py` (5 k) | 0.68 M |
| `firewall_ledger` | `MC_Firewall` | daemon and cron, one exit, fair cycles | 59 k |
| `sources` | `MC_Sources` | *broker*: one ticker, two lots, two orders, one change from elsewhere (0.56 M); *overwrites*, *turns*: two threads, two reports, two days, one death; *slots*, *families*: three markets of one region; *ladder*: four rungs, six readings; *paper*: two processes, two trades | 1.25 M |
| `trading` | `MC_Cycle` | *lots*: two tickers, two lots, two orders, a crash or a change from elsewhere, cap 1; *swaps*: three tickers, one ultra-conviction, three orders of one lot, cap 1 and bonus 1 | 1.02 M |
| `learning` | `MC_Learning` | *two scanners*, *slips*, *hours*: three markets of two events; *outcomes*: two markets, one never finalized, two processes; *queue*, *race*: a challenger's and a review's experiment, one or two threads; *sessions*, *redeploys*: two challengers, two cockpits, two requests, an epoch, a death | 0.16 M |
| `operations` | `MC_Operations` | *releases*, *conditions*: two builds, two audits, one deploy, three conditions; *two syncers*, *two incidents*: two events; *sentinel*: two checks; *forecasts*: two threads, one restart | 0.13 M |
| `firewall_resume`, `firewall_lockout`, `trading_closes`, `trading_uncertain`, `incidents_untold`, `bust_of_yesterday` | `MC_Firewall`, `MC_Trading`, `MC_Alerts`, `MC_Bust` | one sentence of the repository each | stop at the trace |

What the passing runs show, besides one type invariant each:

| Property | What it says |
|---|---|
| `StandingBarVetoes` | no check allows an entry over a bar that stood from its begin to its end |
| `DayBucketsExact` | the day's loss is the sum of its events, official where known |
| `HaltsArePermanent` | no step lifts a ticker halt |
| `OfficialReplacesProvisional` | a provisional exit record gives way to the settlement's |
| `LaneIsShownAsItIs` | the gate refuses only for troubles of the world; a build promoted as ready passed its audit where it runs |
| `TuningIsLogged` | the log's last accepted mutation is what the file holds; a soak pass takes back all of a key |
| `MarketChoicesAreSound` | a choice clears its hurdle at its size, is not lost to the other side's veto, and no round of its solver buys more for less Kelly |
| `CacheGrounded` | the session's cached book |
| `ImplementsOrderDesk` | what a cancel or a sweep reports gone was over when it said so, and trades no more; this contains `CancelledIsGone` and `SweepClears` |
| `WatermarksAreObserved` | whatever thread overwrites which file, a high was read on its day and no rain counts twice |
| `EntriesSound` | every rail stands when the order goes out unless the account moved after the last look; one order per slot; nothing held in its market but what appeared late |
| `OneRungWins` | of the contracts of an event resolved on one reading, one wins |
| `BalanceFollowsTrades` | the paper balance is what its journal says, unless executions overlap or a write is cut short |
| `RowsMirrorBook`, `RowsCloseOnFlat` | position rows after a cycle, and when they close |
| `NeverDoublesDown`, `EntriesHaveRoom`, `CapOverrunOnlyByStrays` | what an order may do to positions and cap |
| `ClosedIsDropped`, `OpenIsEvaluated` | a closed market is gone for good; a tradable one is evaluated again and again |
| `NoAnswerTwice`, `LegacyFollowsRecord`, `FinalizedIsRecorded`, `ImplementsRegister` | the two resolution writers, and the register they implement |
| `OperatorDecides`, `OldestIsHeard` | promotions stay the operator's, and the oldest confirmed experiment reaches him |
| `InUseIsGoverned`, `ImplementsWeights`, `ActsOnce` | the weights in use were vetted, of this epoch and approved, and change only as `WeightRegister` says; a request acts once unless contested or interrupted |
| `PostsAreAudited`, `BlockersStopPosts` | on which audit an order leaves, and which conditions stop it |
| `CountsAreExact`, `EscalationIsMarked` | incidents count each event once, and growth in severity is marked |
| `TellsOnce` | the operator is told of what stays wrong and of its end, and not again and again |
| `FetchesRecover` | one fetch at a time, none inside a cooldown, as `SingleFlight` says, and forecasts recover with the provider |

`PostsAreAudited`, `ActsOnce`, `CountsAreExact`, `LegacyFollowsRecord`, `RepeatsWait` and
`BalanceFollowsTrades` name exceptions. Each exception is a behaviour of the code
that the model reaches (a stray audit between a deploy's seed and its restart; a
session that dies between executing and marking; two syncs that read the same
events; an update cut off from its record; a daemon that dies before it saves;
two processes on one balance file), so the property says exactly how far the
promise goes.

### Bounds

* *Time.* Two days of two ticks give an instant before and after midnight on
  both sides, so a check can begin on one day and end on the next, and a block,
  a loss or an official row can lie on either. The oscillation window (one tick)
  and the edge window (longer than the run) both open and close within it.
  In *hours* the window of tradable leads is one hour of three, so a market
  enters, stays, leaves, and one close moves across it. Heartbeats, cooldowns and
  weather ages stop one past their limit, the only thing their readers compare.
* *Orders.* Two exits suffice for a loss and a gain on one day, an oscillation
  halt (limit 2), and a provisional event recorded before and one after the
  settlement. Once a second exit has filled, the watchdog asks no more. Two
  broker orders suffice for one that is lost or rests while a second is in
  flight; a swap takes three (entry, sale, entry).
* *Lots.* Two, so that a fill can be partial and its remainder rest. The swap
  focus has one: the cap counts positions, not contracts.
* *Tickers and markets.* The broker session treats tickers independently, so one
  is enough there. The cap relates two; a swap at a cap with a bonus three.
  Slots and families relate two strikes of one high and its low. A ladder has a
  tail, two ranges and a tail, so all kinds of neighbours meet.
* *Rails.* In `Entries` they are scaled to two contracts of 40 or 42 cents and an
  account of 12 or 16 dollars, so that each binds: 80 cents per position, 12 %
  Kelly, 8 % per event, 10 % deployed, 7 % per region.
* *Markets of `Admission`* are built from a plain one: prices of both sides
  against the probability; size, depth, room and certainty; models that differ;
  and one thing at a time that stands against an entry.
* *Elsewhere, crashes, faults.* One or two: each property is about one surprise
  the process has not heard of. Two faults, so that a retry may fail too.
* *Repeated alerts.* Counts at which an alert repeats are 2 and 2 (3 and 5 in the
  code), so that two events reach one.

Actions are limited only by these bounds, which the modules' constants and the
`focus` guards of the MC modules name.

`MC_Cycle` and `MC_Trading` use a VIEW: an order that is over and that no pending
call asks about counts only as one of the orders sent. No guard or property of
`Trading` reads more of it. `MC_Cycle` permutes the tickers that are not
ultra-conviction: nothing else tells tickers apart, and the properties quantify
over all of them. No run with a liveness property uses symmetry.

Deadlock is checked in every run. Two foci come to an end by their bounds (a
ladder whose day is over, a tuning whose mutations are used up), which a
stuttering disjunct says.

### Fairness

Fairness is assumed of what the code schedules. A trader's own steps in
`FairSpec` of `Firewall` are weakly fair, because it is a sequential program whose
calls time out (sqlite after 30 seconds, HTTP after 10). Ending the strategy
phase and reading the settlements are strongly fair: candidates and positions
are finitely many, and an exchange that can be read again and again is read some
time. In `MC_Learning` and `MC_Operations` each process goes on, weakly fair, with
its discovery pass, result sweep and intelligence cycle, or with its incident
sync, sentinel pass and forecast fetch: they run in loops that catch every
exception. The sentinel's and the forecasts' clocks tick. Sending on Telegram is
strongly fair, so a failed message succeeds some time. A pass of the forecast
threads spans less than two ticks, for each request has a timeout and the wait
for another's fetch a deadline. Faults and deaths are bounded and none of them
fair. No fairness is assumed of the exchange, exits, settlement or reviews.

## What is proved

Each theorem holds for every value of its module's constants that satisfies the
module's named ASSUMEs, bounds included. These say that a set is finite, a bound a
natural number, a map a function on its set, a model value outside the set it is
told from, a day or an hour of positive length; those of `Admission` say which
shape a market has. No assumption fixes a size.

Every safety invariant, every action property and every refinement of the passing
runs is stated by a theorem. The four modules that are checked side
by side are proved side by side: each of their steps is a step of the module in
focus and leaves the others alone (`StepsAreTheirs`), so a behaviour of the whole
is one of each part (`DeskIsItsParts`, `SourcesAreTheirParts`, `LearningIsItsParts`,
`OperationsAreTheirParts`), and what is proved of a part holds of the whole.

`Sums_proofs` holds what several of the others need. Induction over data being out of
the prover's reach, a fact about every finite subset is shown on a smallest
exception (`Smallest`, from the well-founded order of finite sets). In this way the
folds of the models are sums: there is a function that sums each subset, there is
one only, it does not depend on the order (`IsSum` and the lemmas on it), and adding,
dropping or changing an element changes it by that element's share.

`Desk_proofs`:

* Firewall, for any traders, watchers, tickers, day length, windows and limits.
  `TypeInvariant`; `HaltsStay`, one step per action: only `WriteHalt` and
  `CoherenceHalt` write `halted`, and they add.
* `FirewallVetoes`: `Spec => []StandingBarVetoes`, which speaks of the verdict only
  and is not inductive. `GateInv` adds what each gate has established: a check
  that has left the flag carries no standing "blocked" bar, one that has read the
  loss none for the loss (or it is on its way to the block with the amount it
  read), and so on through halt, lockout and round trips. A lockout in the table is
  the one its history says (`lossExited`), since the gate reads the table and the bar is
  defined from the exit. The step of another process can only remove bars from
  `standing` (`OthersStep`); the step of the check itself is `OwnCheck`, one case
  per gate.
* `BucketsAreSums`: `DayBucketsExact`, for any number of days and orders. `BucketsInd`
  adds that no fill writes its event twice (`EventsOnce`), as orders of fills under
  way are each one trader's (`OrdersApart`). An event moves one day's sum by its
  amount; an official row takes the place of the exits of its market on whatever
  days they were booked.
* Readiness, for any series, limits and loops: `ReadinessTypes`, `LaneIsShown`. A
  refusal for the heartbeat means that the loop's own stamp is old or failed, for
  `StampsFollow` ties the row's age to the loop's; one for the balance comes with the
  audit's own comparison (`AuditsCompare`).
* Tuning, for any keys, values and optimizers: `TuningTypes`, `TuningLogged`. The lock
  has one holder who knows the newest state of its key (`LockHeld`); in a pass
  that nobody disturbs, what is judged is newer than what is queued, and a key all
  of whose judgements were reverted is back where the oldest of these found it
  (`PassIsClean`); while no write was lost, the newest mutation that stands tells the
  value in force, also in what each reader holds (`LogIsTrue`).
* Admission, for any market of the shapes the engine meets: `EntriesAreWorthIt`. What
  is bought is affordable out of the budget, clears the hurdle of its price, and
  no side is refused for the other's sake. It needs the fee's rounding, that a
  round trip is worth more the likelier the side (`RoundTripIs`), the solver's
  five rounds written down one after the other, and that a choice is of the side the
  market clears (`SideTaken`). From one size, a round buys no more for a lower Kelly
  fraction (`RoundsRiseWithKelly`), for a quotient is monotone in what is divided
  (`QuotientIsMonotone`) and so are the spend and what the book gives for it.
  `MarketChoices` is the same of the desk as a whole.

`Broker_proofs`, for any tickers, order sizes and numbers of orders:

* `BrokerTypeInvariant`. The facts it turns on are those of `TradeEffect`: a fill
  keeps to its order's size, and a sell to what is held.
* `CancelIsFinal` and `SweepIsFinal`. Both rest on `Onward`: between any two
  states orders only move on, so an order that is done stays done
  (`WorldEffect`, `CancelEffect`). The invariant `Final` adds what a call knows
  at each place: a cancel outside a sweep is of the latest order; an order under
  confirmation has a cancel accepted or is done, so one that is missing from the
  listing is done; in a sweep, whatever is neither left to do nor failed is done.
* `CacheIsGrounded`. `CacheGrounded` is silent about the ticker of an order whose
  fill is being read. `CacheProven` says what must hold there: the order accounts
  for the whole difference between the book and the exchange (`Accounted`), which
  is what makes the clamped exit of `ApplyFill` land on the exchange's quantity.
* `SessionImplementsOrderDesk`. A step of the exchange trades with one order that is
  not over (`DeskTrades`), a POST adds one (`DeskPlaces`), and any other step leaves all
  orders as they are seen, so it may tell anew (`DeskTells`); by `Final` of the next
  state, what it tells is over.

`Trading_proofs`, for any caps, bonus, tickers and number of crashes:

* `StepIsClient`, `DaemonKeepsSession`: every step of the daemon is a step of
  some client of the session (`AnyStep`, which bounds no quantity), so the
  three session invariants hold of `TradingSpec`.
* `DaemonImplementsOrderDesk`, in the same way.
* `TradingTypeInvariant`, by `DaemonEquips`, one step per action.
* `NoDoubleDown` and `EntriesFit`. The invariant `Ready` carries the admission
  through the cycle: the book in hand at "planned" has the ticker flat and room
  under its cap, and at "submit" that book is the cache. With the grounding of the
  cache this gives both at the POST (`EntryGrounded`).
* `RowsStayOpen`: `SaleTold` ties the result of an exit to the cache of the
  ticker it sold, so that a remainder of zero means a flat position.
* `RowsAgree`: `RowsFollow` says of each place of the cycle which tickers a row may
  differ in, and why; between cycles that is what `RowsMirrorBook` allows.
* `CapHolds`: the positions that entries opened only shrink, but by an order that is
  sent (`OwnShrinks`), and whoever sends one knows of them all (`OwnSeen`).

`Sources_proofs`:

* Watermarks, for any days, reports, temperatures and deaths: `WatermarksTypes`,
  `WatermarksObserved`. Reports and what was read of them only grow, so what was
  sound stays so wherever it is copied, and the larger of two sound highs is sound.
  That rain is not counted twice needs that it is bounded by the key of the last wet
  hour (`RainWithinKey`).
* Contracts, for any ladder and readings: `ContractsTypes`, `LadderHasOneWinner`. A
  resolution is what its reading says of a contract that can be read (`AsRead`), so two
  winners on one reading would be two rungs that hold it.
* Paper, for any processes, legs, quotes and account: `PaperTypes`,
  `PaperBalanceFollows`. Memory, file and journal differ by the one execution under
  way, at each of its places by what it has not yet written (`Ahead`).
* Entries, for any markets, families, regions, balances and caps: `EntriesTypes`,
  `RailsStand`. The rails hold for what was admitted on what was read
  (`RailsAdmitted`), the order costs no more than that (`OrderFits`), and what was
  read is still so unless the account moved (`ReadingsStand`).
* With Broker, `SourcesTypes`.

`Outcomes_proofs`, for any processes, markets, answers and faults:

* `OutcomesTypes`, `AnswersAreRecordedOnce`. The comparison with the last answer
  is made before the transaction, so `NoAnswerTwice` needs `WritesAreFresh`: a
  process about to write knows a revision that is still the last one and differs
  from its answer, or one that the unique index will refuse. `HeldWasGiven` and
  `RecordedWasGiven` say that answers in hand and in the table were published.
* `LegacyFollows`, and `OutcomesImplementsRegister`: every step of the sweeps maps to
  a step of `ResolutionRegister` or to a stutter (`RegisterSteps`), with
  `FinalizePublishes` for the exchange and `GuessNeverOverwrites` for the
  provisional writer.

`Learning_proofs`:

* Universe, for any processes, markets, hours and faults: `UniverseTypes`,
  `ClosedStaysDropped`. A process that has cleaned up since a market closed knows
  it as past in every later pass (`Informed`), so a row of a closed market is always
  somebody's to clean up (`RowsOwed`).
* Cerebro, for any threads, reviews and challengers: `CerebroTypes`,
  `PromotionIsTheOperators`. An experiment says "pending" or "confirmed" of a
  challenger for which a request was made or decided, and so do the updates
  that a thread has staged and not committed (`Justified`, `CycleJustified`).
* Promotion, for any artifacts, sessions, requests, epochs and deaths: `PromotionTypes`,
  `WeightsAreGoverned`: there is one champion, it was vetted and a request asked
  for it, which rests on what a session at each place has done about its request
  (`SessionsSound`). `RequestsActOnce`: of a request that was neither contested nor
  interrupted, one session at most is on it, and what has been done about it shows
  in its status or in that session (`RequestsAccounted`).
* `WeightsComeInOrder`: every step of a session, a retraining or a redeploy maps to a
  step of `WeightRegister` or to a stutter. That needs that a session about to promote
  holds an artifact of this epoch (`PromotesOfEpoch`) and that training leaves alone
  what was vetted (`VettedStand`): otherwise weights of an earlier epoch could come
  back, or be cleared without being asked for.
* With Outcomes, `LearningTypes`.

`Operations_proofs`:

* Release, for any builds, audits and deploys: `ReleaseTypes`, `OrdersAreAudited`. An
  artifact in the file vouches for the container that runs or a stray wrote it
  (`ArtifactVouches`); who audits is of this container, and a stray once a deploy is
  seeded (`AuditsOfThisContainer`). `BlockersStop`: `BadThroughout` says which looks of
  the attempt a standing condition has passed, and on which artifact.
* Incidents, for any prints, events and syncers: `IncidentsTypes`,
  `IncidentsCountExactly`. What a sync has grouped it has counted, and nobody has
  added it up meanwhile, unless two syncs overlapped on it (`GroupsStand`,
  `SharedOverlaps`); then events up to an incident's last one split into those counted
  before and those of the group.
* Sentinel, for any checks, cooldowns and deaths: `SentinelTypes`, `RepeatsAreSpaced`.
  What was told of a key is marked in the state that the next look at it sees
  (`MarkedAsTold`).
* Forecasts, for any cooldown, expiry and restarts: `ForecastsTypes`,
  `FetchesKeepApart`. A fetch that failed less than a cooldown ago is cooled for, or
  is about to be (`FailuresCool`). `FetchesImplementSingleFlight`: of the many steps of
  a thread, the lead takes off, the failed request fails, the release lands, and all
  others are stutters (`AsksFly`), since the slot is free only when nobody fetches.
* The four together, `OperationsTypes`.

Only model-checked, or left open, are:

* the liveness properties (`OfficialReplacesProvisional`, `FinalizedIsRecorded`,
  `OldestIsHeard`, `OpenIsEvaluated`, `EscalationIsMarked`, `TellsOnce`, and the recovery
  in `FetchesRecover`), which are beyond the prover;
* the solver from its first round to its last under two Kelly fractions, for which
  no run states a property, since none would be true for every value of the constants:
  `LessKellyBuysNoMore` compares them round by round. Two fractions reach a round from
  different sizes, and the smaller size may share a smaller fee. An enumeration finds no
  exception up to an account of about 3,800 dollars, but at 4,800 dollars, a price
  of 36, a probability of 59 and a multiplier of 2 per cent a Kelly fraction of 31
  buys 14 contracts and one of 30 buys 15. The code computes in floating point and
  the model keeps multipliers in whole per cents, so such an exception may be of the
  model's rounding.

## Where code and documentation disagree

Six runs are expected to fail; each checks one sentence of the repository.

* `NoIntradayResume`: `reset_daily_flag` promises that "only UTC day boundary may
  lift the kill switch" (`firewall.py:614`). It resets whatever it finds. The
  daemon calls it on the first pass of its loop after midnight, which may be
  hours into the day, and so lifts a block written that day.
* `LossExitLocksTicker`: a loss exit blocks the ticker "until after settlement"
  (`firewall.py:130`). With no known resolution time the lockout is empty.
* `ClosesAreRecorded`: "called from runner.py after every position close"
  (`firewall.py:375`). In the position monitor a remainder of `0.0` is falsy in
  `remaining_position_qty or qty`, so a full exit is taken for a partial one:
  the row is written open again and the close is never recorded. A swap whose
  refresh fails also loses its record.
* `UncertainCancelStopsEntries`: "Stopping candidate loop because order
  cancellation is uncertain" (`runner.py:2105`) is guarded by two statuses the
  broker never returns; it returns `unexpected_resting_uncertain`.
* `MarkedIsTold`: "all events are written to the `notifications` SQLite table ...
  mirrored to Telegram" (`notification_engine.py:4`). Alerts are pushed from inside the
  transaction that marks them (`incident_tracker.py:277`). From the second alert of
  a sync on, `push` waits for that transaction's lock on a connection of its own,
  times out, swallows the error before it sends, and the incident is marked.
* `BustsAreOfToday`: "the record high for today is already above our bracket
  ceiling" (`runner.py:2349`). The intraday part is given to today's contract without
  a look at the day it was taken on; after the settlement day turns and until
  the next sync it is yesterday's, and a position that may still win is sold.
  New entries into such brackets are banned, so this concerns positions adopted
  or bought before.

## Abstractions and what is left out

* *Numbers that are choices.* In `Trading` and `Entries`, probabilities, quotes,
  depth, Kelly sizes and the portfolio variance are choices: every candidate may
  be vetoed at every gate. What holds of the model holds whatever those numbers
  are. Training, scoring and the weather itself are choices likewise. `Admission`
  has the strategy's arithmetic in whole per cents and cents; temperatures,
  kernels and the blend of models are data of a market. Money in `Firewall` is an
  integer number of units; the code compares floats.
* *Local writes.* Those of `Trading` succeed (the code logs and forgets a failure;
  the firewall's own do fail in `Firewall`), and `reconcile_forecast_positions` is
  one step: one process writes those rows within a cycle.
* *The exchange.* An order of the process is known by its number. Listings of
  orders are complete. A ticker is one `(local_symbol, right)` key in `Broker`; that
  the exchange nets YES against NO of one market is in `Entries`.
* *The second trader.* `sniper_cron` is a full trader in `Firewall`, and a full
  process in `Universe`, `Outcomes`, `Cerebro`, `Incidents` and `Paper`. In `Trading` it
  is one of the things that change a position from elsewhere.
* *Universe.* All series are scanned, the catalogue has one page and no cache,
  strikes do not collide, the two legs of a quote are written together. Bars and
  backfill are left out. Rows of an old close time stay active with their ticker
  until that time passes, as in the code.
* *Watermarks.* Minima mirror maxima. Last writer wins, so a file may lose or lower
  the day's high; the forecast sync may write back an older intraday part; a
  report of 23:53 read after the day turned counts for the new day; a file cut
  short is read as empty. The property allows all of these: it says that what is
  held was observed. Weather writes of the other trading process, six-digit keys
  of old files and the age limit of a trend are left out.
* *Forecasts.* What a record holds is data. A thread that misses the cache before
  another's fetch ended fetches again. The snapshot's modification time is left out.
* *Contracts.* Daily high and low ladders. Hourly, rain, snow and wind contracts
  have no half step and no ladder.
* *Entries.* The concurrency cap and the swap are `Trading`'s. Partial exits of the
  monitor record no P&L.
* *Release and Readiness.* Audits run where the artifact is; an operator who sets
  `RUNTIME_ROOT` audits another file. `Readiness` has one build and writes the
  artifact in one step. A missing lane row or a database error makes the heartbeat
  no blocker; the discovery's "ERROR" is overwritten by the publication at the end
  of the same cycle; a failed balance request reads as 0.0; the broker's
  "connected" flag stays set when Kalshi stops answering; an artifact's provider
  data keep the age they had at the audit.
* *Incidents.* No code resolves an incident, so the model has no such action.
* *Cerebro.* The runner's cooldown uses `monotonic()` of its own process.
* *Tuning.* The optimizer and the soak monitor have no caller in the trading
  processes. A rejected or reverted mutation of a key that the file lacked writes the
  default 0.50; an older mutation reverted in a later pass leaves its own old value;
  both are why `LogTellsValue` and `PassRestores` speak of keys without reverts and of
  whole passes. `HUB_PARAMS` is read at import: a change takes effect on restart.
* *Paper.* Threads of one process share the balance in memory; only processes are
  modelled. The sync at each cycle empties the paper book, so money stays spent and
  the caps never bind there; shadow sells without a "right" look at the C leg.
* *Admission.* The solver's five rounds need not settle (14 and 15 in turn);
  so `LessKellyBuysNoMore` speaks of one round at a time, whatever size it begins with
  (see [What is proved](#what-is-proved)). The HRRR probability is always that of
  "above", also for contracts that say "below"; an unknown depth clamps nothing; an
  unreadable database falls back to default parameters; a few tickers are
  exempt from the price bracket as test contracts. The conviction ramp is all or
  nothing; the favourite scaler is stepped.

Hazards without a property of their own: the sweep's listing skips rows
without an `order_id` and reads one page (`kalshi_broker.py:622`);
`live_position_qty` answers 0.0 on an error payload (`kalshi_broker.py:1508`); the
rate-limit cooldown lives in a controller that is built anew each cycle
(`kalshi_execution_controller.py:464`); the briefing flag is tested and set in two
steps (`execution_daemon.py:58`). None of them changes state another modelled part
reads, or the external reply they turn on is one the models do not tell apart.

## Not modelled

* *Pricing and covariance mathematics* (`forecast/pricing_engine.py`, the matrix of
  `covariance_engine.py`): floating point throughout, with no state. What they
  decide enters `Admission` and `Entries` as data and choices.
* *Trade journal* (`logging_db/trade_logger.py`) and reports: append-only logging;
  no modelled reader depends on the order of its rows, but for the journal of
  `Paper` and the parameter rows of `Admission`.
* *Dashboard*: read-only views and generated briefings. Its sessions that resolve
  approvals are in `Promotion`, the parameters it sets in `Admission`.
* *Storage maintenance, notifications, scripts, research*: file housekeeping,
  formatting and network output, one-shot data preparation. The sends of
  notifications and the audit script are in `Incidents`, `Sentinel`, `Release` and
  `Readiness` as far as others wait on them.
* *`kill_switch.py` and `system_state.py`*: the trading path does not read them.

Every component is listed in `PROJECT.json` with its status. What could still be
added with these tools is `sniper_cron` as a second daemon in `Trading`.
