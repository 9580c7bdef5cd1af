# Formal models of the trading research platform

TLA+ modules, TLC runs and TLAPS proofs about this repository: the order store
and the money behind it, the processes that trade and watch each other, the
registry that decides which model may trade, the coordinator and dashboard, and
the simulations that claim to measure all of it.

All paths are relative to the repository. A line such as `broker_adapter.py:940`
is a line of the file named in the inventory. `PROJECT.json` maps every
definition to the lines it stands for and every property to a mutant of the code
that breaks it.

## 1. Inventory

### 1.1 Orders, executions and money

| Component | State | Operations | Hard | Correct when |
|---|---|---|---|---|
| Order state machine, `execution/paper_state_machine.py:89-679` | a `PaperOrder`: status, filled quantity, applied execution ids | `transition_order` | duplicates, out-of-order events, the order of the checks | a closed order never changes, no order is overfilled, FILLED means complete |
| Order store `DurablePaperOMS`, `:976-1448` | SQLite tables `orders`, `executions`, `order_events` | `create_order`, `get_order`, `execute_order`, `save_transition`, `cancel/expire/reject_order` | reads are two SELECTs, `execute_order` commits up to three times, no lock is ever taken, unique-index races, crashes between commits | one order per intent, an execution counts once, row and executions agree |
| Portfolio `PaperPortfolioManager`, `:712-969` | cash, positions, applied ids in memory; a JSON snapshot | `apply_order_fill`, `save_snapshot_atomic`, `replay_from_oms` | check, mutate and record are apart; the execution is committed before it is applied | memory is what a replay gives, what an account is worth is explained by its fills |
| Broker adapter and `FakeBroker`, `execution/broker_adapter.py` | halt flag, unresolved orders; the exchange's orders | `submit_order_safe`, `recover_unknown_order`, `cancel_order_safe` | lost and late answers, bounded retries, cancel/fill races, restarts | exposure is what was executed, only unplaced orders are rejected, a halt lasts, every call returns |
| Reconciler, `reconciliation/portfolio_reconciler.py` | halt flag, scope and symbols | `reconcile` (four modes), `safe_repair_execution`, `startup_reconciliation` | four queries at four moments, failing queries, repairs cut off, narrower modes | a full comparison matches or halts, nothing is booked that was not executed, drift is noticed |
| Soak controller, `tools/soak/soak_controller.py` | a world of all of the above, counters | the hourly loop, seventeen kinds of fault, restarts, the final audit | what one fault leaves for the next | every fault is survived and the report tells what the store holds |

### 1.2 Processes that trade

| Component | State | Operations | Hard | Correct when |
|---|---|---|---|---|
| Market data health, `data/market_data_health.py` | candle cache, newest bar, freshness, connection | candle and heartbeat handlers, reconnection, REST fallback, trading gate | late, repeated, evicted candles; symbols at different bars | never backwards, only time and silence hurt, a rebalance is decided on one recent bar |
| Momentum daemon, `execution/live_momentum_daemon.py` | cash, positions, JSON state file | the hourly step with immediate and sliced orders | refused, partial and unanswered orders, crash before the save | what is recorded is held, slots and cash suffice, a restart forgets nothing saved |
| Async trader, `scripts/live_trader.py` | one JSON portfolio per timeframe, errors, kill switch | a task per asset, emergency liquidation | copies of the file across awaits, several tasks meeting one condition, tasks that still wait for a candle when the kill switch is set | every copy balances, one task liquidates, a shutdown ends the program |
| Execution stream and circuit breaker, `tools/execution_tools.py`, `core/orchestrator.py:15-74` | order queue, open positions, TWAP tasks, equity window, halt | listener, TWAP chunks, trailing-stop monitor, equity monitor | positions replaced while a price is awaited, halts behind a queue | what is published was executed, a stop sells once, a halt is carried out |
| Coordinator `MasterCoordinator`, `core/orchestrator.py:103-439`, `main.py` | agent table, dependencies, lock, statuses | `route_query`: order, fast lane, slow lane | slow lanes beside later queries, failing agents, halts | agents run after what they depend on, results and errors tell the truth |
| Dashboard, `dashboard/dashboard_server.py` | connections, query history, latest results | requests, socket messages, broadcast and heartbeat loops | clients that come, go and fail during a broadcast | only clients that have gone are dropped, everyone gets an answer |
| Shared memory, `core/memory.py` | dictionary, JSON dump | `store`, `update`, `delete`, `clear`, load | the dump is empty while it is written | a restart finds all of it or nothing |

### 1.3 Research

| Component | State or input | Operations | Hard | Correct when |
|---|---|---|---|---|
| Model lifecycle, `evaluation/model_registry.py` | status, parent, champion record, events | registration, transitions, promotion, rollback | any order of promotions and rollbacks | one champion, targets of rollbacks have served, the trail tells the status |
| Model assessment, `evaluation/{drift_detection,model_health,promotion_gates,retraining_policy}.py` | evidence | severity, health, ten gates, retraining | thresholds and counts together | more evidence against a model never helps it, gates fail closed, retraining is paced |
| Splits, `data/splitting.py` | bar numbers | four splitters | purge and embargo off by one | no look-ahead, a bar is tested once |
| Weights, `evaluation/{cross_sectional,volatility_sizing,dynamic_risk}.py` | scores, volatilities, equity | ranking, capped sizing, drawdown scale | renormalised caps, flat bars | weights follow ranks, caps survive, a drawdown is measured from the peak |
| Costs, `evaluation/transaction_costs.py` | a trade and its market | fee, spread, slippage, impact, delay, tier | tiers and clips | no boundary makes a worse trade cheaper |
| Experiments, `training/*_benchmark.py`, `ablation_study.py`, `robustness_validation.py`, `walk_forward.py` and others | frozen predictions | schedules, drifting weights, folds, leave-one-out | look-ahead by one bar, one strategy simulated in many copies | nothing is foreseen, copies agree |
| Risk audits, `evaluation/{portfolio_risk,risk_metrics}.py`, `training/p12f, p13, p14, p3_2` | weights and returns | episodes, attribution, concentration, removal | series joined across folds | what is attributed adds up, every loss is in an episode |
| Backtests, `backtesting/run_*.py` | cash, positions, log | exits, rotation, entries, floors, rebalancing | slots and cash read once, missing candles | trades explain the account, stops and floors hold |
| Shadow study, `evaluation/extended_shadow.py` | champion and challenger | rebalances, late execution | failed inference | neither disturbs the other, periods tile the study |
| Candle validator, `data/validator.py` | a table | `validate` | duplicates and disorder hide gaps | a valid table is clean |
| Risk limits, `risk/*.py` | counters, peaks, positions | breaker, drawdown, exposure, sizing | histories of calls | trips exactly when it should, limits hold |

### 1.4 How they interact

The adapter writes transitions to the store and executions first to the store,
then to the portfolio; the reconciler reads all three and the exchange, and calls
the adapter's recovery; the soak controller drives them with the market data
gate in front. The daemon, the async trader and the execution stream share
nothing with that store but read the same exchanges. The coordinator's halt flag
is set by the circuit breaker of the same file and read by the queries the
dashboard starts; all of them write to the shared memory. The research side
shares only data: weights feed costs and experiments, experiments feed the audits,
assessments feed the registry.

### 1.5 Not modelled

| Part | Why not |
|---|---|
| `core/oms.py`, `core/tca.py`, `core/reporting.py` | the wrapper repeats `execute_order` without its tolerance and its return for a duplicate, and is called only by `agents/execution_agent.py`, which never receives an order; the others format text |
| `core/storage.py`, `memory/chroma_db_manager.py` | database clients; only `connect_all` is called |
| agents, tasks, `core/nl_interface.py` | calls of language models, exchanges and statistics; for the coordinator an agent returns or raises |
| the rest of `evaluation/` | PSI, bootstrap, significance tests, calibration, Monte Carlo: floating-point statistics a model checker cannot decide |
| the rest of `backtesting/`, `training/`, `models/`, `data/` | indicators, training loops, downloads; `training/p3_4_model_lifecycle.py` and `p4_1_extended_shadow.py` only drive modelled parts |
| API, frontend, terminal, scripts | presentation and one-off conversions |

Inside modelled files: `save_snapshot_atomic` and `load_snapshot`, which only tests
call, order expiry of the exchange, the gap
detector, the ticker stream and the mock feed, LIVE mode of the async trader, the
command line and the event daemons of the coordinator, and whatever the notes of
the components in `PROJECT.json` name.

## 2. Modules

| Module | Models | Uses |
|---|---|---|
| `OrderStates` | the order state machine, as operators | |
| `FillRegister` | what the order store promises, abstractly | |
| `DurableOMS` | the order store but for `create_order` | `OrderStates`; implements `FillRegister` |
| `IdempotentCreate` | `create_order` | |
| `Portfolio`, `PortfolioLedger` | the accounting; the portfolio with executions table and crashes | |
| `BrokerAdapter` | the adapter over store, portfolio and exchange | `OrderStates` |
| `Reconciler` | the reconciler over the same three, and the adapter in between | `OrderStates` |
| `Soak` | the soak controller and its world, an hour a step | |
| `MarketDataHealth` | stream, fallback, freshness and gate | |
| `MomentumDaemon`, `AsyncTrader`, `ExecutionStream` | the three traders | |
| `QueryRouter`, `Dashboard` | the coordinator; the server in front of it | `Dashboard` extends `QueryRouter` |
| `SharedMemory` | the dump and its crashes | |
| `ModelLifecycle` | the registry | |
| `ModelAssessment`, `TemporalSplits`, `PortfolioWeights`, `TransactionCosts` | pure decisions, as operators | |
| `Experiments`, `RiskAudit` | the benchmark scripts; the audits of what they simulate | `RiskAudit` extends `Experiments`, which uses `PortfolioWeights` |
| `MomentumBacktest`, `PortfolioBacktest`, `ShadowStudy`, `CandleAudit`, `RiskLimits` | loops and guards, as functions of an account, a table or a history of calls | |
| `MC...` | values of the constants for TLC, and the compositions of a run | |
| `FoldLemmas` | theorems about sums and other folds over finite sets, by instantiation | `TLAPS` |
| `...Proofs` | theorems and proofs; `DurableOMSProofs` also has those of `IdempotentCreate` and `PortfolioLedger`, `LiveTradingProofs` those of two traders, `HourlyProofs` those of `MomentumDaemon` and `Soak`, `ControlProofs` those of `Reconciler` and `MCDashboard`, `GateProofs` those of `MarketDataHealth`, `ModelLifecycle` and the decisions in `MCResearch`, `BacktestProofs` those of the accounts and guards in it | `TLAPS`, `FoldLemmas` |

A module may hold, beside a definition, a second one that is the first with a
plausible mistake (`UniverseStatusUnaligned`, `QueryFailsOpen`,
`PositionDriftsLeft`, `FailUnrecorded`, `ScheduleEarly`, ...). Nothing of the
specification uses them: they are the mutants `PROJECT.json` names.

### Common abstractions

* Quantities and money are integers of some unit. The program rounds to eight
  decimals, so 1e-8 is an exact unit; `Tolerance` is the slack of
  `paper_state_machine.py:1377` in that unit.
* Client ids, keys, execution ids, symbols and fingerprints are model values.
  Times (unless ages decide), audit rows, log and error texts are left out.
* What a model, an indicator, an agent or an exchange answers is an input.
* In an asyncio program a step runs from one await to the next; in a program with
  threads or several processes, from one shared access to the next.

### `DurableOMS`, `IdempotentCreate`

One record per row of `orders`, and per order the set and the sum of its rows in
`executions`. A worker is a caller with its own connection; `pc`, `job`, `mem`
are where it is, the call, and the `PaperOrder` it has read.

| Action | Code |
|---|---|
| `ReadRow`, `ReadLedger` | the two SELECTs of `get_order` |
| `Submit`, `Acknowledge` | the two commits of `execute_order` before the fill |
| `Redeliver`, `Execute` | the duplicate branch and the fill: saved, refused, or broken off by `OrderInvariantViolation` |
| `Mark` | every other event: cancel, expire, reject, the transitions the adapter saves |
| `Fail` | the process or the connection dies between two statements |
| `LookUpKey`, `LookUpCid`, `Insert`, `Resolve`, `Crash` | the four statements of `create_order` (lines 1120, 1142, 1164, 1193) and its end anywhere |

A `usage` says what a behaviour is about: with `serial` a call starts only while
nobody is in one, which is how the program's own callers, straight-line code in one
thread, use the store; without it workers interleave. `IdempotentCreate` names its
parts `CreateInit`, `CreateNext`, `CreateSpec`, so that one module can speak of both.

### `Portfolio`, `PortfolioLedger`

`Filled` is the mutation of `apply_order_fill`; a position keeps `basis = size *
entry_price`. `Store` is `execute_order` seen from here; `Check`, `Mutate`,
`Record` are the parts of `apply_order_fill`; `ProcessDies` loses memory,
`Recover` is `replay_from_oms`. One symbol: symbols share only cash, to which fills
add. Its names are not those of `DurableOMS`, so that one module can speak of both.
Executions come in any order, so that the account is also sold short, covered in
parts and closed by more than it holds, as nothing in the code prevents.
`Unearned` says what the last of these and a short sale give an account that the
fills did not earn (section 6).

### `BrokerAdapter`

The program makes one call at a time, so `call` is one record: operation, order,
place, the copy of the order, the attempt, the executions still to process.

| Action | Code |
|---|---|
| `BeginSubmit` | guards of `submit_order_safe`, SUBMIT and its save |
| `RetrySend`, `SendRejected`, `SendLost`, `SendAnswered` | the outcomes of one attempt |
| `StoreFill`, `ApplyFill` | `execute_order`, then `apply_order_fill`; a crash fits between |
| `BeginRecover`, `QueryFails`, `FoundFilled`, `FoundPartial`, `FoundClosed`, `FoundOpen` | `recover_unknown_order` |
| `Cancel`, `CancelStored` | `cancel_order_safe` with the race fault of `FakeBroker` |
| `Crash` | a restart: new adapter, replay, recovery of UNKNOWN orders |
| `Trade`, `BrokerCloses` | the exchange's book, external |

An order is one record, row and executions together; `SerialRowAgrees` justifies
that. The category of an error is the fault's own, not read from its text.

### `Reconciler`

`BeginReconcile`, four `Query` or `QueryFails`, `Evaluate`: one reconciliation, of
which `Evaluate` compares orders, executions, positions and cash as the code's
drift checks do and sets the halt. `BeginRepair`, `RepairExecute`, `RepairApply`,
`Conclude` are `safe_repair_execution`; `Crash` begins `startup_reconciliation`
(`Recover`, `Recovered`, then a full comparison). `Environment` is the rest of the
world: the adapter's submissions and their parts, and an exchange that executes
orders of this and of other programs. `Modes` holds one full and one narrow mode.

### `MarketDataHealth`

`Feed` is a candle from stream or fallback through `Valid`, `Track` (`Accepts`,
`Remembered`: the bounded identity cache) and `Engage`; `Heartbeat`, `Disconnect`,
`BeginReconnect`, `AttemptFails`, `AttemptSucceeds` the connection; `Tick` time;
`Decide` the gate `is_trading_permitted` with `UniverseStatus`; `PortfolioHalts` a
halt from elsewhere.

### `MomentumDaemon`, `AsyncTrader`, `ExecutionStream`

* `MomentumDaemon`: `BeginHour` marks positions and chooses exits, `SendClose`,
  `BookClose`, `ChooseOpen`, `SendOpen`, `BookOpen` go order by order, immediately or
  in `Slices`. `Executed` pairs what the exchange did with what the program takes as
  filled: an order or slice that is answered counts as whole, though only a part of it
  was executed, and one without a usable answer as nothing, though it was. `lacking`
  and `exact` are histories of these differences. `Save`, `SaveFails`, `Restart` are
  the state file.
* `AsyncTrader`: `Trading(a)` and `EmergencyLiquidation(a)` are the awaits of the task
  of an asset; the file may be read, read torn, written from a stale copy, or not
  written. The kill switch is tested where an iteration ends (`Again`), before the
  candle is awaited, so that `Tick` and `WatchFails` happen after it too: such a task
  trades and saves once more beside the liquidation. `Raised` and `WakeUp` are the
  handlers of a task with their sleep, `LiquidationFails` a save or `exchange.close()`
  of the liquidation that raises, into those handlers or, if it was called from one
  (`bare`), out of the task and the program. `GatherEnds` ends the program when all
  tasks have.
* `ExecutionStream`: `Submit`, `Take`, `TickerAnswers`, `OrderExecuted`,
  `OrderFails` the listener; `Chunk`, `ChunkAnswered` a TWAP task; `BeginPass`,
  `Look`, `LookFails` the trailing-stop monitor; `Check` the equity monitor;
  `TakeLiquidation`, `Balances`, `SellBalance` the liquidation.

### `QueryRouter`, `Dashboard`, `SharedMemory`

`route_query` is `Reject` (the halt check), `Begin` or `Raise` (under the lock:
choice of agents from the topics of the query, `_resolve_dependencies` as rounds over
the stack of its recursion, and the nine moves after it), `Start`, `Return` or `Fail`
for every agent of a lane, whose loop is the position `at`, `FastAnswer` at the end of
the fast lane and `Complete` at that of the slow one; `Halt` is the
circuit breaker's. The server's actions take these along: `Request` and `External`
are the ways a query comes in, `Enter` and `Work` its progress with what the server
does before and after; `Connect`, `Leave`, `BadMessage`, `Notice` a client; `Wake`
and `Send` the update and heartbeat loops, one send per step. `RefusedUpdate` is an
update of one of the `Updaters` that json refuses because of what an agent returned:
`send_json` raises before it awaits anything, for one client after the other, and
`broadcast` removes them all. `lost` is the history of such removals.
`SharedMemory` has `Change` (store, update, delete, clear, up to the opening of the
dump), `Saved` and `Restart`.

### `Soak`

The harness is one thread, so an hour is a step: `Quiet`, or one fault of
`FeedFails`, `SubmissionFails`, `OrderGoesAstray`, `ProcessRestarts`,
`AccountsDiffer`, followed by the rest of the hour; `Audit` is the verdict. Within
a step a fault is a composition of functions of the world: `Dispatch`, `Recover`,
`Reconcile`, `Restarted`, `ClearFaults`, and `Expect` for each assertion of the code.
`Reconcile` is split as the code is: `Critical` and `Erroneous` are what the comparisons
find, `Verdict` is what follows from them.

### `ModelLifecycle` and the pure modules

`Register`, `Transition`, `Promote`, `Rollback` are the methods of the registry,
each with its events. `ModelAssessment`, `TemporalSplits`, `PortfolioWeights` and
`TransactionCosts` state the functions of their files as operators.

`Experiments` and `RiskAudit` work on panels: what a walk-forward fold has frozen,
the predictions of every bar and the moves of every price. `Schedule`, `Simulate`,
`Label`, `Rebalancing`, `LeaveOneOut`, `CadenceComparison` and their like are the
scripts; weights are quarters, moves halves and costs eighths, so nothing rounds.
`MomentumBacktest!Bar`, `BearBar`, `PeriodBar` and `PortfolioBacktest!Hour` are one
iteration of a loop, `Finish` and `PeriodFinish` the closing of the account after it
(the second takes a missing last price as it is, which makes the result NaN, `lost`);
`ShadowStudy!Studied` one study; `CandleAudit!Errors` one call;
`RiskLimits` folds a history of calls.

## 3. Runs

Nine runs pass, and every property of theirs has a mutant of the code, in
`PROJECT.json`, that breaks it. Three runs, at the end, show that a sentence of the
code does not hold of it. Several properties are conjunctions of named invariants that are
about one component; the modules state and comment each part.

| Run | Instance | Properties |
|---|---|---|
| `Store` | of three models one moves. `DurableOMS`: both usages of one store, `Tolerance = 1`; serial 2 orders (2 and 1 units), 4 executions, all events, crashes; interleaved 2 workers in the calls about one order, which two executions fit one by one and not together, with one of the three events that close an order. `IdempotentCreate`: 6 interleaved calls (a repeat, a contradiction under one key, another intent, two keyless calls on one client id), crashes. `PortfolioLedger`: 2 buys, 2 sells at three prices with fees, in any order and so also short and oversold, one worker, 2 crashes. 0.7 million states | `RowAgreesWithLedger`, `KeepsRegister` (implements `FillRegister`), `StoredOnce` (the unique index counts an execution once although the look-up before it is stale); `OneOrderPerIntent`, `AnswersOwnRequest`, `RaceIsResolved`; `LedgerTypes` (a position has a side exactly when it has a size), `AtRestIsReplay`, `WealthIsConserved` (the account is worth what its fills gained plus what shorts and overshooting fills give it unearned), `StoredIsApplied` (liveness) |
| `Adapter` | a broker that fills at once and one in whose book orders rest and fill in parts, callers that resubmit and callers that do not. 2 orders of 2 and 1 units, `MaxRetries = 2`, 2 restarts | `PortfolioFollowsStore`, `ClosedIsFinal`, `CallReturns` (liveness) for all; with whole fills `WholeFillsInv` (exposure was executed, rejected orders were never placed, an UNKNOWN order has no effect and is listed) and `WholeFillsHaltLasts` |
| `Reconciler_drift` | an own order with two executions and a foreign one, a full and a narrow mode, 1 crash. 1.1 million states | `ReconcilerInv` (halt follows the verdict, what is booked was executed or stands for something that was, an order is filled by its rows of the executions table), `MatchOrHalt`, `MissedFillIsNoticed` (liveness) |
| `Market_soak` | of two models one moves. `MarketDataHealth`: 2 symbols, bars of 2 time units, delay 1, timeout 1, cache 2, 2 attempts, fallback of 2 bars, clock to 6. `Soak`: 3 hours, rebalancing every second, any fault at any hour. 2 million states | `NeverBackwards`, `OnlyTimeAndSilenceHurt`, `DecidedOnCurrentBar`; `SoakInv` (no assertion of the code fails, the audit passes, counters tell what the store holds) |
| `Daemon` | 3 symmetric symbols, 2 slots, prices 4 and 5, cash 50, slicing from 22 in 2 slices, parts in multiples of 5, at most 2 orders whose answer is wrong, 2 hours, 1 crash. 14 million states | `DaemonInv` (slots and cash suffice, what is recorded is held but for what its order lacked, record and account agree while answers are true, a restart forgets nothing that was saved), `TradingMakesNothing` |
| `Trader` | 2 assets, prices 80 and 100, cash 25, leverage 3, 5 ticks. 1.3 million states | `TraderInv` (every copy balances, one task liquidates), `ShutdownEnds` (liveness) |
| `Stream` | 1 symbol, 2 orders of 1 or 2 units, slicing above 150, equities 0, 94, 97, 100, window 2, 3 checks. 1.1 million states | `StreamInv` (what is published adds up to what was executed, a drawdown of 5% halts), `StopSellsOnce`, `HaltIsCarriedOut` (liveness) |
| `Dashboard` | 2 queries, 2 clients, 2 loops; no agent, one (then one query, with clients beside it), four, or all sixteen (then one query); five sets of topics, 1 failing agent, history of 1; the memory with 2 keys. 0.4 million states | `PlatformInv` (agents after their dependencies, one fast lane, final results tell every agent, statuses settle, a live client is listed once unless a refused update has taken it off, latest result and history agree, the dump is all or nothing), `NobodyWaitsForever` (liveness) |
| `Research` | 3 symmetric models of one family; accounts of four backtests over 4 or 5 bars; and bounded inputs around every threshold: panels of 4 assets and 4 bars, tables of candles, call histories, studies. 0.2 million states | `RegistryInv`, `OneChampion`, `RevivedByRollback`; `AssessmentIsSound` (evidence is heard, retrainings keep their pace), `SplitsAreSound`, `WeightsAreSound`, `CostsAreSound`, `BacktestsAreSound`; `SimulatorsAreSafe`, which is `GuardsHold` (the breaker trips when it should and not before, the monitor judges by all it saw, orders stay within the limits), `StudiesAreIsolated` (neither model of a shadow study changes a figure of the other, periods tile it) and `PortfolioIsSafe` (orders make no money, sell what is held, respect floor and stops) |
| `Reconciler_twice` | as `Reconciler_drift` | `AppliedOnce` is violated. "Applies execution exactly once" (`portfolio_reconciler.py:1125`): a recovery books a partly filled order under an id it makes up, and a repair then books the execution again under its own |
| `Dashboard_refused` | as `Dashboard` | `OpenIsListed` is violated. "A client has disconnected" (`dashboard_server.py:263`): an answer that json refuses takes every client off the list |
| `Research_peak` | as `Research` | `PeakIsTrailing` is violated. "Trailing max equity tracker" (`dynamic_risk.py:240`): the equity of a bar without positions never enters the peak |

`BacktestsAreSound` collects what simulations promise each other: several scripts
that simulate one strategy agree (`EnginesAgree`, `OneStrategy`), training sees no
label of the test window (`NothingForeseen`), attribution, episodes and rank
persistence add up (`AttributionAddsUp`, `DrawdownsAreFound`, `PersistenceAddsUp`),
the trades of a backtest explain its account (`AccountAddsUp`, `TradesTellTheEquity`),
and a valid table is clean (`ValidIsClean`).

### Bounds, and why they suffice

* Two orders, assets, symbols or queries give every pairwise interaction: one
  resolved and another not, one fresh and another stale, one lane beside another.
  The daemon has three symbols for two slots, so one must be refused.
* Sizes 1 and 2: one unit cannot be filled in part, two can, and an execution of
  two competes with two of one. The largest amounts are chosen beside the code's
  thresholds (slicing, minimum notional, drawdown, tolerance).
* Two workers: every race is between a read and one foreign write.
* `MaxRetries`, `MaxAttempts`, `MaxFetch = 2`: one retry and one exhaustion. The
  code's numbers are larger and treated alike. A `CacheSize` of 2 evicts.
* One or two crashes: two reach a crash of a recovery.
* `MaxWrong = 2` orders of the daemon with an answer that is not true: one at the
  opening and one at the closing of a position, or one after the other. `Lot = 5`
  leaves a part of an order between nothing and a slice, and between slices.
* Clocks, hours, ticks and checks are long enough for a bar to become stale and
  recover, for a position to be opened, kept and closed, for the window of the
  drawdown to slide; five candles let a task trade on one that it awaited before the
  kill switch was set. `HistoryLimit = 1` stands for 50, so that history is cut.
  `PortfolioBacktest!Bars = 4` has a last bar that is decided though it is not due.
* Curves of up to four bars take every equity on every bar, below, at and above the
  opening one, with and without a position.
* Composed runs (`Store`, `Adapter`, `Market_soak`, `Dashboard`, `Research`) hold
  several models, or usages of one, of which one moves in a behaviour. They share no
  state in the code either, with two exceptions. The executions table is in both
  `DurableOMS` and `PortfolioLedger`: how the store and the portfolio move together is
  what `Adapter` is about. And clients are sent what queries found. In `Dashboard` both move in one
  behaviour where one agent is registered; with more agents clients stay away, since
  for a client an update holds a result or none.

### Fairness

Only steps of code that has begun and will go on by itself are fair:

* `PortfolioLedger`: a worker's own steps and `Recover`.
* `BrokerAdapter`: the steps of the call in progress, a bounded loop of requests
  with timeouts.
* `Reconciler`: the steps of a call, weakly; and strongly the beginning of a full
  reconciliation, which the hourly loop of the soak controller starts again and
  again whenever nothing else is in progress.
* `AsyncTrader`: every task that can go on, the one in the liquidation too, and the
  end of `gather`. A task that waits for a candle gets one, or the keep-alive of the
  exchange's client makes the request fail; nothing else would end a task that waits
  beside a liquidation that has failed.
* `ExecutionStream`: the listener, a loop over its queue.
* `Dashboard`: every query's steps, since an event loop runs what is ready, and the
  two loops.

Callers, exchanges, clients, crashes and failures have no fairness. Deadlock is
checked in `Store`, `Market_soak` and `Stream`; in the others behaviours end, when a
bound is reached or no call is left to make. Where the code of a checked run stops for
good, its module says so: every call of `create_order` has answered (`AllDone`), the
harness has judged (`Judged`), interleaving workers have overfilled an order and
`get_order` raises from then on (`Unreadable`).

## 4. Proofs

| Module | Theorems | Invariant and argument |
|---|---|---|
| `DurableOMSProofs` | `StoreTypeOK`, `StoreStoredOnce`; `SerialNeverOverfilled`, `SerialRowAgrees`, `SerialTerminalIsFinal`, `SerialKeepsRegister` | For interleaving workers `StoreInv`: the insert is refused by the unique index whatever was read before, so that a row never counts more than its executions once each. For one at a time `RowAgreesWithLedger` is not inductive, since a save writes what the worker remembers: `SerialInv` adds that at most one worker is in a call (`OneBusy`) and that it remembers the order as it is (`Fresh`). Each action reduces to `SavePreserves` or `FillWrites`; the refinement of `FillRegister` reuses both |
| same, on `IdempotentCreate` | `CreateTypeOK`, `CreateAnswersOwnRequest`, `CreateOneOrderPerIntent`, `CreateRaceIsResolved` | `PrintInv` adds the unique index on the key. The last two assume `CidDeterminesKey`, and `RaceInv` says that a call that lost an insert has a winner under its key |
| same, on `PortfolioLedger` | `LedgerTypeOK`, `LedgerAppliedIsStored`, `LedgerAtRestIsReplay`, `LedgerWealthIsConserved` | `StoredInv`: a worker in a call works on an execution the ledger has. For one worker `ReplayInv`: until it has recorded an execution, that is the last row, and memory is what the rows before it give. A fill adds to the wealth, at every price, exactly its gain and what is unearned of it (`FilledKeepsWealth`, through all four branches and their partial coverings), so that the replay of the ledger is worth the sums of both (`Wealthy`) |
| `BrokerAdapterProofs` | `AdapterPortfolioFollowsStore`, `AdapterClosedIsFinal`, `AdapterWholeFills`, `AdapterHaltLasts` | `SyncInv`: `Lag` says by what store and portfolio differ between storing and applying; `Fresh` that a call which may still save its copy of the order has it as stored. With whole fills `Exact` lists the joint states of an order and its record at the broker, `Steady` says that no request of a submission finds the broker with the order, and `Listed` that an UNKNOWN order is listed until a restart |
| `ControlProofs`, on `Reconciler` | `ReconcilerIsSound`, `ReconcilerMatchesOrHalts` | `IInv`: `Books` says why a recovery may overwrite a filled quantity (an order of unknown fate has no execution stored) and a repair may create an order (it is not one the program submitted); `InHand` what a call that was cut off holds; `Seen` that each of the four answers knows all that the earlier ones do, so that a quiet exchange was read as it is. The verdict and the halt read the same drifts (`Policy`), and what adds up to the same quantity is the same executions (`QuantityTells`), since none is empty. What `ReconcilerIsSound` says of made-up executions is that each stands for real ones; that a real one is not booked beside it is not so (`AppliedOnce`) |
| same, on `MCDashboard` (coordinator, dashboard, memory) | `PlanIsClosed`, `DashboardIsSafe`, `PlatformIsSafe` | An order of agents is closed if each comes after the registered ones it depends on. Every round of the resolution (`Visit`) keeps it so (`VisitKeeps`), and each of the nine moves adds one agent to the set that is known to be in order, in which an agent depends only on members (`MoveSorts`): so no move undoes an earlier one. `QueryInv` says that what a lane has behind it is exactly what has run, so at every agent all it needs has; `QueueInv` that only the first at the lock is at work; `SocketInv` that a client whose socket is open is on the list once, or has been taken off by a refused update and stays off; and the dump is the store or empty |
| `LiveTradingProofs`, on `ExecutionStream` | `StreamInvHolds`, `StopSellsOnceHolds` | an order is in one place at a time (`Flow`), a position is tracked once, by the BUY it comes from (`Table`), what is published and what tasks still owe add up (`Ledger`), and the last equity was compared with all that is remembered (`Watch`) |
| same, on `AsyncTrader` | `TraderIsSound` | `TaskInv`: where a task waits, its own copy is fit for what it does next (`Ready`: to close there is a position, to open there is none and the margin is not negative), a torn file aside every copy is a whole portfolio that balances, and who liquidates has set the kill switch. Each action reduces to `StepKeeps`, since only the one liquidating task touches what it has still to close, and tasks that trade beside it change copies of their own |
| `HourlyProofs`, on `MomentumDaemon` | `DaemonKeepsItsWallet`, `DryRunsMakeNothing` | `HourInv` says what holds between two orders, while positions are changed and cash is not yet: what the plan of the hour still contains (`Plan`), that the slots suffice for it (`Slots`), that a spot account has longs and cash only (`Spot`), that the exchange holds what is recorded and what is about to be, but for what the opening order of each position was short of its answer (`Exposure`), and that cash, positions and what is being booked stay within the equity the hour began with (`Budget`): a closing credits what the position is valued at, and whole units never cost more than their budget |
| same, on `Soak` | `EverySoakPasses` | `SoakKept`: between two faults the platform is `Sound`: every order is closed on both sides or half filled on both and booked as it was executed, nothing is made up at the exchange, nothing is halted, the last verdict is HEALTHY and the counters count the orders. `SoakInv` alone is not inductive, since it does not see what a fault leaves behind. Each fault leads from a sound platform to a sound one, most of them by one more order (`Grown`); a made-up position is always noticed, because before it both sides held the same |
| `GateProofs`, on `MarketDataHealth` | `FeedTypeOK`, `FeedEngineFollowsTracker`, `FeedNeverBackwards`, `FeedOnlyTimeAndSilenceHurt`, `FeedDecidedOnCurrentBar` | `FeedInv` is `GateTypes`, `EngineFollowsTracker` (the engine's candle is the tracker's newest, though nothing in the engine compares times) and `HeardOnce` (what was received counts as activity); bars of moments by the arithmetic of `\div` |
| same, on `ModelLifecycle` | `RegistryKeepsInv`, `RegistryOneChampion`, `RegistryRevivedByRollback` | `IInv` adds `RecordServed`, that champion records name models that served. The last two need `LineInv`, that parents and records stay within a family: they assume `SameFamily`, and the first of them that callers leave CHAMPION to `promote_to_champion` (`~DirectCrowning`), as all callers do |
| same, on `ModelAssessment`, `TemporalSplits`, `TransactionCosts`, `PortfolioWeights` | `HealthWorsens`, `GatesClose`, `ChronologicalIsApart`, `WindowsAreApart`, `PurgedIsApart`, `WindowsTestAll`, `CostsGrow`, `LiquidityGrows`, `PathsAreFair`, `WeightsFollow`, `CapsSurvive`, `PeakIsTheHighest`, `PaceIsHeld` | Algorithms without a state: the theorems are about their operators, for any evidence, bars, trades, scores, curves and histories. Evidence that is worse in one respect is followed through alerts, scores and states; the folds of a split are intervals whose ends are products and quotients; every cost is a composition of steps that grow (`ClipGrows`, `DivisionGrows`, `RootGrows`); ranks are numbers of those ahead (`RanksDiffer`, `RanksFit`). A loop is proved by what it keeps over the steps of a fold (`FoldNext`, `Reaches`): the peak knows the opening equity and every bar with a position, and nothing of the others (`PeakKnows`), the engine of retrainings knows its alerts, its last retraining and whom it served (`Paced`) |
| same, on `MCResearch` | `JudgementsAreSound` (from `EvidenceStaysHeard` and `RetrainingKeepsPace`), `TestsAreApart`, `CostsFollow`, `WeightsStand` | The invariants of the run: its inputs are of the kind the theorems above are about, and no step of an account touches them (`InputsStay`), which is all the inductive invariant they need |
| `BacktestProofs`, on `RiskLimits`, `ShadowStudy`, `PortfolioBacktest` | `BreakerTrips`, `MonitorJudges`, `LimitsAreKept`, `ShadowKeepsApart`, `PeriodsFollow`, `PlanStaysSafe` | Histories, studies and accounts of any length and size. A fold over calls, bars, orders or rounds is followed by what is known after each: the breaker knows of the errors since the last reset (`BreakerKnows`), the monitor the highest equity and the first of the day, the limits the largest account so far; two studies go side by side, round after round. In the portfolio an order changes cash and position by the same amount (`InvestedMoves`, `WorthIs`), so that the worth of the hour stands while its orders are placed, and each asset is settled once (`Placing`): afterwards what is held above its stop, or is too small for an order, is `Calm`, and the assets settled later do not disturb it (`Kept`) |
| same, on `MCResearch` | `SimulatorsStaySafe`, from `GuardsAlwaysHold`, `StudiesStayApart`, `PortfoliosStaySafe` | The invariant of the run and its three parts. `PortfolioIsSafe` needs `PlanIsSafe`, which adds that amounts and prices are whole and not negative; the others that their inputs stay as they are |

`FoldLemmas` has what these proofs need of sums and loops: a fold over a finite set,
defined by choosing its elements one after the other, does not depend on the choice,
splits, and grows; one over the indices of a sequence takes a step for each of them,
and so does one that begins with any value (`FoldFrom`).
Induction over data is out of reach as a theorem about an operator passed as a
parameter, but a module that is instantiated with the operator can do it over the
subsets of one finite set.

The theorems hold for every value of the constants that satisfies the `ASSUME`s of the
modules: positive quantities and lengths, finitely many orders and executions where
they are summed, an execution belongs to one order, names that stand for "nothing"
name nothing else. TLC evaluates these on the runs. Two theorems on
`PortfolioLedger` also assume `OneWorker`, as the run does: nothing in the
program calls `apply_order_fill` from two threads, and with two workers a redelivered
execution can pass the duplicate check twice (section 6). `ReconcilerMatchesOrHalts`
speaks of comparisons during which the exchange executed nothing; others are judged
again by the next one.

The theorems about algorithms are theorems about integers, in the units of the
modules: a rounding of the program is a `\div` where the model has one, and what
floating point adds to that is not covered.

Only model-checked: all liveness, since the prover has neither fairness nor ENABLED;
and `BacktestsAreSound`, the simulations of section 1.3, which are long compositions
of such algorithms, most of them over panels of the size the run gives them.

## 5. What a reader may rely on

Used by one thread, the order store, its recovery and `create_order` do what the
documents promise, through every crash and redelivery. Used by several at once, the
unique indexes keep executions and intents unique, and nothing keeps the sum of
fills, the status column or the portfolio from being computed out of a stale copy.
A full reconciliation of a quiet exchange never passes over a difference of
quantities; an execution that a recovery has made up may be booked again under its own
id. The market data gate decides on one recent bar. Traders that keep their
state in files or dictionaries do not invent money in any one copy, but lose trades
and orphan positions where section 6 says so. The registry has one champion as long
as callers use the methods meant for it. The simulations agree with each other
except where section 6 names a difference.

## 6. Where the code departs from its words, or surprises

In the models and reachable, or just outside their environment. Three of these have a
run of their own (section 3); otherwise properties that hold are stated so as to stand
beside them.

Store, portfolio and adapter (`P` is `paper_state_machine.py`, `B`
`broker_adapter.py`, `R` `portfolio_reconciler.py`):

* Two workers read an order, both find room, both save: it is overfilled, though
  `docs/research/p2-3-partial-fill-lifecycle.md:14` excludes it for concurrent attempts.
* Two keys that share a client id: the handler at `P:1194` looks by key, finds
  nothing and re-raises. `generate_client_order_id` ignores what distinguishes keys.
* Opening a short credits nothing, covering it credits the entry value and the profit
  (`P:762`, `P:802`), while `compute_total_equity` counts the entry value from the
  beginning: every short sale makes the account richer by its proceeds.
  `WealthIsConserved` says so (`Unearned`), and that nothing else is gained or lost
  when it is covered, in one part or several.
* Two threads pass the duplicate check at `P:744` before either records the id.
* A recovery books the broker's cumulative quantity under a fresh id (`B:940`),
  beside executions already booked, though `B:865` says "exactly once".
* A restart loses `unresolved_orders` (`B:687`), so one resolved order lifts a halt
  while another is UNKNOWN. `cancel_order_safe` leaves a cancelled order in it (`B:1014`).
* A worker that reads the row before a fill and the executions after it (`P:1272`,
  `P:1281`) saves the old status over FILLED, under `Spec`.
* REJECT is accepted in UNKNOWN (`P:262`), so an order with fills can become REJECTED.
* A fill that leaves exactly 1e-8 is taken for the last one (`P:1377`) and ends in
  an `OrderInvariantViolation`.
* Closing more than is held resets the position while cash follows the whole fill
  (`P:764`, `P:783`): the excess is paid for and not held, the other part of `Unearned`.
* An UNKNOWN order does not block another order of its asset (`B:713`). A REJECTED
  order handed to `submit_order_safe` is sent (`B:726`). The CANCELLED branch
  ignores executions the broker reports (`B:975`). NOT_FOUND closes an order a
  delayed request may still create (`B:983`). Errors are told apart by substrings (`B:694`).
* Startup recovers only UNKNOWN orders (`R:1224`).

Reconciler:

* A narrower reconciliation that finds nothing clears a wider halt (`R:989`), and the
  next one lifts the halt of a failed startup. `halt_scope` and `halted_symbols` are
  read by nobody but assertions.
* A resting ACKNOWLEDGED order against the broker's OPEN is a status mismatch, so no
  comparison is HEALTHY while an order rests.
* After a recovery has made an execution up, the account is never HEALTHY again, and
  repairing the real execution doubles the exposure (run `Reconciler_twice`). A repair creates the order with
  the size of the execution, so a second execution is never imported.
* A stale balance gives an ACCOUNT halt, where the document's table says global.

Market data:

* Reconnection alone restores permission while candles are still fresh, contrary to
  the comment at `market_data_health.py:875`; `compute_backoff_delay` and
  `is_recovering` are never used.
* A candle of the fallback marks the stream connected; a "final" bar may not have
  closed; an evicted identity is accepted again if it is the newest; the soak
  controller bypasses the tracker.

Traders:

* Daemon: a failed or partial close drops the position and orphans its exposure; a
  partial sliced close credits the whole size; an order that is answered counts as
  filled whole, whatever `filled` says, so that a position may be recorded of which
  the exchange holds a part; a crash before `save_state` leaves positions of which the
  restart knows nothing; dry futures mode opens shorts of size
  zero, and after losses beyond a short's collateral budgets are negative; a symbol
  closed in an hour may be reopened in it; an average price of `None` counts as failure.
* Async trader: saves from stale copies lose other assets' trades; a task that waits
  for a candle when the kill switch is set trades once more, and its save may undo the
  liquidation in the file; a liquidation whose save fails is not tried again; a torn file reads
  as a new account; a RANGING `continue` drops a stop-loss close; the lock is per
  asset, the file is not; the liquidation unpacks three values into two and raises
  after it has changed the portfolio; after a loss the configured size is below the
  minimum notional.
* Execution stream: an equity of 0.0 reads as no equity, so an account wiped out never
  halts; orders above 1000 are diverted before the risk/reward check and never tracked;
  a SELL of any size untracks the position; the monitor sells what it read and deletes
  what is there now, or ends its pass in a `KeyError`; LIQUIDATE_ALL leaves
  `open_positions`, and in paper mode sells nothing; queued orders still run after a halt.

Coordinator, dashboard, memory:

* `main.py` fails at `RegimeAgent(get_memory())`, so only a process without agents
  starts in this commit. The model also takes the table the file declares.
* The halt is read before the lock, so waiting queries run after it. `quant` and `risk`
  run before `regime` they name as a dependency. `rl_agent` runs after `portfolio` and
  `compliance`, contrary to the comment at `orchestrator.py:232`. A query whose
  agents include `rl_agent` and no supervisor ends in a `ValueError`.
* Nothing hands out the id under which the final result is stored. A status may read
  idle while the agent still runs for another query. Only direct dependencies reach an
  agent, so `execution` sees no portfolio and never creates an order.
* After trimming, `query_count` stands at its limit, and the page's test for a new query
  fails. `latest_results` is of the last answer, not of the last question. Malformed
  JSON leaves the client registered until a send fails.
* An update that json refuses takes every client off the list, and none of them is
  sent anything again though their sockets are open (run `Dashboard_refused`).
* A value json refuses, or a crash inside a save, leaves a truncated dump, and the
  restart finds an empty memory. `get` takes falsy values for missing ones.

Registry and assessment:

* `transition_state` may crown a second champion; a parent of another family breaks
  uniqueness; a second rollback goes to the training parent, possibly never approved;
  a rollback reinstates SUSPENDED and REJECTED models. `previous_state` of its event is
  a constant. `training/p3_4_model_lifecycle.py` promotes whatever the gates decided.
* Missing evidence counts as full health; a single alert leaves DEGRADED and gate 5
  passes; gate 9 ignores `is_shadow_valid`. An embargo of a fold or more yields no folds,
  silently. Renormalising breaks the lower weight bound for more than two assets and the
  cap for a single one.

Costs, experiments, audits:

* No volume means no impact; a HIGH-tier asset with the volatility penalty scores below
  a MEDIUM one; the last bar's trades are never charged.
* `apply_rebalance_frequency` promises no turnover between rebalances, but drift is
  traded back every bar. The benchmark applies weights of bar t to the return from t,
  P3-1 and P3-2 one bar later, so their baselines differ; P12F and P14 do not drift.
* "Net plus costs" as gross return is an additive approximation. The last four labels
  are 0, not dropped. Training is free of test labels only if the embargo is at least
  the label horizon less one, from about 400 bars on.
* P14's joined series earns a return across the gap between folds, and its counts of
  rebalances agree with those per fold only for folds of whole intervals.
  `evaluate_risk_variant` sizes all bars before it simulates, so drawdown control sees
  none. A bar without positions does not enter the peak of `size_portfolio_weights`,
  so that a gain or cost that falls on it is not seen by the drawdown after it (run
  `Research_peak`). A drawdown that recovers to 0.5% and falls again is a second episode of one
  peak. The global loss may exceed the worst fold's across the seam.
  `t_plus_1_execution_verified` and a share of 19.71 are constants.

Backtests, study, validator, limits:

* Momentum: slots are not counted again while candidates are bought, so a third position
  may be opened, and up to one less than twice as many as there are slots, which is the
  bound `AccountAddsUp` has; rotation exits log profits before fees; a missing candle of a rotated
  symbol turns cash into NaN for good; a short's loss beyond 100% makes cash negative.
  The walk-forward script marks what is left at the last prices as they are: one that is
  missing makes its final equity NaN (`PeriodFinish`), and its report prints PASSED in
  every row.
* Portfolio: the regime is computed and unused; trailing-stopped positions below a fifth
  of the account are never sold; kept positions are not taken off the exposure of the
  top two; a missing candle values holdings at zero and may begin a new cycle.
* Study: a failed inference is a probability of 0.5 and can agree; the last bars are
  earned by nobody. The classification of the P4-1 script is a constant.
* Validator: candles closer than the interval pass; a gap of 2.5 intervals counts one.
* Limits: only tests call them. A closing order counts as exposure; a favourable fill
  trips the breaker; a missing price does not.
* Soak: several counters of the report are never raised; PARTIAL_FILL_AND_RESTART
  leaves an order open for good; `dispatch` creates its order before the adapter refuses.

## 7. Left to do

Of the code that can be modelled there remain the LIVE mode of the async trader, the
gap detector and the ticker stream, the snapshots of the portfolio if something begins to
call them, and
price differences in the reconciler. A portfolio as a set of executions,
which `PortfolioLedger` would implement, is the abstract specification that is still
missing.
