# Formal models of the quant station

TLA+ models of this repository (`src/src/quant`): its order-execution core, the services
that drive it, and the discrete algorithms of its research pipeline; the TLC
configurations that check them on small instances; and TLAPS proofs of the main
invariants for every size.

All of the code with state runs on one asyncio event loop. Between two `await`s nothing
else runs, so a step of a model is what one coroutine does from one await to the next.
What makes the code hard is therefore not data races but state that is checked before an
await and used after it, calls that raise or are cancelled halfway, and an environment
(broker, transport, database, clock, providers) that loses, repeats and delays. The
research code is sequential; there the models are algorithms over small integers, checked
against the definition of what they compute.

## Inventory

| Part | State | Operations | Talks to | What makes it correct |
|---|---|---|---|---|
| Order and state machine (`models.py`, `fsm.py`) | state, cumulative quantity, amount, fees | `transition`, `apply_execution_report` | every gateway | never ahead of the broker, never backwards, same end as the broker |
| Idempotency router (`idempotency.py`) | active ids, ring and set of closed ids | `register_order`, `deregister_order`, `is_duplicate`, `clear` | paper gateway | ring and set agree; exactly the last `history_capacity` ids are remembered |
| Paper gateway (`gateway.py`) | connection, orders, prices, cash, positions | `connect`, `disconnect`, `submit_order`, `cancel_order`, `set_market_price` | router, state machine | books balance, one execution per id, limits respected |
| Alpaca gateway (`alpaca_gateway.py`) | connection, order metadata | gateway protocol over HTTP | broker | reports no more than the broker did; CANCELLED and refused are final |
| Smart router (`sor.py`, `venues.py`) | venue health, quarantine | `route_slice`, `record_fill_markout` | gateway | cheapest split; children never exceed the slice; toxic venues stay out |
| Kill switch (`kill_switch.py`) | state, gateways, last event, lock | `trigger_panic`, `reset`, `arm`, `disarm`, `(un)register_gateway`, `validate_submission` | gateways, orchestrator | nothing that was open escapes unexplained; every call ends |
| Audit logger (`audit.py`) | queue, connection, worker task, open transaction | `start`, `stop`, `flush`, `log_report`, worker | SQLite, execution service | no silent loss; a stopped logger is drained; one worker |
| Heartbeat watchdog (`heartbeat.py`) | status, last timestamp, expected sequence number | `record_heartbeat`, `check_liveness`, `mark_reconnecting`, `reset` | orchestrator (panic), risk service | disconnect means silence; no gap goes unreported; one panic per loss |
| Risk firewall and ledger (`risk.py`) | cash, positions, pending leaves, peak equity | `validate_order`, `update_fill`, `update_price` | orchestrator, live session | the ledger covers what the venue may come to hold |
| Risk orchestrator (`risk_orchestrator.py`) | gateways, default, watchdog listeners, panic tasks | `route_order`, `update_market_price`, `(un)register_gateway`, `set_default_gateway` | all of the above | reservations follow the orders; used gateways are swept; a loss ends in a panic |
| Live session (`live_session.py`, `hotkeys.py`, `run_live_trader.py`) | status, loop flag, loop task | `start`, `pause`, `resume`, `panic_kill`, `disarm`, `stop`, `step_cycle` | orchestrator, gateway | one loop; a stopped session is quiet; nothing under a kill |
| Autonomous trader (`autonomous_trader.py`) | engine state, loop task, priors | `start`, `stop`, `pause`, `resume`, `step_once` | execution service, gateway | one loop; allocations respected while orders are under way |
| Schedules (`algorithms.py`) | none | three `generate_schedule`s | execution service | the slices add up, in order, within cap and horizon |
| Parent orders (`parent_order.py`), execution service | fills and totals; tasks, cancel flags | `record_child_fill`, shortfall; `submit_parent_order`, slice task, `cancel_order` | orchestrator, audit logger, streams | the book follows the venue; the parent is never exceeded; every task ends and says how |
| Tax lots, ledger service, financing | lots in memory; lot, journal and account rows | `allocate_fill`, `record_fill`, `accrue_daily_eod`, `initialize_or_rehydrate` | database | the journal balances; rows and memory agree; one accrual per date |
| Event streams (`streaming.py`), risk service | listener, queue per client | websocket handlers, `reset_kill_switch`, ... | execution and risk service | a client learns the state, and never backwards |
| MCP client and server | child process, token, pipe | `connect`, `close`, `call_tool`, `run_stdio` | HTTP server or child | a call gets its own answer; at most one execution; no orphan child |
| Circuit breaker (`circuit_breakers.py`) | tier, bars in tier | `evaluate` | sizing, replay | recovery takes two dwell times and happens |
| Sizing (`execution_sizing.py`) | none | projection, rounding to lots | replay | nearest admissible allocation |
| Backtest replay (`simulation.py`, `backtest_runner.py`) | holdings, equity, log | `run` and its entry points | breaker, sizing | no look-ahead; the report is what the log says |
| Cross-validation, labels | none | `split`, `reconstruct_paths`; `label_arrays`, meta labels | | no leakage; labels say what the trade did |
| Chromosomes, Pareto ranking, evolution | vector; archive; generation | encode/decode, mutate, cross; `rank_population`; `step_generation` | replay (fitness) | genes in bounds; fronts clean; the best is not lost |
| Historical ingestion | bar store | ingestion run, `save_batch`, returns matrix | data providers | causal matrix; failures leave no trace; runs end |
| News, live feeds, strategies, statistics, reports, API, security, terminal | none or I/O | | | not modelled, see the end |

Hard behaviours, in short: reports lost, repeated or reordered; a retry beside its
original; panics racing submissions, each other and gateways that come and go; start,
stop and kill in any order around awaits; tasks cancelled at an await; database failures
between change and commit; rows written back stale; late heartbeats and late answers;
limits checked while other orders are under way; ties, gaps and boundaries in the
algorithms. `PROJECT.json` lists the hazards, each at its line, with the properties that
would catch it.

## Modules

Operators whose name extends another's (`ReportAdmissibleStale` beside
`ReportAdmissible`) are faulty variants, one for each property, used to show that it
notices them.
Variables declared under "History" are not in the code: they remember what a property
needs, or count the bounded faults.

### Execution core

* **OrderStateMachine** - `fsm.py`: `ValidTransitions` is `_VALID_TRANSITIONS`,
  `ReportAdmissible` the checks of `apply_execution_report` before any write,
  `Acknowledged` the synthesised acknowledgement (which stays if the transition is then
  refused), `ApplyExecutionReport` the whole handler. Quantities are whole lots, so the
  1e-7 tolerances disappear.
* **OrderLifecycle** - client orders against a broker that sends a report for each change
  of state, over a wire that may lose, repeat and reorder. `Deliver`, `Redeliver` and
  `Refuse` are `apply_execution_report`, `RequestCancel` is `transition(PENDING_CANCEL)`.
* **IdempotencyRouter**, **DedupWindow** - the duplicate filter, and a specification that
  exercises it alone together with the history `closed` of all ids ever closed.
* **PaperGateway** - the simulated broker. `CallSubmit` is `submit_order` up to its
  latency sleep; `SubmitDuplicate`, `SubmitMarginFailure`, `SubmitUnpricedSell`,
  `SubmitFill` and `SubmitRest` are its outcomes after it. `CallCancel`, `LandCancel`,
  `CancelTooLate` and `CallLink`, `LandLink` split `cancel_order`, `connect` and
  `disconnect` the same way. `SetMarketPrice` is the whole of `set_market_price`.
* **AlpacaGateway** - `SubmitPost`/`SubmitAnswered`/`SubmitLost` and
  `CancelSend`/`CancelAnswered`/`CancelLost` around a broker that takes, refuses, fills
  and cancels in between; `StateOf` is the status table. A lost answer leaves the caller
  not knowing; the caller may submit again.
* **SmartRouter** - `RouteSlice` computes the allocation, `DarkAnswers`, `DarkCancelled`,
  `LitAnswers` and their failures are the awaits of `route_slice`; `DarkExecutes` is the
  dark pool going on until the cancel arrives. `RecordFillMarkout` and `GetVenueHealth`
  are the quarantine. A slice keeps the time it started at: its lit children are chosen by
  that clock and sent one after another, whatever is quarantined meanwhile.
* **KillSwitch** - `trigger_panic`: `Call` up to the lock, `EnterAndLeave` or `Enter`
  with the lock, `Freeze` (scheduler hooks), `Fetch` and `FetchFailed` per gateway,
  `StartCancels`, `Cancel` and `CancelFailed` per order, `FinishCancels`, `ReadPosition` /
  `StartFlattening` / `Flatten` / `FinishFlattening`, `Notified`. `FlattenCrash` is the
  RuntimeError of a dict that changes size during iteration, `Abort` the cancellation of
  the task. Orders pass `validate_submission` (`Route`) and land later.
* **AuditLogger** - `Start`, `Flush`, `BeginStop`/`FinishStop` (stop holds the lock while
  it awaits the worker), `StopAgain`, `Skip` (the re-check under the lock), `WorkerFlush`,
  `LogReport`; `WriteFailed` and `Crash` are the failures.
* **HeartbeatWatchdog** - `RecordHeartbeat`, `CheckBaseline`/`CheckTimeout`/`CheckDegraded`
  (the branches of `check_liveness`), `MarkReconnecting`, `Reset`. Time is relative: only
  ages are kept. `bySender` is `RiskService.record_gateway_heartbeat`'s choice of the
  timestamp.
* **RiskLedger** - `Route` is `route_order` up to its await (firewall and reservation, one
  step), `Return...` what it does with the report or exception, `TaskCancelled` a
  cancellation at the await, `WatchedFill` a resting fill that `step_cycle` reconciles,
  `SilentFill` one that nobody books. One symbol at price 1, so that every change of the
  equity is an artefact of the bookkeeping.
* **GatewayRegistry** - `register_gateway` with its closure on the watchdog,
  `unregister_gateway`, `set_default_gateway`, `_resolve_gateway`, the liveness check that
  calls the listeners and the panic task they start, the operator's switch.

### Sessions and services

* **LiveSession** - `StartCall`/`StartConnected`/`StartFails`, `Pause`, `Resume`,
  `PanicKill`, `Disarm`, `Cycle` (one `step_cycle` up to its next await), `Rebalance` per
  symbol, `Answered`, and `stop` in its five awaits; `Key` the hotkeys, `MainLeaves` and
  `Exit` the end of the program, which cancels what still runs.
* **AutonomousTrader** - start and stop with the loop task's handle, `step_once` split at
  `fetch_latest_bars` and `get_positions`, the orders it submits as routing tasks.
* **CircuitBreaker** - `evaluate`: composite shock, candidate tier, hysteresis, haircut.
* **Schedules** - the slices of the TWAP, VWAP and arrival-price schedulers one by one;
  the random draws and the trajectory are any the parameters allow.
* **ParentOrder** - `record_child_fill` with its tolerance and the shortfall report.
* **ExecutionService**, **ParentContract** - the slice task split at sleep, connect and
  route. `ParentContract` is the abstract specification: a parent's lots are
  committed slice by slice and never more than the order asks for, fills are booked
  against committed lots (plus `Surplus`, what faulty venues add) and never taken back,
  and nothing more is committed once the order is cancelled or has ended.
  `ExecutionService!ImplementsContract` states the refinement by
  `INSTANCE ParentContract WITH` (committed lots are the slices that passed the
  checks).
* **TaxLots**, **LedgerService** - `AfterFill` is `allocate_fill` as one operator;
  `RecordFill` changes the engine's lots and reads rows, `Commit` or `CommitFails` ends
  it; `AccrueEod` likewise; `RehydrateReads`, `RehydrateLoads`, `LedgerRestart`.
* **EventStream** - both websocket handlers: snapshot, registration, reader, writer and
  listener of one client, with a bounded queue. What a client holds is the set of the
  changes it was told of: `Submitted`, `Cancelled`, `SlicesEnd` and the risk stream's
  messages carry a whole state, `Filled` only its fill, which the web client adds to an
  order it knows (`Learned`). Child ids are taken to be distinct, so a fill never replaces
  another. `submit_parent_order_sync`, which the tests use, announces nothing.
* **McpClient** - calls over a shared child process or HTTP, with timeouts, a dying
  server, concurrent connects and closes, and token renewal. Over a pipe a call writes
  (`Writes`), may wait in `drain()` for a child that does not read (`Drained`,
  `DrainFails`), which no timeout bounds, and then reads a line of whatever child
  `_process` is by then.

### Research pipeline

* **HistoricalIngest** - a run over symbols, providers in order of preference, pages and
  retries, the parsed batch, the upsert, and the aligned returns `Matrix`.
* **TripleBarrier** - `LabelBatch` labels a small price series for LONG, SHORT and
  UNSIGNED trades, with barriers rounded to the tick (`Quantised`); `MetaLabelBatch` the
  secondary labels and the bet sizes: a stake of up to ten times the edge, divided by the
  trades open, clamped last.
* **PurgedSplits** - `SplitCall` and `YieldSplit`, for every assignment of label lengths.
* **Chromosomes**, **ParetoRanking**, **EvolutionSearch** - the codec and the variation
  operators on a grid, on which a loaded discrete gene may lie between two of its levels
  (`from_dict` only clips; `encode` rounds, so `holding_period` 7 comes back as 5);
  non-dominated sorting with its tolerance, the archive; a generation as one step.
* **PositionSizer**, **BacktestReplay** - the projection and rounding; the bar loop with
  the breaker (extends CircuitBreaker and PositionSizer). `Projected` takes the ways of
  `project_two_l1_constraints` in turn: nothing to do, one budget (`OntoLeverage`,
  `OntoShortfall`), or both, where `LastGuess` is the Newton iteration over sets of
  positive holdings and `ProvesRight` its acceptance test. Amounts are exact fractions, so
  the rescalings that repair rounding change nothing, and the branch for parallel
  constraints is not reached (with equal shortfalls one budget implies the other). Where
  the iteration gives up, on a single holding or a tie of shortfalls, `OntoBoth` is any
  allocation within both budgets: Dykstra's forty rounds may stop short of their limit,
  and the final rescaling ensures the budgets and nothing more.

## Runs

Components that do not share state are checked in one run as a disjoint union: a variable
`unit`, chosen in the initial state and constant, says which component moves, the others
stay in an initial state. A behaviour of the union is exactly a behaviour of one component,
so each invariant is checked as in a run of its own. Components that do share state are
composed in one module: the breaker and the sizer in `BacktestReplay`, the lots in
`LedgerService`, the router in `PaperGateway`, the state machine in both.

| Run | Units | States |
|---|---|---|
| `sessions` | live session, autonomous trader, circuit breaker, order lifecycle (two orders, symmetric) | 1 510 000 |
| `sessions_live` | the same under fairness | 74 000 |
| `books` | paper gateway, Alpaca gateway, smart router, risk ledger, ledger service, position sizer | 770 000 |
| `kill_switch` | two triggers (one flattens), two gateways, two orders, two faults | 2 500 000 |
| `kill_switch_live` | no faults, two panics | 470 000 |
| `platform` | replay, chromosomes, evolution, ingestion, splits, labels, schedules, parent orders, execution service (two parents, symmetric), registry, watchdog, duplicate filter | 510 000 |
| `services` | event stream, MCP client, audit logger, execution service, with fairness | 156 000 |

What they show, by component. A property in bold is one formula of the configurations; the
names after it are its parts, each defined and explained on its own in the module. Most
components have one formula for their safety, the conjunction of its parts, with one faulty
variant that it must notice.

| Component | Properties |
|---|---|
| Order lifecycle | **`ClientFollowsBroker`**: `TypeOK`, `NeverAheadOfBroker`, `TerminalAgreement`; **`MonotoneUntilTerminal`**; **`Converges`** |
| Live session | **`SessionControlled`**: `SessionTypeOK`, `OneLoop`, `RunningHasLoop`, `StoppedIsQuiet`, `ExitIsClean`, `LateOrdersBounded`; **`StopsEnd`**: `StopTerminates` |
| Autonomous trader | `SwarmStops` (part of **`StopsEnd`**); **`SwarmControlled`**: `TraderTypeOK`, `SingleSwarmLoop`, `StoppedSwarmIsIdle`, `AllocationRespected`, `KillStopsSwarm` |
| Circuit breaker | **`RecoveryIsGradual`**: `RecoveryTakesTwoDwells`, `ExposureReturnsInSteps`; **`CalmRestoresTrading`** |
| Paper gateway | **`PaperAccountSound`**: `PaperTypeOK`, `RegistryCoherent`, `BooksBalance`, `LimitsRespected`, `ImmediateFillsFunded`; **`NoDoubleExecution`** |
| Alpaca gateway | **`ReportsAreTrue`**: `NoOverstatement`, `CancelledIsSettled`, `RefusedIsNotWorking` |
| Smart router | **`RoutingSound`**: `AllocationIsCheapest`, `NoOverExecution`, `ReturnedIsComplete`, `QuarantineHolds`, `QuarantineHonoured`, `QuarantineNeverShortened`, `QuarantineServed` |
| Risk ledger | **`LedgerCoversVenue`**; **`DriftExplained`**: `RiskTypeOK`, `ExcessExplained`, `BooksExplained` |
| Ledger service, lots | **`LedgerReconciles`**: `JournalBalanced`, `CashMatchesJournal`, `BooksAgree`, `LotsOneSided`, `DebtLagsByDrag`, `AccruedOnce`, `OldestFirst` |
| Position sizer | **`TargetsFeasible`**: `ProjectionIsNearest`, `RoundingExcessBounded` |
| Kill switch | **`PanicSweeps`**: `TypeOK`, `SweepCoversOpen`, `SurvivorsExplained`, `FlattenLeavesFlat`; **`EventOfThisPanic`**; **`TriggerEnds`** |
| Replay | **`ReplayHonest`**: `NothingEarnedEarly`, `ReportMatchesLog`, `HaltedBarsAreFlat`, `LeverageExcessExplained`, `OneModelNeverTrips` |
| Chromosomes | **`GenomesFaithful`**: `GenesInBounds`, `RoundTripFaithful`, `LogitsCentredUnlessCut` |
| Evolution | **`SelectionSound`**: `CachedRankingExact`, `FrontsCleanUnlessClose`, `SelfMatingIsForced`, `OffspringChargedToParent`, `CataclysmEndsStretch`, `BestNeverLost` |
| Ingestion | **`IngestFaithful`**: `ZeroLookahead`, `NoMoveIsLost`, `BatchesAreMonotone`, `StaleBarsExplained`, `FailedIsUntouched`, `RunsNeverStick`, `RunsAdvance` |
| Splits | **`SplitsClean`**: `OverlapExplained`, `EmbargoKept`, `PathsPartitionFolds` |
| Labels | **`LabelsExplained`**: `ExitWasTradable`, `LabelSignExplained`, `MetaLabelCostExplained`, `OpenBetsBounded` |
| Schedules | **`SchedulesSound`**: `ValidRequestsAreScheduled`, `ScheduleIsWhole`, `ParticipationKept`, `SlicesInOrder`, `TwapWithinHorizon` |
| Parent orders | **`ParentBookExact`**: `BookMatchesFills`, `PeroldIdentity` |
| Execution service | **`ImplementsContract`**; **`ServiceKeepsBooks`**: `ServiceTypeOK`, `BookFollowsVenue`, `EndIsAnnounced`, `NoSliceUnderKill`; **`TasksEnd`** |
| Registry | **`LinksUnderControl`**: `DefaultIsRegistered`, `StrayListenersExplained`, `UsedIsSwept`, `LossIsActedOn` |
| Watchdog | **`WatchdogSound`**: `WatchdogTypeOK`, `DisconnectsAreSilence`, `NoSilentGap`, `OncePerLoss` |
| Duplicate filter | **`WindowSound`**: `DedupTypeOK`, `RingMirrorsSet`, `WindowExact` |
| Streams | **`StreamHonest`**: `StreamCatchesUp`, `NeverToldBackwards`; **`StreamSettles`**: `RiskStreamSettles`, `EndedOrdersSettle`, `ListenerLeaves` |
| MCP client | **`CallsSafe`**: `AnswerIsOwn`, `CarriedOutOnce`, `ChildrenAreOwned`; **`CallsEnd`** |
| Audit logger | **`TrailSound`**: `AuditTypeOK`, `Accounted`, `StoppedMeansDurable`, `OneWorker`; **`EventuallyWritten`** |

That an ingestion run ends is shown without fairness: `RunsAdvance` says that every step of
a run lowers a ranking (symbols left, providers left, pages and retries left), and
`RunsNeverStick` that a run under way always has a next step.

Five runs show where a comment, an assertion or a design document says more than the code
does (each quoted in `PROJECT.json`):

| Run | Statement | What happens |
|---|---|---|
| `lifecycle_fees` | cumulative fees incurred (`models.py:199`) | a repeated partial-fill report adds its fee again |
| `kill_switch_assert` | `_last_event is not None` (`kill_switch.py:894`) | the task of the first panic was cancelled before it stored its event |
| `risk_limit` | INV-RSK-003, exposure within a share of the net asset value | without any failure, resting fills are booked but not paid for, so the ledger's equity and the limit grow |
| `label_collision` | a dual touch is resolved to stop loss (`labeling.py:33`) | the stopped SHORT is labelled +1, like a win |
| `cv_leakage` | no training lifespan overlaps a test block (`cross_validation.py:142`) | a test block ends with its last sample's label, not with its latest one |

### Known weaknesses the properties state around

These exceptions are part of the properties above, because the code has them:

* An order that expires while its cancel is pending never ends at the client
  (`Converges`). A fill during a pending cancel returns it to PARTIALLY_FILLED, so the
  lifecycle is not acyclic as `fsm.py:30` says.
* An order that passed `validate_submission` before a panic and is still in the gateway's
  latency lands after `get_open_orders` was answered (`SurvivorsExplained` names it).
* A failing insert loses the reports `flush` had drained (`Accounted` counts them as
  `discarded`).
* An overtaken heartbeat with its sender's time moves the watchdog's clock back
  (`DisconnectsAreSilence`); `mark_reconnecting` re-arms the panic within one silence
  (`OncePerLoss`).
* Nothing in the repository calls `check_liveness` periodically (`heartbeat.py:683`), so no
  liveness is claimed for the watchdog.
* Resting BUY orders of the paper gateway reserve no cash (`ImmediateFillsFunded` is about
  submissions only). An id that left the router's history may execute again.
* `route_order` releases the reservation on every exception and keeps it when its task is
  cancelled. One signed reservation per symbol lets a working SELL hide a working BUY: the
  exposure properties are stated for one-sided flows.
* A `start` of the session that overlaps another `start` or a `stop` can leave a loop no
  `stop` reaches; `disarm` allows a RUNNING session without a loop; a second `stop` returns
  at once (`OneLoop`, `StoppedIsQuiet`, `RunningHasLoop`, `ExitIsClean`). The trader has the
  same window (`SingleSwarmLoop`).
* A breach throws the switch and awaits the sweep; a switch re-armed during that await
  leaves the loop trading, because the loop looks at the switch only afterwards
  (`LateOrdersBounded`).
* An exception of `connect` kills a slice task without a closing event (`EndIsAnnounced`);
  a full audit queue or a slice that rests keeps executions out of the parent's book
  (`BookFollowsVenue`).
* The dark child may execute until its cancel arrives (`NoOverExecution`); failing lit
  children lose the reports of earlier ones (`ReturnedIsComplete` is about slices that
  return). A lit venue quarantined after a slice began still gets the child chosen for it
  (`QuarantineHonoured`).
* The account row has no version: overlapping calls lose an update (`CashMatchesJournal`);
  a fill booked over a failed commit, or a rehydration during a fill, parts memory from the
  rows (`BooksAgree`).
* Alpaca: a duplicate's refusal may be of an order that works; a 404 on cancel is read as
  cancelled (`RefusedIsNotWorking`, `CancelledIsSettled`).
* MCP over a child process: after a timeout the next call reads the late answer
  (`AnswerIsOwn`), and so does one that wrote to one child and read from another;
  overlapping connects lose a child (`ChildrenAreOwned`). `drain()` is outside the
  timeout (`client.py:845`): a child that lives and stops reading, say because nobody
  reads its stderr, blocks the call, although `_send_rpc` promises a transport exception
  on time-out (`CallsEnd` names this call, `Stalled`).
* A change between snapshot and registration, or on a full queue, is not told
  (`StreamCatchesUp`). The risk stream's ticker repairs it (`RiskStreamSettles`). The order
  stream sends fills as deltas, so a lost fill stays lost until an ORDER_UPDATE of its
  order, of which the last may be lost as well (`EndedOrdersSettle`).
* A frame that is no JSON ends the stream of a client that stays
  (`streaming.py:121`; `RiskStreamSettles` and `EndedOrdersSettle` are about clients that
  send none).
* A barrier rounded onto the entry price closes its trade as it is entered, labelled as a
  touch; an UNSIGNED trade that expires after a fall larger than its costs is labelled +1
  (`LabelSignExplained`).
* Where the sizing iteration gives up the allocation keeps the budgets, but need not be the
  nearest one (`ProjectionIsNearest`).
* With elites, the step-size adaptation charges offspring to the wrong parents
  (`OffspringChargedToParent`); near ties share a front (`FrontsCleanUnlessClose`);
  rounding to lots may exceed the budgets by less than a lot per asset
  (`RoundingExcessBounded`); neither the concurrency penalty nor the clamp keeps the sum of
  open bets under the cap (`OpenBetsBounded`).

### Bounds

Every bound is a constant, commented where it is declared: numbers of faults, retries,
orders, calls, slices, bars, generations, runs, and the sets of actors. Two of each actor
suffice for a race between equals; a third has no step that two cannot take. Three lots
give two distinct partial fills before a complete one. Capacities are smaller than what is
put in (`Capacity` and ids, `MaxQueue` and reports, the stream's queue and its events, the
first front and the population), so that the limit is met. The stream's queue holds one
message and one of its two orders takes three changes, so that a fill is lost between two
that are told; a child may leave one request unread before `drain()` waits. Two of the sizer's
three assets have the same shortfall: its candidates need the first guess, a second one, or
the fallback. Orders of the risk ledger add up
to more than the limit admits. Replay lengths lie below and above the minimum. Label
lengths include zero and more than a group, sample counts do not divide by the groups. Ages
stop at the timeout, beyond which no comparison of the code changes. The live runs use
fewer orders than the safety runs, because liveness checking multiplies the states.

### Fairness

* `TransportFairness`: each delivery; an assumption about the transport. The code has no
  resend request, so liveness is claimed only for an at-least-once transport.
* `KillSwitch!FairSpec`: the running sweep (every gateway call is under
  `asyncio.wait_for`) and each waiter (asyncio.Lock is FIFO). Hooks and listeners have no
  timeout in the code: that they return is assumed.
* `AuditFairness`, `SessionFairness`, `TraderFairness`, `ServiceFairness`,
  `StreamFairness`, `McpFairness`: the event loop runs ready tasks, a sleep ends, and an
  awaited gateway or server call returns or raises: httpx, `wait_for` and the paper
  gateway's sleep bound them. Nothing obliges an operator or a client to act, and no
  failure is required to happen. The MCP child owes nothing: a call in `drain()` goes on
  only once the child has read or died. A reader of a stream that waits for room to answer
  a PING is woken whenever the writer takes a message; `StreamFairness` assumes strong
  fairness for it alone, that is that ticker and listeners do not refill the queue before
  every one of its turns.
* `BreakerFairness`: bars keep coming; the caller evaluates once per bar.

Deadlock is not checked where the system may stop: orders end, calls return, and nothing
obliges a client to submit more.

## Proofs

Eight modules hold theorems, each about the components it EXTENDS. A component's theorem
states the formula its run checks (table above), for every value of the constants.

| Module | Theorems | Inductive invariant, and why it is needed |
|---|---|---|
| `SessionProofs` | `ClientFollows`, `MonotoneLifecycle` (orders); `SessionControlledHolds`; `SwarmControlledHolds`; `RecoveryIsGradualHolds` | orders: what is known of the reports on the wire (each was true when it was sent). `SessionInvariant`: who holds the loop, which pending calls an order or a start belongs to. `SwarmInvariant`: the same for the trader's loop task, and the lots under way summed over its routing tasks. Breaker: the two dwell counters against the tier. |
| `BooksProofs` | `ReportsAreTrueHolds`; `LedgerCoversVenueHolds`, `DriftExplainedHolds`; `ParentBookExactHolds`; `RoutingSoundHolds` | `AlpacaInvariant`: what a sent cancel and a lost submission say of the broker. `LedgerInvariant`, `Covered`: inventory plus reservations against what the venue holds, call by call. `ParentInvariant`: the running totals are sums over the recorded fills. `RouterInvariant`: where a slice's lots are in each state of `route_slice` and which venues were quarantined since it began. |
| `PaperProofs` | `PaperAccountSoundHolds`, `NoDoubleExecutionHolds`; `LedgerReconcilesHolds` | `PaperInvariant`: cash and positions are sums over the filled orders, registry and router agree, each pending call knows what it saw. `NothingTwice`: an id taken on once is open or remembered. `LedgerInvariant` (of the ledger service): the lots in memory and the committed rows mirror each other but for the fill under way, whose notes say what is missing. |
| `ConnectivityProofs` | `WindowIsSound`; `WatchdogIsSound`; `LinksUnderControlHolds`; `CallsSafeHolds` | `WindowInvariant`: the ring is a suffix of the history of closed ids without repetition. `WatchdogInvariant`: the watchdog's clock does not run ahead of the true silence unless an overtaken heartbeat set it. `RegistryInvariant`: a disarmed listener is deaf. `McpInvariant`: requests wait in one place at most, the answers on a pipe are those of the requests before them in order, a call that drains or reads is accounted for on its child, and a child is owned by one connection or is being closed. |
| `KillSwitchProofs` | `PanicSweepsHolds`, `EventOfThisPanicHolds` | who holds the lock, and what the sweep has fetched, of an order that is still open |
| `ServiceProofs` | `ServiceKeepsBooksHolds`, `ServiceImplementsContract`; `StreamHonestHolds`; `TrailIsSound` | `ServiceInvariant`: slices are planned once, an end is told before the task ends, the book follows the venue. `StreamInvariant`: what a client will know of each order once what is queued for it is delivered, message by message. `AuditInvariant`: who holds the lock is the one caller in its stop. |
| `ComputationProofs` | `SplitsCleanHolds`; `SchedulesSoundHolds`; `LabelsExplainedHolds`; `ReplayHonestHolds`; `GenomesFaithfulHolds` | `SplitsInvariant`: every split yielded is the one its combination gives. `ScheduleInvariant`: one predicate over the loop variables per algorithm (what is booked and what is left add up, the times so far, and what the slices to come still need). `BarrierInvariant`: each label belongs to its event, and no bar of its series before its exit touched a barrier; meta-labels and sizes are those of the labels. `ReplayInvariant`: every record of the log continues the one before it, the running values are those of its end, and a calm run of one model has left the breaker at NORMAL. `GenomeInvariant`: the logits lie on a grid on which the decoder's division is exact. |
| `SumTheorems` | `SumRemove`, `SumChange`, `SumUnion`, `SumLinear` and others; `RanksFill` (ranks in a total order) | - |

**Refinement.** `ServiceImplementsContract` is the refinement of `ParentContract` by
`ExecutionService`: initial states map to initial states, and under `ServiceInvariant` every
step maps to a step of the contract or to a stutter, action by action. The contract has no
fairness, so the theorem is the whole of what `ImplementsContract` states.

**Sums.** Cash, books, reservations and routing costs are folds of the community modules,
which define a fold as the choice of a table over all subsets. `SumTheorems` shows that such
a table exists for a finite set and that all of them agree on it, by induction over sets of
numbers (`SetInduction`, from the well-foundedness of `<`: the library's induction theorems
take an operator as parameter, which the provers cannot instantiate). From there the usual
laws follow: a term may be taken out anywhere, a change of one term changes the sum by as
much, sums over disjoint sets add up, sums are linear and monotone, appending to a sequence
adds its term. Every proof about a book cites these and nothing else of the fold.

**The cheapest split.** `RoutingSoundHolds` contains an optimality result: for any venues,
fees and depths, no split of a slice over the active lit venues costs less in taker fees
than the greedy one. The argument is an exchange: let w be the venue at which the greedy
split stops (`MarginalExists`); another split puts no more than the greedy one into each
venue before w and no less into each after it; moving a lot from a dearer to a cheaper
venue never costs, so with f the fee of w, cost minus f times quantity is at least as large
venue by venue (`Saves`), and both split the same quantity.

**Splits and paths.** `SplitsCleanHolds` needs the enumeration of the combinations: they are
placed by their rank in lexicographic order, and `RanksFill` shows by induction that the
ranks of a finite set in a strict total order are exactly 1 to its size. So each group is
tested by as many folds as there are paths and each fold serves one path.

**Schedules.** A slice takes what the weights ahead allow, so the argument follows the sum:
what is booked and what is left make the order after every bar. The last bar that has
weight takes all that is left unless the participation cap cuts it, and for a TWAP the
clamp leaves every later slice its minimum (`Reserve`). The inventory curve of the arrival
schedule and the random draws are arbitrary.

**Open bets.** `LabelsExplainedHolds` bounds a sum over an unknown number of events. The
label that is the r-th of those open together, by event, is paid at most its stake divided
by r and at most the cap, so a sum over any set of them is at most what the largest stake
among them earns in turn (the stake, its half, its third, none above the cap), by induction
over the size of the set (`RankedSum`).

**Logs.** The replay keeps running values, its report is a function of the log.
`ReplayHonestHolds` shows that the running balance is the sum over the log and that the
deepest recorded drawdown is the report's, comparing fractions by their cross products.

**Exact division.** The codec centres logits by their mean and projects them back. Its
integer model is exact as long as the sums divide. The invariant keeps every logit a
multiple of 9 and the vector a multiple of 3 (`Grade`), which crossing, mutation and
clipping preserve if the bound is a multiple of 54 (`Chromosomes`' assumption). A discrete
gene moves to the nearest level in its first coding, by half a step at most, and is a
multiple of its step from then on (`NearestIs`, `OnLevel`).

**Lots.** `LedgerReconciles` compares three records of the same lots (memory, rows, journal)
that the code writes at different times. What an allocation does to the lots is a closed
formula: a fill takes from each lot what the lots before it leave (`InTurn`), and the sum
of what it takes is the smaller of its quantity and what is open on the other side
(`Greedy`). Hence the lots stay one-sided (`StaysOneSided`) and the entries of the journal
are what the cost of the lots changes by (`FillEntered`). None of the parts is inductive:
between the allocation and the commit, memory is ahead of rows and journal. `LedgerInvariant`
says by how much: with no fill under way the rows are the lots (`Mirrored`), and a fill
under way `Follows`, that is its notes and its opened lot turn the rows into the lots, its
flows the journal into their cost. A failed commit leaves memory ahead and a reload or a
restart brings it back; reading the rows by time gives each of them one place (`RanksFill`).
The clauses on books and lots are under `~overlapped`, as in the property: calls that
overlap do break them in the code (`ledger_service.py:494` and the lots shared by two fills).

**Assumptions.** The named ones of the modules (`QuantityAssumption`, `RiskAssumption`,
`RouterAssumption`, ...): types of the parameters, finiteness of the sets of orders and
venues, and what constructors refuse. Beyond these three theorems have hypotheses:

* `NoDoubleExecutionHolds`: `Fits`, the ids in use fit the window of closed ids
  (`Cardinality(Ids) <= Capacity`; the code's window holds 10000). With more ids one of
  them may be forgotten and executed again, which is a property of the code.
* `EventOfThisPanicHolds`: the switch does not start in `PANIC_TRIGGERED`, and nothing has
  failed so far (`faults = 0`); with a cancelled task the statement is false, as the run
  `kill_switch_assert` shows.
* `ReplayHonestHolds`: `WeightAmbiguity < Caution`, as in the code's defaults (0.20 and 0.45,
  `circuit_breakers.py:78` and `:87`). With a weight above the threshold the ambiguity of a
  single model could trip the breaker, which `OneModelNeverTrips` excludes.

`LedgerCoversVenueHolds` is about a flow in one direction, either one (the run watches
BUYs).

**Only model-checked.** The liveness properties (`Converges`, `StopsEnd`, `TriggerEnds`,
`TasksEnd`, `CallsEnd`, `StreamSettles`, `EventuallyWritten`, `CalmRestoresTrading`) and
`RunsNeverStick`, which need fairness or ENABLED, out of the prover's reach. Of the
safety properties these stay with TLC:

* `TargetsFeasible`: the divisions of the projection leave no remainder only on the grid the
  run enumerates. There the check of the nearest point is complete: the grid holds every
  corner of the two budgets, and a target from which no corner lies in the direction of the
  candidate is the nearest of all admissible allocations.
* `SelectionSound`: fronts and crowding are sorts and folds over sequences, which the
  community modules define recursively: their values for every input need an induction
  the provers cannot instantiate.
* `IngestFaithful`: batches are sorted and filtered by such operators, and `RunsNeverStick`
  uses ENABLED.

## Plan

The model is complete as planned, and of the safety properties the runs check all those are
proved that the prover can reach; the three above and liveness stay with TLC.

## Not modelled

* Payoff matrices, regret, deflated Sharpe ratios, ensembles, regimes, tail risk,
  fractional differentiation, market impact, strategies and the pre-trade gate: closed
  formulas and estimators over arrays of reals. They keep no state between calls; where
  their result matters it is a nondeterministic input (readings of the breaker, traits of
  a candidate, signals of a bar).
* News harvesting and prediction, live market data, external providers: HTTP requests and
  parsers.
* API endpoints, schemas, middleware, security, configuration, table declarations:
  delegation and formatting. Reports, tear sheets, the terminal and the web client (but for
  what it makes of a stream's messages): presentation.
* Floating-point rounding everywhere: quantities, prices and money are integers, and a
  tolerance is modelled only where a property is about it (`ParentOrder`, `Schedules`,
  `ParetoRanking`).
