# A verification of the Kalshi market-data collector

TLA+ models of the collector in `src/kalshi_collector` and `main.py`, model-checked with TLC, with theorems proved by
TLAPS. File names below are relative to the repository; "collector" is the process `main.py collector`.

## 1. The system

One asyncio process (`run_collector`) connects a REST API and one WebSocket of the exchange to a PostgreSQL database. It
has no threads: tasks interleave only where the code awaits (a connection of the pool, a statement, a request, a lock, a
sleep), and what a task read before an await may be stale after it.

| Component | State it keeps | Operations | Talks to |
|---|---|---|---|
| Orderbook collector (`collectors/orderbook.py`, `OrderbookState` in `models.py`) | `_states`: a book per market, in memory | snapshot handler, delta handler, `poll_once`/`run_polling` | is called by the receive loop; writes `orderbook_snapshots` (change-only) and the checkpoint `orderbook_delta` |
| Trades collector (`collectors/trades.py`) | none in memory | trade handler, `poll_once`/`run_polling` | writes `trades`, checkpoints `trade` (seq) and `poll_trades` (timestamp); reads the latter |
| Metadata collector (`collectors/metadata.py`) | its ticker list, fixed at startup | polling task, lifecycle handler | writes `markets`, `market_updates`, `settlements` |
| Settlements collector (`collectors/settlements.py`) | its ticker list, fixed at startup | polling task | writes `settlements` |
| Discovery (`discovery.py`) | `_known_tickers` | `run_once`: series, events and markets | writes those three tables; returns new markets to `main.py` |
| WebSocket client (`ws_client.py`) | `_running`, `_ws`, `_subscriptions` | `start` (connect, re-send, receive, back off), `stop`, `subscribe`, `add_markets` | the exchange; calls the handlers, one frame at a time |
| HTTP client (`http_client.py`) | `TokenBucket`: `_tokens`, `_last_refill`, a lock | `get` (acquire, send, retry a 429), `get_paginated` | shared by discovery, metadata, settlements |
| Storage (`storage/writers.py`, `checkpoints.py`, `db.py`) | the tables, the pool, `_migrations` | upserts, appends, checkpoints, migrations | PostgreSQL |
| Collector process (`main.py`) | `tickers`, `market_id_map`, the shutdown event, a row of `ingestion_runs` | startup, tasks, signal, shutdown | all of the above |
| Migrations (`run_migrations` in `storage/db.py`, `sql/`) | `_migrations`, the schema | look a script up, apply it, record it | collector and backfill call it first |
| Partitions (`sql/002_partitions.sql`, `scripts/verify_partitions.py`) | the weekly partitions in `pg_class` | five weeks at setup, five more per run of the script | PostgreSQL; the operator runs the script |
| Monitor (`monitor/`) | none between rounds | rounds of six checks, an alert per finding | PostgreSQL, Discord |
| Backfill (`scripts/backfill_settlements.py`) | none between series | fetches archived and finalized markets per series, upserts event, market, settlement | PostgreSQL, the exchange |
| Authentication, configuration, logging, deployment | none | sign a request, read settings | - |

### What is hard in it

* **Interleaving at awaits.** A handler changes memory and then awaits a connection; polls of other markets, the
  polling tasks and discovery write the same tables in between.
* **Lost connections, restarts, failed statements.** Nothing is retried. A lost frame is made up for by the snapshot
  after the reconnection, a lost lifecycle event by the settlement task, a lost trade by nothing: the poll that would
  bring it in (`run_polling`) is written, but `main.py` never starts it.
* **Two clocks.** Snapshots and polls are stamped with the local clock, deltas with the exchange's; the "latest" row is
  the one with the greatest stamp.
* **Two writers of a row.** `settlements` (lifecycle event, polling task) and `markets.status` (metadata, discovery):
  the last one wins, whatever it knew.
* **Startup and shutdown.** `subscribe` runs beside `start`, a signal may come at any await, and the tasks are cancelled
  while a connection may be opening.
* **Silent ends.** An exception ends the discovery, metadata or settlements task, or the monitor's; nobody notices until
  shutdown.
* **Several processes.** Collector and backfill run the migrations and write the same tables; collector, monitor,
  operator and repair script together keep the partitions ahead of the calendar.
* **The calendar.** Three places name a week, two of them differently at some turns of the year.

`PROJECT.json` lists the hazards one by one, each at its line, with the properties that catch it going wrong. Where the
hazard does strike, so that every property has to except it, it has a note and usually a finding instead.

### What makes each part correct

* Orderbook: memory is the exchange's book whenever all frames are handled; the table holds books the exchange had,
  in their order, no two equal in a row; a checkpoint names a message whose book is stored.
* Trades: a trade is stored, once on each path that brings it; a checkpoint never passes a trade that is missing; where
  polling runs, it brings in what the stream lost.
* Outcomes: settled markets end with their final result and status, `market_updates` does not go back.
* Feeds: the markets collected are streamed, once, on every connection, and none that would be dropped as unknown;
  a signal ends the process cleanly.
* HTTP: the rate stays below a limit whoever calls, and nobody starves at the lock.
* Discovery and backfill: a market that stays open is registered; a backfill leaves out only what failed under it.
* Migrations: no script counts that was not run, and a process gets through. Partitions: a row of the current week can
  be stored. Monitor: a silent market is reported however often rounds and sends fail; "ready" is true.

## 2. Modules

    ChangeLog  <------ implemented by ------  OrderbookPipeline  <-- OrderbookPipelineProofs
                                                    |  (rows[m] |-> log[m])         ^-- OrderbookHistoryProofs
    RateLimiter     <-- RateLimiterProofs
    MarketFeeds     <-- MarketFeedsProofs      which markets reach the handlers of OrderbookPipeline and Trades
    Trades          <-- TradesProofs           trades of one market, both paths
    MarketOutcomes  <-- MarketOutcomesProofs   settlement, metadata, lifecycle, discovery
    Catalog         <-- CatalogProofs          discovery and backfill through series, events and markets
    Migrations, Calendar  <--  Partitions  <--  Monitor  <-- MonitorProofs
                         (each extends the ones to its left and joins their steps with its own)

A step of every module runs from one await of the code to the next. What the exchange does is external, modelled from
what the code sends and reads. In every module `Crash`/`Kill` may happen at any await, which
`restart: unless-stopped` in `docker-compose.yml` turns into a restart. Operators whose comment begins with "Slip" are
plausible mistakes in the code; nothing uses them but the checks that a property notices them (PROJECT.json,
"mutants").

### OrderbookPipeline and ChangeLog

`states` is `_states`; `pos` and `missed` (auxiliary, read by no guard) say how far it is. A worker is the receive loop
(`Stream`; the loop awaits each handler, so there is one) or the `poll_once` of a market. `Receive` is a handler up to
its first await: parse, change memory, take the timestamp. Then `Select`, `Insert` and `Checkpoint` are
the statements of `_persist`/`maybe_append_orderbook` and `write_checkpoint`, and `DbError` lets any of them fail.
`Select` takes any row of the greatest timestamp, since the query does not break ties. `Discard` is a frame that does
not parse. `Connect`/`Subscribe`/`Disconnect` are the client's loop and the exchange's answer with a snapshot.

A book is a function from levels to small quantities (0: no such level); the checksum is the book itself, that is, it
does not collide.

Constants that state an environment rather than a size:

* `Incremental`: whether `delta_fp` is the change of a quantity or the quantity. The code takes it as the quantity, the
  documentation calls it incremental; all passing runs use the reading under which the code can be right.
* `Prompt`: TRUE when a market changes only after its last change is fully handled, and both sides stamp with the same
  clock. It is an assumption about the exchange's pace and clock skew, and the properties of `ob_prompt` need it
  (`ob_repeated_row` shows what happens without it). The properties of `ob_faults` hold without it.
* `WsAvailable`: the modules assume polling is used instead of the WebSocket, not beside it (`FallbackOnly`,
  `orderbook.py` line 4). `main.py` in fact never starts `run_polling`.

`ChangeLog` is the promise to the readers of `orderbook_snapshots`: books the exchange had, in order, without
repetition; it may lag and leave books out. `OrderbookPipeline` implements it under
`log <- rows without timestamps` (`ImplementsChangeLog`).

### RateLimiter

Units of time are 1/rate seconds, so floats become integers. `Get` queues at `asyncio.Lock` (first come, first served),
`Acquire` pays at once, `AcquireShort` sleeps with the lock held, `Wake` empties the bucket and leaves `_last_refill`
before the sleep, as the code does. `TooMany`/`Retry` are tenacity's loop, which does not pay again. `late` counts time
that passed while something was due: `MaxLate` bounds how late the event loop is in all. `mark` is an arbitrary moment,
which makes `RateBound` a statement about every interval.

### MarketFeeds

`phase` follows `run_collector`; `tickers`, `known` and `marketIdMap` are its three views of the markets. Startup
discovery is one step (no task exists yet), with any subset of the markets as its result, since failed requests are
skipped. `Subscribe` is `start_ws` after its 2 s, `Register` the body of the discovery loop for one market, `Stop`,
`Cancel`, `CloseRun` and `Exit` the shutdown. A failed statement is fatal in startup and in `_close_run`, and ends the
task in `DiscoveryError`. Time is left out: the discovery task may run before `start_ws` wakes up, which only adds
behaviours. Each passing property therefore holds for every length of the sleeps.

### Trades

Markets share only the pool, so one is enough. Frames are stamped in milliseconds (`Millis`), answers more finely, and
`min_ts` is a whole second (`Seconds`). `polling` says whether this process has called `run_polling` (`StartPolling`); a
restart forgets it, and `stop()` is only called at the end of the process. Nothing in the repository makes that call, so
the safety properties hold with and without it, `Collected` is stated for as long as `polling` lasts, and `CollectorSpec`
is the program as `main.py` starts it, without it (section 5). `PollAnswer` returns the newest `Limit` trades of those
asked for. A failed statement ends `poll_once` before its checkpoint. With `PerMs = 2` a trade seen on both paths can be
stored twice (`OverlapHandled` fails, section 5); `StoredAtMostTwice` is what remains true of duplicates.

### MarketOutcomes

A market is `unlisted`, `open` or `settled`; answers carry the state at the time of the request and are stored later, one
statement per step. A request for up to 100 tickers is one answer; a discovery pass is one per event, and an event has
one market here. `CarrySeries` says whether `GET /markets` carries `series_ticker`, which the repository does not settle: without
it, the foreign key fails and the metadata task ends at its first market.

### Catalog

`pass` is one run of `run_once` and of the loop around it in `main.py`, `back` one run of the backfill; they interleave
at every request and statement. The upserts carry their foreign keys as guards, and a violated one is the exception of
the code: it ends a series of the backfill (`StoreOutcome`). `FetchEvents` and `FetchMarkets` join an upsert with the
request after it; the row matters to the other process only through its existence, and both write it before they need
it. A failed request skips the rest of its level (`FetchFails`); a failed statement ends the task (`DiscoveryError`).
`listing` is where the exchange has a market. `due`, `failed` and `crossed` are auxiliary.

### Migrations, Calendar, Partitions, Monitor

`Migrations` is `run_migrations` in any number of processes: `Look`, `Apply` and `Record` are its statements, each a
transaction, `Crash` a kill or a failed statement between them. Files already recorded are passed over in one step with the
next that is not, since rows of `_migrations` are never deleted. `Partitions` says what script 002 does (`ScriptRows`) and adds the
repair script (`VerifyStep`: one table of one week) and the monitor's check of next week (`CheckMissing`). The partitions are
a set of records with table, name and week; `CREATE TABLE IF NOT EXISTS` skips a name that exists and fails on a range
that another name has (`Fresh`, `Overlaps`). `Calendar` computes real ISO weeks from 2024 on and the names the three
places give them; week 0 begins on 1 January 2024. `Monitor` adds the loop of rounds, its alerts, and the markets
whose newest snapshot ages. A snapshot needs a partition.

Steps that are joined: the queries of a round (no alert depends on two of them, and a query that raises drops the
round: `CheckRaises`); the query and the statement of the repair script (the statement repeats the test). The
thresholds are `LagAfter`, `LagError` and `StaleAfter`, and ages beyond the greatest are one.

Assumptions about the environment, because nothing in the code does it:

* The operator runs the repair script once after an alert of the week (`Repair`), as the runbook says.
* A week has room for rounds and for that: it ends after the monitor found the next week ready or its alert was attended
  to (`Attended`), unless the monitor task is gone. A week has some ten thousand rounds.
* No `run_migrations` lasts from one week to the next.

## 3. Runs

Deadlock checking is off in every run: the bounds stop every model (no changes, faults or time left), and in
`MarketFeeds` the process really ends.

| Run | Question | Bounds, and why they are enough |
|---|---|---|
| `ob_faults` | Do memory, checkpoints and table survive bursts and faults? | One market, two levels, 2 changes, 1 outage, 1 failed statement, 1 bad frame: two deltas can be in flight while a handler is between statements, and a fault can hit at each await. Markets share only the receive loop; two are in `ob_poll`. |
| `ob_prompt` | Is the table the change-only log, and does it catch up by itself? | As above with 3 changes: a book can change, change back and change again around the outage. |
| `ob_poll` | The same for the REST fallback, at any pace | Two markets, 3 rounds, 2 changes, 1 failed statement, 1 restart: rounds before, between and after changes. |
| `rl_bounds` | How much does a client send, how long does one wait? | Three callers (as in `main.py`), burst of two GETs, 4 units: the bucket empties, one sleeps while two queue, and the refill after the sleep is counted. |
| `mf_feeds` | Are the right markets streamed, and does a signal end the process? | Three markets (two can be found in one pass after one at startup), 2 failures, 1 failed statement, 2 runs of the process. |
| `td_trades` | Do checkpoints lose trades, does polling, if started, bring in what is lost? | 3 trades, answers of 2, milliseconds of 2 units and seconds of 4, 2 faults: trades in one second and one millisecond, an answer that is full, a fault in each of two handlers. |
| `mo_outcomes` | Do results and statuses reach the tables? | Two markets, 1 fault: both polling tasks and discovery hold answers while markets settle, and one of them, the stream or the process fails. |
| `ct_catalog` | Do discovery and backfill reach every market beside each other? | Two series with an event and a market each, 1 fault: a failure in one series with another still to do, and each market at any point of its life. |
| `up_keep` | Do migrations, partitions, monitor and operator keep the tables ready, and silence reported? | 2 processes, 3 scripts, 1 crash, 2 tables, one week ahead, 3 weeks from the 53rd of 2026, 1 market, 1 failed round or send: a crash between any two statements, the other process anywhere, a partition missing for one table only, a year that ends. |
| `ob_repeated_row`, `mf_reconnect`, `pt_newyear` | Each shows one divergence of section 5 | The smallest bounds that contain it; `pt_newyear` has the code's five weeks and three tables, from 1 December 2025. |

What the passing runs show:

* `ob_faults`: `CaughtUp`, `CheckpointCovered`, `OrderedHistory`, and `CoverInv`, the inductive invariant of the proof.
* `ob_prompt`: `ChangeOnly`, `HandlerStores`, `ImplementsChangeLog`, `EventuallyStored`. A failed statement leaves the
  table behind until the market's next change: `EventuallyStored` excludes it, `HandlerStores` says the next handler
  makes up for it.
* `ob_poll`: `ChangeOnly` and `HandlerStores` without any assumption of pace: polled rows all carry the local clock.
* `rl_bounds`: `RateBound` (burst, one more GET, and *two* tokens per unit of time) and `BoundedWait`.
* `mf_feeds`: `FedAreRegistered`, `SubscribedOnce`, `KnownAreRegistered`, `QuietAfterCancel`, `StartupFed`,
  `ShutdownEnds`.
* `td_trades`: `PollComplete`, `LastSeqCovered`, `StoredAtMostTwice`, `CheckpointMonotone`; and `Collected`, of a process
  in which `run_polling` was started. It says nothing about one in which it was not, as in `main.py`.
* `mo_outcomes`: `UpdatesForward`, `OutcomeRecorded`, `StatusRecorded`.
* `ct_catalog`: `BackfillComplete`, `Discovered`.
* `up_keep`: `NoScriptSkipped`, `ReadyIsTrue`, `RowsFindAPartition`, `SilenceIsReported`, `CollectorStarts`.
  `RowsFindAPartition` depends on the calendar: it holds at this turn of a year and fails at others (section 5).
  `ReadyIsTrue` excepts the weeks for which the check may find an older partition of the same name (`TurnOfYear`); so
  stated, it also holds without faults from 2024 to 2031 (one table, no markets,
  `WeeksAhead = 4`, `FirstWeek = 46`, `LastWeek = 400`: 92,163 states).

### Fairness

Liveness is stated under weak fairness only. asyncio runs ready tasks in order, so a handler, a task after its sleep or
`run_collector` does get to run; backoffs and sleeps are finite; PostgreSQL and the exchange answer or fail. The
exchange's changes, faults, signals and restarts have no fairness except `Begin`/`Run` in `MarketOutcomes` (the
process is restarted by compose). Failures are bounded, which is the usual "failures stop for long enough". In
`MarketOutcomes`, discovery is only assumed to finish a pass, not to find anything.
`Trades!FairSpec` has fairness for the steps of a running polling loop only: not for `StartPolling`, which nothing in the
code takes, and not for the stream, so that `Collected` does not lean on it. `CollectorSpec` has fairness for the
connection and the receive loop. `Catalog` has it
for the discovery task only, while it lives. `Monitor` has it for the monitor's loop, the processes under
`restart: unless-stopped` (not for the backfill), the repair script once started, the operator, and the passing of
time; there is none for the change of weeks, listings, or snapshots, so `SilenceIsReported` holds whatever the feed
does, and is conditional on silence (`<>[]Silent(m)`).

## 4. Theorems

Eight modules of proofs, one or two to a component, are checked by TLAPS for every value of the constants. Every
invariant and every action property that a passing run checks is also a theorem; `PROJECT.json` pairs them. Each proof has the same
shape: an inductive invariant, one lemma per action or group of actions that says the action keeps it, and the
theorem. Each invariant was checked by TLC, on instances of the runs, before it was proved.

### The order book

`OrderbookPipelineProofs` has `TypeCorrect`, `Invariant == Spec => []CoverInv` and `CheckpointsAreCovered`.
`CheckpointCovered` is not inductive: the checkpoint is written from memory one or two awaits after the insert, so the
proof must know that memory has not changed and that the book was stored. `CoverInv` adds `HandlersHold` (before
`Insert` the handler's book is the one in memory; before `Checkpoint` that book is stored) and, because a second
writer of the market would break it, `OneWriter` (a market is written by its poll or by the stream, and polls write no
checkpoints). The statements use `InsertKeepsStored` and `OneWorkerPerMarket`.

`OrderbookHistoryProofs` is about the rows. A delta has a meaning only together with the frames before it, so
`HistoryInv` gives every frame, every book in memory, every handler and every row a position in the exchange's history
of its market, and says how the positions are ordered: frames in the order they were sent (`FramesOrdered`), each delta
right after the frame or the memory it applies to (`DeltasFollow`), the newest book either in flight or in memory
(`NewestSent`), memory not newer than a frame, rows not newer than memory (`MemoryTrue`, `TasksTrue`, `RowsTrue`).
From it: `MemoryCatchesUp` (`CaughtUp`) and `RowsFollowHistory` (`OrderedHistory`). For `ChangeOnly`, `TurnInv` adds that
a market's frame is alone (`FramesAlone`), that what a handler stores is newer than the rows and differs from the
last (`TasksNewer`), and that rows are stamped in the order they were inserted (`RowsStamped`): then the row of the
greatest `kalshi_ts` is the one stored last. From it: `NoRepeatedRow`, `HandlersStore`, and `TableIsAChangeLog`, by which
every step of the pipeline is a step of `ChangeLog` or a stutter under `log <- rows without timestamps`.

These depend on how the exchange behaves, and say so in their hypotheses. A run violates the conclusion, or a
configuration does, where one is dropped:

| Hypothesis | Meaning | Needed by | Without it |
|---|---|---|---|
| `~Incremental` | `delta_fp` is the new quantity, as the code takes it | `MemoryCatchesUp`, `RowsFollowHistory`, `TableIsAChangeLog` | section 5 (`CaughtUp`) |
| `InTurn` | `Prompt`, or the market is polled: one change is handled before the next | `NoRepeatedRow`, `HandlersStore`, `TableIsAChangeLog` | `ob_repeated_row` |
| `MaxBad = 0` | every frame parses | `TableIsAChangeLog` | a delta after a discarded frame stores a book the exchange never had |

### The limiter

* `LimiterTyped`: in particular the bucket stays between 0 and its burst.
* `RateIsBounded`: `RateBound` says nothing of the tokens left. `BudgetInv` counts what could be taken at once as taken
  (`Budget`), charges a sleeper's time twice unless nothing was taken since the mark, and keeps the length of the sleep
  (`SleepsForCost`).
* `WaitIsBounded`: `BoundedWait` is not inductive, because the sleep that begins when the lock is granted is not
  in it yet. `WaitPaidAhead` counts the rest of the sleep as waited already; then time that passes during a sleep costs
  nobody behind it anything, and a grant, which adds at most one `Cost` of sleep, moves everyone one place up. That a new
  place has room for a sleep takes a count: queue (`QueuedOnce`), sleeper and newcomer are different callers (`RoomForOthers`).

### The feeds

`FeedsInv` adds to the properties that `market_id_map` holds every market of every recorded or sent command
(`CommandsRegistered`), that there is one recorded subscription at most (`RecordedOnce`), what a pass has returned but
not registered (`NewAreKnown`), and which tasks exist in which phase (`TasksInRun`, `AsleepUnsubscribed`,
`LeftUnsubscribed`: a stream that outlives the cancelled tasks is one whose `start_ws` never woke up). From it:
`StreamedAreRegistered`, `OneSubscription`, `KnownMarketsAreRegistered`, `QuietOnceGathered`.

### Trades

`TradesInv` adds that trades are in time order (`Ordered`), what a poll under way still owes its checkpoint (`PollOwes`: every
trade before the second of its newest one is stored, left out by a full answer, or still in its hands), that the handler's
trade is stored when it reaches its checkpoint (`StreamOwes`), and that a row is dated by its trade in one of two
ways (`RowsDated`). From it: `PollingIsComplete`, `SeqCheckpointIsCovered`, `NoTradeThrice`, `CheckpointNeverBack`.

### Outcomes and catalog

* `OutcomesInv`: neither answers, nor events, nor tables run ahead of the exchange (`NothingAhead`, a theorem by itself:
  `TablesNeverAhead`), an answer names a market once (`AnsweredOnce`), and what is about to be appended is not older than what
  was (`AppendsForward`). From it: `UpdatesNeverBack`.
* `CatalogInv`: each market that is owed is excused, stored, or still ahead of the backfill: its series to come, or the
  market in the answer, or still where the second request will find it (`DueAhead`); and the row its foreign key needs exists
  (`EventPresent`). From it: `BackfillLeavesNoneOut`.

### Migrations, partitions, monitor

`MonitorProofs` proves three invariants, each on top of the one before.

* `MigrationsInv` adds what a process knows between two of its statements: all scripts before the one it is about to
  apply have been applied (`AtFirstUnrecorded`), and the one it is about to record has been (`AtApplied`). From it:
  `NothingSkipped`, of `MigrationsSpec`, and by `SystemMigrates == Spec => MigrationsSpec` `NothingSkippedInSystem`.
* `UpkeepInv` adds that a partition was made for a week that was prepared, under one of its two names (`PartitionsNamed`).
  From it: `MonitorTyped` and `ReadyMeansCovered`. The check compares names only, so the proof needs what the names say
  of the weeks. The lemmas on `Calendar` prove it from the length of years: every day has its year (`DayHasYear`), ISO year and
  week tell weeks apart (`OneVerifyLabel`), the two ways of naming part only in a first ISO week (`TurnIsFirstWeek`), and
  then the wrong name is 52 weeks off (`OneMonitorLabel`), farther than anything prepared.
* `InTimeInv`, where no week looked at belongs to two years (`NoTurnOfYear`), adds that the repair script fails nowhere and
  leaves no row without its partition behind it (`VerifyPrepares`). From it: `PartitionsInTime`. `pt_newyear` shows
  the hypothesis is needed; the weeks of `up_keep` meet it, and so do most stretches of a year.

### Assumptions

All are named where the constants are declared, and evaluated by TLC in the runs. They say that numbers are numbers and that
model values for "none" and the stream are no markets or callers; the rest is:

* `FallbackOnly`: polling is used instead of the WebSocket, not beside it.
* `CallersAssumption`: the callers are finitely many (three tasks). `NumbersAssumption`: a GET costs something and fits the
  bucket (10 of 400).
* `ParentsAssumption`: an event has a series, a market an event.
* `ScriptsAssumption`: there is a script.
* `WeeksAssumption`: at least one week and less than a year is prepared (4 weeks in the code), within the calendar.
* `RestartedAssumption`, `SnapshotsAssumption`, `AgesAssumption`: the constants of `Monitor` mean what they say.

### What is only model-checked

* Liveness: `EventuallyStored`, `StartupFed`, `ShutdownEnds`, `Collected`, `OutcomeRecorded`, `StatusRecorded`, `Discovered`,
  `SilenceIsReported`, `CollectorStarts`. Fairness and ENABLED are out of the prover's reach.
* The three violations of section 5, which are about instances.

No module declares a RECURSIVE operator, so no fact about one is missing.

## 5. Where code and documentation disagree

Three runs expect a violation, and each states what a document or comment says:

* `ob_repeated_row` - `schema.md`: a row is only written when the book differs from the previous snapshot. In a
  burst it is compared with a row that is not the previous one.
* `mf_reconnect` - `ws_client.py`: re-subscribe to all channels after a reconnection. Markets added by discovery are
  forgotten.
* `pt_newyear` - `002_partitions.sql`, `runbook.md`: future partitions are created by `verify_partitions.py`, run on the
  monitor's warning. In the week of 29 December 2025 the warning fires, the script is run, meets the week that 002
  named `2025_w01` under the name `2026_w01`, and ends with the overlap at its first table. Nothing is created for
  January.

More are stated in the modules, and a change of a configuration shows each:

* `MarketOutcomes!OutcomesNotMissed` (with `MaxFaults = 1`) - `settlements.py`: settlements missed during downtime are
  written. Only tickers found open at startup are asked for.
* `RateLimiter!AdvertisedRate` (one caller) - `http_client.py`: 200 tokens/s, burst 400. A busy client takes up to twice
  the rate, because the time of a sleep is credited again.
* `OrderbookPipeline!CaughtUp` with `Incremental = TRUE` - `KNOWN_LIMITATIONS.md`: deltas are incremental. `apply_delta`
  stores them as quantities.
* `Trades!EveryTradeStored` under `CollectorSpec` (the constants of `td_trades`, `MaxFaults = 1`) - `schema.md`: every
  observed trade. A trade whose frame is lost or whose insert fails is never asked for again, because no task runs the
  polling loop. Without faults it holds.
* `Trades!OverlapHandled` in `td_trades` - `trades.py`: overlap is handled by the unique key. A trade seen on both paths
  is stored twice, since the key holds a timestamp that the paths give with different precision.
* `Monitor` with `FirstWeek = 47`, `LastWeek = 104`, no faults: a system set up in the week of 25 November 2024 and repaired
  on every alert refuses the rows of the week of 29 December 2025, because the check found the partition of 30 December
  2024, to which the repair script had given the same name.
* `Catalog!BackfillComplete` without `crossed`: the backfill misses a market that passes the cutoff between its two requests.

And some need no model: retries of a 429 take no tokens (`RateLimiter!Retry`), although `http_client.py` says every GET
costs 10. Nothing calls `verify_partitions.py`, although `002_partitions.sql` says the collector's startup and the
monitor do, and nothing tells pg_partman about the tables, although `docker-compose.yml` enables it "for automatic partition
creation". The image's ENTRYPOINT turns the documented `docker compose run --rm collector python scripts/...` into a
call of `main.py` that argparse refuses. Three of the monitor's checks read tables that nothing writes
(`log_api_request` and `log_data_quality_event` have no caller). A webhook that does not answer ends the monitor task.
The backfill fetches no trades, and discovery asks for two fixed tags, against their own docstrings.

## 6. What is not modelled

* The pages of `get_paginated`: it keeps no state, and its answer counts as one; what the exchange changes between two
  pages is not seen.
* `delete_markets`, `messages()`, `DiscoveryLoop.run`, `log_api_request`, `log_data_quality_event`: nothing calls them.
* The three checks over tables nothing writes, other than as queries that may raise.
* The second read of the date in `check_missing_partitions` (one round at midnight), and the wrap of `timedelta.seconds` in
  the wording of an alert.
* `--run-maintenance` of the repair script: pg_partman has no table to maintain.
* The contents of a market besides status and result; wording, formatting, logging, JSON.
* Scripts 001 and 003 beyond being idempotent: declarative DDL.
* Authentication: a stateless signature of a string. Configuration, logging and deployment: declarative, pure I/O.

The pool's limit is not modelled: no code path awaits a second connection while it holds one, so it only delays.

## 7. Plan

Done, in this order: OrderbookPipeline with ChangeLog and its first theorems; RateLimiter with its theorems; MarketFeeds;
Trades; MarketOutcomes; Migrations, Calendar, Partitions and Monitor with the theorem about the migrations; Catalog; then
the proofs of all safety properties and of the refinement. What could follow:

1. Safety cores of the liveness properties as theorems: for `OutcomeRecorded`, that a settled market of the startup list
   whose settlement is not final is always asked for again by a living settlement task; for `Discovered`, that what a pass
   skips after a failed request is not known.
2. `PartitionsInTime` across a turn of the year, with what exactly is missing then: the tables of the turning week's range
   under the other name.
3. `TableIsAChangeLog` with discarded frames, for the markets that missed none since their snapshot.
