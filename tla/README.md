# pklpo: TLA+ models

pklpo collects OHLCV candles of OKX perpetual swaps into the partitioned table
`swap_ohlcv_p`, computes indicators from them, selects a universe of symbols and
derives signals. Almost every decision downstream assumes that the candle table is
complete, and the candle table is written by four programs that know nothing of
each other: the five-minute sync, the historical backfill ("bootstrap"), the repair
and the retention sweep. A recovery controller starts two of them by itself. What
they change late has to be recalculated, through a queue; what is calculated has to
be trusted by readers who look at the newest row only. This directory models that
chain: what each of the programs reads, when it writes, what it takes for granted
in between, and what survives when it is killed half way.

Paths are relative to the repository; the Python package is under `src/`.

## 1. The system

### 1.1 Candle pipeline

| Component | State | Operations | Hard because | Correct when |
|---|---|---|---|---|
| Bootstrap: `src/candles/application/bootstrap`, `interfaces/bootstrap.py`, DAG `okx_swap_ohlcv_bootstrap_v1` | one row per pair in `ops.swap_ohlcv_bootstrap_state` (status, window, checkpoint); candles | init, load, reconcile, fetch chunk, write, save checkpoint, verify, finish, circuit break | chunk and checkpoint are two transactions; the counts that justify "completed" are two reads; the window moves with the clock; the controller and the sweep write the same rows | a completed row hides no bar that was never stored; the stored checkpoint is never ahead of the data; every run ends |
| Retention: DAG `swap_ohlcv_retention`, CLI `cleanup` | candles | check the state rows, delete | check and delete are two transactions | it does not undo a backfill that is under way |
| Sync: `src/candles/application/sync`, `repository.py`, DAG `okx_swap_ohlcv_sync_v2` | candles; MAX(timestamp) as the only watermark | read watermark, fetch page, filter, upsert, next page | pages go from new to old, so a run that dies leaves the watermark above bars never fetched; two runs may overlap; the clock moves while a page is held | no holes; only closed bars; it catches up |
| Recovery controller: `application/recovery_controller.py`, `interfaces/recovery_controller.py`, DAG `pipeline_recovery_controller` | `ops.pipeline_recovery_decisions`; Airflow's DagRun table | inspect, reconcile, decide, trigger, mark | inspection, trigger and mark are in different tasks, databases and minutes; tasks are retried | one recovery at a time; cooldown; every pair in need is served |
| Repair: `domain/repair.py`, `application/repair`, DAG `okx_swap_repair_v1` | candles; counters of one run | plan from a table read, detect, count, fetch, upsert, count again, next round | five reads of a table that others write; bounded rounds; partial answers; an escalation that stops the run | "complete" means closed; the newest gap first; an alarm has a cause; every run ends; gaps close |
| Recalculation queue: DAG `indicators_recalc`, its producers in repair, bootstrap and identity | `ops.indicator_recalc_queue`: one row per key with a status and a claim time | request, claim, calculate, save, mark; claims expire | producers ask after, not with, the change; a claimed row refuses a request; a run dies between saving and marking | completed means calculated after the last request taken; stale features are explained by the row or by a request that is not one; a request is served |
| Write lock: `infrastructure/ohlcv_write_lock.py` | PostgreSQL advisory locks | shared global and exclusive per-pair locks; the sweep's exclusive one | lock order, a tool that takes none | no delete during a write |
| Eligibility: `domain/eligibility.py`, `application/eligibility` | flags per pair | refresh | read by the feature run later | a pair is calculated only with enough history |
| Sync state, raw ingest, aggregation, reprocess | a watermark row, raw chunks | ingest, fold | an older path, started from the CLI only | - |
| History pager, instrument catalogue, quality, observability | none, metadata | pages with retries; reports | partial and empty pages | - |

The components meet in three places: the candle table, the bootstrap state rows
and Airflow. The pool `ohlcv_write_pool` has one slot and serialises the sync,
the bootstrap run, the repair and the sweep; the bootstrap's *init* task, the
controller's reconcile and everything run by hand are outside it. The last-N
guard and the bootstrap ask the queue for a recalculation of what they have changed;
the classic repair strategy asks for nothing.

### 1.2 Everything else

| Component | State and behaviour | Properties worth having |
|---|---|---|
| Indicators (`src/features`): short run, recalculation of a range, persistence | indicator rows behind the candle watermark; trimmed heads; a coverage gate and a freshness gate | the row that consumers read rests on a window without holes; a recalculation heals what it covers; a good row is not lost |
| Market selection (`src/market_selection`) | versions of the universe with a status, scores, a whitelist; a history requirement; retention | a published version is whole; none is empty; who may enter |
| Risk (`src/risk`): circuit breaker, kill switch, daily and weekly limits, sizing | counters and flags that only a CLI command reads | none today: nothing consults them |
| Identity (`src/identity`) | segments of renamed instruments, built in one transaction | its requests reach the queue |
| Database migrations, indicator partitions (`src/db`) | the database catalogue | - |
| MTF, signals, positions, scoring, ML, backtest, recommendations, dashboards | straight passes over stored data, real-valued | numeric |
| Platform lock and cache (Redis), utilities, logging, metrics, alerts, settings, CLI | a lock around two CLI commands; the rest stateless | - |

`PROJECT.json` lists each of them with its sources, and under `hazards` what is
hard to test in the code, at its line.

## 2. The modules

| Module | What it is |
|---|---|
| `Bootstrap` | backfill of one pair, with the controller's reconcile step, the sweep and the other writers |
| `CandleSync` | runs of the incremental sync of one pair |
| `RecoveryController` | the controller's run, its triggers and marks, and the runs it starts |
| `GapRepair` | a repair run of one pair beside the other writers of its candles |
| `RecalcQueue` | the recalculation queue with its producers and its one consumer |
| `FeatureRows` | indicator rows of one pair: the short run and the recalculation of a range |
| `MarketSelection` | the versions of the universe, written by the DAG's pipeline and by hand |
| `CandleSeries` | abstract: what a reader of a synced series relies on; implemented by `CandleSync` |
| `CandleTable` | abstract: what the writers of the candle table promise each other; implemented by `CandleSync`, `GapRepair`, `Bootstrap` |
| `Lease` | abstract: a slot that one of several holds at a time; implemented by the controller's recovery runs |
| `RequestLedger` | abstract: what the queue promises to those who ask; implemented by `RecalcQueue` |
| `*Proofs` | the theorems about each of the components, refinements included |
| `MC*` | the modules the `.cfg` files instantiate (symmetry sets) |

A definition called in a comment a *mutated form* belongs to no specification: it
is a plausible bug against which a property is shown to have teeth (`mutants` in
`PROJECT.json`).

The modules meet where the programs do, and each stands for the others by what they
do to its own state: `OtherWrite` and `SweepDelete` in `Bootstrap`, `OtherWrite` and
`Retention` in `GapRepair`, `Fill` and `GuardRepair` in `FeatureRows` are the writers
of the candle table; `Change` and `Ask` in `RecalcQueue` are the ends of a repair, of
a guard, of a backfill and of an identity build; the targets of `RecoveryController`
are backfills and repairs. Each of these actions is freer than the component it stands for, so
that what is shown beside it is shown beside the component.

For the candle table this is not left to inspection. `CandleTable` is the contract
between its writers: the clock moves, candles of closed bars appear, and what
disappears is older than the retention. Each of the three writers implements it
(`TableSpec` in the three modules; the theorems `SyncKeepsTable`, `RepairKeepsTable`,
`BootstrapKeepsTable`). In the other direction, the steps which the contract allows
are steps the models already grant to others: every one of them in
`GapRepair`, as long as the exchange's absent bars stay absent (`RivalsAreFree`), and
the clock and every write in `Bootstrap`, whenever the pool's slot is free
(`WritersAreFree`; its sweeps are modelled in their two transactions). `CandleSync`
has no foreign writer, so its `NoHoles` is a statement about the sync alone: a partial
backfill raises its watermark over bars that neither has stored, and
`LeftForGood` says what then becomes of them.

### 2.1 Bootstrap

Time is counted in bars: bar `b` opens at `b` and is closed when `now > b`.
`table` says for each bar whether the pair has no row, a valid or an invalid row
(`count_valid_candles` tells them apart); `stray` are misaligned rows, which count
as raw rows only. `row` is the state row. `pc` walks through one DAG run:

- `StartDag`, `InitValid`, `InitRaw`, `InitSkip`, `InitPending`: the task
  `init_bootstrap_state` with its two counting reads and its upsert; `DryStop` is
  the `dry_run` skip of `coverage_report`, which comes after it.
- `RunStart` / `DirectStart` (by the DAG, or `run_bootstrap` by hand), `RecValid`,
  `RecRaw`, `RecPut`: `RunBootstrapUseCase.run` up to the loop. A completed row is
  recounted; an unfinished one is resumed when its window is unchanged.
- `Begin`, `FetchOk`, `FetchFail`, `WritePage`, `Save`: the loop. `fetch_range`
  may return any subset of the chunk: holes of the exchange and pages that stay
  short after the client's retries are the same to it. Chunk and checkpoint are
  two transactions, so `Crash` may come between them.
- `VerifyValid`, `VerifyRaw`, `Finish`: the final count and the last upsert.
- `RecoStart` ... `RecoPut`: `reconcile_bootstrap_state` as the controller calls it.
- `SweepCheck`, `SweepDelete`: the retention DAG; `CliCleanup` the command, which
  checks nothing; `OtherWrite` the sync and the repair as this component sees them.

`asked` and `lost` are history variables: chunks whose answer is durably applied,
and bars deleted after they had been stored. The column `bootstrap_completed` is
not modelled beside `status`: every upsert writes the column from its argument,
whose default is false, and only the writes of status "completed" pass true, so
the two agree in every row. (`docs/ARCHITECTURE.md:517`, which calls the flag
COALESCE-protected, describes an earlier state of the SQL.) The DAG has
`retries=0` and `max_active_runs=1`, hence one run of it.

### 2.2 CandleSync and CandleSeries

One action per stage of `RunCandleSyncUseCase._sync_symbol` and `_sync_bar`:
`ReadLatest` (MAX(timestamp), once), `Fetch` / `FetchNothing` / `FetchRetry`,
`Filter` (drops what is stored and the bar that is open *now*), `Store` (upsert and
the loop's two exits), and `Fail`, which ends the pair at any stage. A page is an
interval: the model's exchange has a candle for every bar. `NewestPage` is the
request without a cursor, whose answer may or may not hold the open bar already;
`CursorPage` the request with `since`, to which the exchange may grant fewer
candles than asked. `early` is a history variable.

`CandleSeries` says what readers see: from the oldest bar of the first load on,
one run of bars without holes that only grows at its new end. `SeriesSpec`
instantiates it with `series <- {b \in stored : b >= base}`.

The code's guarantee is conditional, and the condition is a constant: `MaxLag`, by
how many bars the clock may run ahead of the sync. After a longer silence than a
page is wide (300 bars; five hours for one-minute bars) the newest page does not
reach the stored bars, its open bar makes it one row short, the loop stops, and the
watermark has passed the bars in between: with `MaxLag = Limit + 1` TLC shows the
hole, so the bound is exact. The guard `Timely` of `Tick` is this assumption on the
environment; everything else in the model is the code's. `TableSpec` and
`LeftForGood` do not rest on it: however late the sync is, it adds closed bars only,
and a bar that its watermark has passed, and that no run under way may still ask for,
is never stored by it again.

### 2.3 RecoveryController

`Observe` reads the active DagRuns; `CollectBootstrap` reads the coverage report and
*then* reconciles, so that a pair it downgrades is a candidate of a later run only
(the reason `bootstrap_state_reconciled_incomplete` of `ops/airflow/dags/README.md:70`
is therefore not given for it); `CollectRepair` is the precheck; `ChooseBootstrap`, `ChooseRepair`
and `SkipRecovery` are `choose_recovery_actions` with the choice of the first
triggered decision; `Launch` and `LaunchFails` are `TriggerDagRunOperator.execute`,
`MarkTriggered` and `MarkFailed` the update of the decision row, `RetryTask` and
`TaskDies` Airflow's retry of a task that raised or was killed. `ObserveFails` covers both a
failed DagRun query and an OKX that does not answer: in either case nothing is
triggered and the reconcile takes place. A PostgreSQL that does not answer ends the
run without an effect.

`history` holds two history variables: `since`, how long ago each pair's last
run of each kind was started, and `unmarked`, those of them whose decision row does not
say so. A task that dies between trigger and mark leaves its pair in `unmarked`; the
retry of a task finds the run id taken and then writes "trigger_failed" to the row of a
run that exists, also where the first attempt had marked it.

Abstractions: a decision row is an age, since the only query on the table asks for
"triggered" rows younger than the cooldown; the seven statuses that need action are
one, `todo`; the order among bootstrap candidates is left open. The per-run limits
(3 symbols, 2 timeframes, 6 pairs) are left out: only the first decision of the list
is executed, and no limit can hold back the first. The target DAGs are reduced to
what the controller can tell: queued, running, gone, and what became of the pair.

### 2.4 GapRepair

One DAG task on one pair in the auto-apply mode (`_run_auto_apply_for_timeframe` and,
below it, `RunGapRepairUseCase.run`). A run reads the clock once (`asOf`); each round is

- `PlanChunk`: one read of the table; the newest gap of the trailing window is cut
  from its new end, `NextChunk` is its first piece. `NothingMissing` and `Exhausted`
  are the other exits of the planner and of the round counter.
- `Detect`, `Guardrail`: the use case reads the chunk again and counts its tasks.
- `CountBefore`, `Fetch`, `Write`, `CountAfter`: per task, with an answer that is any
  subset of what was asked; a bar the exchange does not have (`absent`) never comes.
- `Escalate`, `BreakOff`, `NextRound`: the summary of the round. On a critical
  timeframe `Threshold` rounds without progress raise; a chunk that stays open breaks
  the run off; otherwise the next round plans from the table anew.

`Fail` is an error at any stage, `Start` the next run or the retry of the task.
`OtherWrite` and `Retention` are the rest of the system. `rivals`, `disturbed` and
`got` are history variables: rounds in which someone else changed the pair between
the round's reads, whether the current round is one, and whether it stored something.

Left out: the fixed-window mode and the backfill strategy, which are one round of the
same use case without the planner; the guardrails on requested bars and on days, for
which `MaxTasks` stands; the padding, which widens the request only.

### 2.5 RecalcQueue

The producers are the last-N repair guard, the bootstrap and the identity build.
`Change` is their change to candles, `Ask` the upsert of the request, `GiveUp` their
death before it or a failure to ask that is only logged. The upsert takes a new,
completed or failed row and leaves a claimed or blocked one alone; the build's takes
a new row only (`Takes`, `Build`).
`Claim` takes up to `limit_rows` rows in the order of `enqueued_at` (`ahead`), expired
claims included; `Read`, `Save`, `Mark` process one row; `Raise` is an exception that
marks it failed, `Crash` a kill; `Expire` lets a claim age; `Grow` lets candles pass the
coverage gate.
`behind`, `owed`, `lost` and `since` are history variables that say what the
features of a key rest on.

### 2.6 FeatureRows

A bar closes with or without a candle (`Outages`); `Fill` stores one late, by any of
the repairing programs; `GuardRepair` is the last-N guard, which fills its bars and
asks for a recalculation. A row is `good` when it and the `Trim` candles below it
were in the frame it was computed from, `bad` otherwise, `none` when there is none.

- `ShortBegin` (freshness gate, watermark, eligibility), `ShortLoad` /
  `ShortBlocked` (window and coverage gate), `ShortSave`, `ShortFail` (any failure of
  the symbol rolls its session back).
- `RecalcLoad` / `RecalcBlocked`, `RecalcSave`, `RecalcFail`: the requested range with
  its warm-up, of which only the requested rows are written. Both calculations trim
  the head of what they have loaded; nothing keeps the two from overlapping.

`Required` is the policy's own number of bars, which for a weekly pair is less than the
warm-up: such a pair is eligible and the coverage gate refuses it. A refresh that finds
no bar missing among them finds their number and their share in order too. Misaligned
rows, which make a pair ineligible, do not occur in this model.

Left out: the pool of workers over the symbols, columns, batches and versions of a
row, the pruning of month partitions in the query, indicator values.

### 2.7 MarketSelection

A version is named by the newest bars its run evaluated (`ts_eval`), has a status, a
size and a creation time (`versions`), and its symbols (`entries`). `Begin` resolves
`ts_eval`; `Select` is `select_universe` with any scores and flags: primary
candidates need `MinHistory` scores of published versions of the last `Window` days,
or a place on the whitelist, and free slots go to the previous universe, of which
the query returns one symbol (`LIMIT 1`). `Publish` is `publish_success`; `Resort`
looks up the fallback's source outside the lock and `Copy` is `handle_fallback`;
`Cleanup` deletes by age; `End` is every other way out. `Deploy` changes the
whitelist. `listed` is a history variable: what was ever on it. The two reads of
`Select` are taken as one step; scores per timeframe and regime rows are upserts that
no decision about a version reads back. `Punctual` is the one assumption: no run
takes, between selection and write, and no bar is late by, as long as versions are
kept (90 days; the task is killed after two hours).

## 3. Runs

| Run | Bounds | Shows |
|---|---|---|
| `bootstrap_dag` | 4 bars, window 3, chunk 2, breaker 2, junk row at bar 2; 2.3 M states | `TypeOK`, `CheckpointEarned`, `FinishIsFresh`, `FinishIsClean`, `TableSpec` (refinement) for the processes as Airflow schedules them |
| `bootstrap_tools` | 3 bars; by-hand runs and cleanups, no pool | `CompletedNeverSkips` where most can interfere with it; `RunTerminates` |
| `sync` | 2 runs of which one is scheduled, page 3, 5 bars | `TypeOK`, `SeriesSpec` and `TableSpec` (refinements) under overlap; `LeftForGood`; `CatchesUp` |
| `reco_lossy` | 2 pairs, kills everywhere, one run by hand at a time; 1.9 M | `TypeOK`, `RecoverySpec` (refinement), `EarlyIsUnmarked` |
| `reco_live` | 2 pairs, cooldown 1, one loss of bars; 41 k | `CooldownKept`, `Recovers` |
| `gap_repair` | window 3, chunk 3, 2 rounds, threshold 2, 4 bars; 39 k | `TypeOK`, `AlarmNeedsRivals`, `VerifiedIsClosed`, `NewestFirst`, `AbsentBlocksOlder`, `TableSpec` (refinement), `RunDescends`, `GapsClose` |
| `recalc` | 2 keys, one of a build, batches of 1 and 2; 59 k | `CompletedIsFresh`, `StaleIsExplained`, `AbandonedForGood`, `LedgerSpec` (refinement), `RequestServed` |
| `features` | warm-up 3, of which eligibility asks 2, trim 1, guard 2, 8 bars, outages at 1, 4, 5; 6 k | `TypeOK`, `NewestRowGood`, `RecentRowsHeal`, `GoodRowsStay`, `RowsArrive` |
| `market` | 3 symbols, 2 places, floor 2, history 2, 2 days, 2 runs; 360 k | `TypeOK`, `PublishedIsWhole`, `NoEmptyUniverse`, `OnlyTheListed`, `StarvedForGood` |
| `sync_v_open` | violation | the open bar is stored when it closes between the fetch and the filter |
| `reco_v_running` | violation | a killed backfill leaves a "running" row, on which the controller does not act |
| `features_v_trim` | violation | a request is marked completed although the rows at the head of its range were trimmed, not written |

Two cases are out of these runs and rest on a theorem alone: a dry run by hand, which
moves the stored checkpoint (`Bootstrap_all.cfg` has `DryConf = {FALSE}`; with both
values the run finishes without an error but takes twice as long; `CompletedSound`), and
an outage longer than a page (`MaxLag = Limit` in `sync`, as `SeriesSpec` requires;
`SyncLeavesForGood` holds for every lag).

A property that another one of the same module implies has no run of its own:
`NoHoles` follows from `SeriesSpec`, `OneRecoveryRun` from `RecoverySpec`. Both have
a theorem.

Why the bounds are enough. A window of three bars with chunks of two has a full
chunk and a clipped one, so both loop exits and a crash at either chunk occur; the
breaker of two has a failure that does not open it; the clock moves past the window
while a run holds it, and past the retention horizon. For the sync, pages of three
over five bars give a first load, a full page with and without the open bar, a cursor
page that joins the stored bars, and a second run that moves the watermark at every
stage. For the controller, two pairs and two kinds are what conflicts and cooldowns
relate; one retry is the DAG's setting. Cooldown 0 in `reco_lossy` means that a pair
is free again after one tick, which is the hard case for a property about overlap.

A repair window of three bars has two gaps with a stored bar between them, gaps at
either end, and one gap that is the whole window; two rounds are one that plans again
and the threshold of the alarm; the clock leaves the window of a running run. For the
queue, two keys are what order, batch and claim relate, one of each kind of producer;
a third adds no conflict, since rows meet only in the order of claims. For the rows,
a warm-up of three with a trim of one leaves two rows that heal by themselves and an
outage of two bars, which the guard's two bars do and do not reach; eight bars are two
windows and the outage between them. For the market, a floor equal to the number of
places makes one lost symbol decisive, a history of two over two days makes one
missed publication decisive, and both the window and the retention pass within the
clock's range.

Symmetry is used in `market` (symbols), in the safety run of the controller (pairs)
and nowhere beside a temporal property that it could hide. `CHECK_DEADLOCK` is on in
every run.

### Fairness

- Bootstrap: weak fairness of the run's own steps and of a sweep that has passed its
  check. A task that Airflow started is executed to its end or dies; `Crash` is one
  of its ends. Nothing is assumed of triggers, of the exchange (`FetchFail` may come
  for ever) or of the other writers.
- Sync: every request ends (timeouts of the client); the schedule starts a run every
  five minutes, and no stage fails for ever, hence strong fairness of the stages of
  the scheduled run; nothing is assumed of the other. A candle that
  `validate_chunk_for_write` rejects at every run is outside this assumption, and
  then the bars of its page are indeed not stored.
- Controller: the schedule is `*/30`; steps end. Trigger and backfill succeed time
  and again (strong fairness), and from some moment on the inspections succeed
  (`<>[][InspectsAll]_vars`): with failures that recur at the wrong moments for ever
  nobody is owed a recovery. Operators start nothing and workers are not killed in
  this run: a killed backfill is the subject of `reco_v_running`.
- Repair: that a run ends needs weak fairness of the run's steps only (`RunDescends`
  gives the rest). `GapsClose` needs
  runs that are started again and again, stages that do not fail for ever, and an
  exchange that delivers time and again (`SF` of `FetchSome`, `WriteSome`).
- Queue: the DAG is scheduled (`WF` of `Claim`), claims age (`WF` of `Expire`), and no
  row is one whose calculation kills every run that takes it (`SF` of `Read`, `Save`,
  `Mark`).
- Rows: bars close, the eligibility refresh runs, the repairing programs get to every
  hole (`WF`); the short run is scheduled and not every one of them fails (`SF`).
- Market selection: no liveness is claimed, since the code has none to offer
  (`StarvedForGood`).

### Disagreements between the code and its documents

The three violation runs, with quotations, are in `PROJECT.json` under `findings`.
Met while modelling, and not given a run of their own:

- `DRY_MODE = False` (`pipeline_recovery_controller.py:48`), while the DAG's
  docstring (:8), `ops/airflow/dags/README.md:28` and `dag_dependency_schema.md:131`
  say that the controller is in its dry phase.
- `dag_dependency_schema.md:164` promises a skip after *any* inspection failure; a
  failed bootstrap inspection leaves an empty list and a repair may follow
  (`CollectBootstrapFails`, then `ChooseRepair`).
- `dag_dependency_schema.md:159` excludes a repair beside a bootstrap; a target run
  that an operator starts after `Observe` is not seen. `RecoverySpec` is stated of
  the controller's own runs, for which the exclusion holds.
- A trigger task that dies between the trigger and the mark leaves a decision that the
  cooldown query does not see, and so does one that dies after the mark, when its retry
  is refused the run id. `EarlyIsUnmarked` says that there is no third way round the
  cooldown; `CooldownKept` is therefore stated of runs in which no task is killed.
- A dry run of the bootstrap DAG, documented at line 559 as "no writes", runs its init
  task first, which upserts state rows (`DryStop` comes after `InitPending`).
- The same init task resets the checkpoint that a resumed run would need, so that an
  interrupted backfill starts again from the newest bar.
- A backfill initialised between the sweep's check and its delete loses candles.
- `ops/airflow/dags/README.md:563` describes the escalation of the repair as the answer
  to an exchange without data; in the auto-apply mode a chunk that stays open breaks
  the run off first, so that only rivals lead to it (`AlarmNeedsRivals`). For the same
  reason line 558, by which a partial run goes on, does not hold there. Line 557,
  "success: the window is closed", holds without rivals only (`VerifiedIsClosed`).
- The newest gap that cannot be filled is planned first by every run: older gaps behind
  it wait until it leaves the range (`AbsentBlocksOlder`). `GapsClose` says "where the
  exchange has every candle" because of this.
- A request for a row that is claimed or blocked is not taken though the caller is told
  "queued"; blocked rows are never taken up again by the DAG
  (`dag_dependency_schema.md:285`); a second identity build finds its key present and
  asks for nothing; the features behind such rows stay stale (`AbandonedForGood`); a
  guard with outcome "partial" and the classic repair strategy
  (`okx_swap_repair_v1.py:799`) change bars and ask for nothing.
- The freshness gate of the features compares one MAX over all symbols, and counts a
  lag of one bar as fresh; a weekly pair is eligible from 280 bars while the coverage
  gate wants 500; a failing timeframe rolls back those of its symbol that succeeded.
- With the default, empty whitelist a fresh deployment never publishes a universe, and
  no newcomer ever enters one (`OnlyTheListed`). A pause in publishing longer than the
  history window is for good (`StarvedForGood`), and when the last version reaches its
  retention the fallback has no source either: the run then fails, against
  `src/market_selection/README.md:15` and its "Non-empty universe" (:230).
- A second run with the same `ts_eval` leaves the first one's symbols beside its own,
  against "Idempotent writes" (`src/market_selection/README.md:229`), and a fallback
  over a published version demotes it. `fetch_previous_universe` ends in `LIMIT 1`, while
  its docstring (`database.py:588`) speaks of the symbols of the universe.
- `run_migrations` of the selection DAG joins a branch under the default trigger rule
  and would be skipped with it; the model takes the tasks as they are meant.

`CheckpointEarned` is checked without by-hand runs because it does not hold with
them: a dry run by hand moves the stored checkpoint over chunks it does not write,
and a stuck row is resumed at a checkpoint of an older window.

## 4. Theorems

All are checked by TLAPS, for every value of the constants that the named assumption
of each module (`ConstantsOK`, `SyncConstants`, `ControllerConstants`, ...) allows.

| Theorem | Statement | Assumes further |
|---|---|---|
| `TypeCorrect` | `Spec => []TypeOK` of Bootstrap | - |
| `CompletedSound` | `Spec => []CompletedNeverSkips` | - |
| `CheckpointSound` | `Spec => []CheckpointEarned` | no by-hand runs |
| `FinishFresh` | `Spec => FinishIsFresh` | the pool, no by-hand runs |
| `FinishClean` | `Spec => FinishIsClean` | the pool, no by-hand runs |
| `BootstrapKeepsTable` | `Spec => TableSpec`, the refinement of CandleTable | - |
| `WritersAreFree` | a step of CandleTable (clock or write) while the slot is free is a step of Bootstrap | - |
| `BootstrapDescends` | `Spec => RunDescends` | - |
| `SyncTypes` | `Spec => []TypeOK` of CandleSync | - |
| `SyncKeepsTable` | `Spec => TableSpec`, the refinement of CandleTable | - |
| `SyncLeavesForGood` | `Spec => LeftForGood` | - |
| `SyncNoHoles` | `Spec => []NoHoles` | `MaxLag <= Limit` |
| `SyncIsSeries` | `Spec => SeriesSpec`, the refinement of CandleSeries | `MaxLag <= Limit` |
| `RecoveryTypes` | `Spec => []TypeOK` of RecoveryController | - |
| `SoleRecovery` | `Spec => []OneRecoveryRun` | - |
| `RecoveryIsLease` | `Spec => RecoverySpec`, the refinement of Lease | - |
| `CooldownOnRecord` | `Spec => EarlyIsUnmarked` | - |
| `CooldownSound` | `Spec => CooldownKept` | no task is killed |
| `RepairTypes` | `Spec => []TypeOK` of GapRepair | - |
| `AlarmSound` | `Spec => []AlarmNeedsRivals` | - |
| `VerifiedSound` | `Spec => VerifiedIsClosed` | - |
| `NewestFirstSound` | `Spec => NewestFirst` | - |
| `AbsentBlocks` | `Spec => AbsentBlocksOlder` | - |
| `RepairKeepsTable` | `Spec => TableSpec`, the refinement of CandleTable | - |
| `RivalsAreFree` | a step of CandleTable is a step of GapRepair's rivals | - |
| `RepairDescends` | `Spec => RunDescends` | - |
| `QueueTypes` | `Spec => []TypeOK` of RecalcQueue | - |
| `CompletedRowsFresh` | `Spec => []CompletedIsFresh` | - |
| `StaleRowsExplained` | `Spec => []StaleIsExplained` | - |
| `AbandonedStays` | `Spec => AbandonedForGood` | - |
| `QueueIsLedger` | `Spec => LedgerSpec`, the refinement of RequestLedger | - |
| `RowTypes` | `Spec => []TypeOK` of FeatureRows | - |
| `NewestRowIsGood` | `Spec => []NewestRowGood` | - |
| `GoodRowsKept` | `Spec => GoodRowsStay` | - |
| `RecentRowsHealed` | `Spec => RecentRowsHeal` | - |
| `SelectionTypes` | `Spec => []TypeOK` of MarketSelection | - |
| `PublishedWhole` | `Spec => []PublishedIsWhole` | - |
| `UniverseNotEmpty` | `Spec => []NoEmptyUniverse` | - |
| `NoNewcomers` | `Spec => []OnlyTheListed` | - |
| `StarvationLasts` | `Spec => StarvedForGood` | - |

**Bootstrap.** `CompletedNeverSkips` is not inductive: the status is written one or
two steps after the counts that justify it. The strengthening carries what the first
read saw until it is used: every bar in `seen`, or in the window once the verdict is
positive, is stored or was deleted after it had been stored. Deletion is the only
step that takes a bar from the table, and it records the bar in `lost`; hence neither
the sweep nor a second writer disturbs the claim. For the checkpoint the invariant
says the same of the in-memory checkpoint: the bars above it are in `asked`, and the
chunk under way is in `asked` from the write on, before the checkpoint is saved; a
resumed run finds its window unchanged and so the same claim about the row. For
`FinishIsFresh` it says that while a run is past its verifying reads no sweep has
been cleared, which is what the pool's one slot gives. For `FinishIsClean` it counts:
the verifying reads found as many raw rows as valid ones and as the window has bars,
so there is no room for a misaligned one, and nobody adds one meanwhile. For the
candle table the run must be known to hold closed bars only: the ends of its windows
and every checkpoint come from an earlier clock, and a page lies below them (`Clocked`).

**Sync.** The inductive invariant relates the page a run holds to the table: a page
got without a cursor reaches down to a stored bar and up to the bar before the one
that was open; a page got with a cursor lies below a stored bar, and above nothing
it needs: its rows are already there or adjacent. The newest stored bar is within
`MaxLag` of the clock, at all times and also one tick after `Timely` held. Every
`Store` then adds an interval that overlaps or touches the stored run at its new
end, which gives `NoHoles`, and with it the step of `CandleSeries`. `TableSpec` and
`LeftForGood` need none of this and hold for every lag: their invariant (`PlainInv`)
says only that what a run is about to store is closed and above the watermark it
read.

**Controller.** For `OneRecoveryRun`: from a look at the active runs that found none
until the launch the controller has no run under way, because nothing but `Launch`
adds to its runs; after the launch the decision's run id exists and no retry can
start another. The same facts make the runs a `Lease`: `Launch` finds nobody holding it,
and a target run leaves only by ending. For the cooldown: of every pair and kind, either
its last run is in `unmarked` or the decision table's age is the age of that run
(`LedgerInv`), which is `EarlyIsUnmarked`. Without kills `unmarked` holds the
one decision that has been launched and not marked (`MarkInv`), and the controller
chooses nothing in between; hence `CooldownKept`.

**Repair.** The run's reads are worth something only while nobody comes between them,
so the invariant says what they are worth in an undisturbed round (`Undisturbed`): the
planner's chunk is wholly missing when the use case looks at it, the count before is
the chunk's size, and a candle that came has made the count after smaller. Hence a
round without progress was disturbed, and the two counters differ the right way
(`Rounds`). For the other two, nothing above the chunk is missing while no rival has
been seen (`NewestChunk`). A bar that the exchange does not have is never stored, and a chunk is
one stretch of bars, in an undisturbed round all of them missing (`Grounded`): a repaired
bar below an absent one of the window can only be in the same chunk with it.

**Queue.** `CompletedIsFresh` is not inductive at the mark: the invariant carries the
claim from the save on (`Earned`), and rests on nobody taking a request for the row in
hand (`RunShape`), which is what the upsert's condition on the status gives. A change
that comes after the read is remembered until its producer asks or gives up
(`ChangeSeen`). The two other results rest on the batch holding claimed rows only.

**Rows.** A frame that passed the coverage gate ends in a window without holes
(`Loaded`), and the save never drops the last row of its frame; that gives
`NewestRowGood` for each of the two calculations, the other one's row being below or
computed in the same way. The candles under a good row stay (`GoodRests`), so a row
turns bad only if they were missing in the frame.

**Market.** Between selection and transaction a run holds a selection that is large
enough and was listed, and a version to copy that may be deleted under it, in which
case the foreign key refuses (`InHand`); a version is never deleted while a run of the
same `ts_eval` is between its two halves, which is what `OnTime` and `Punctual` give.
`NoEmptyUniverse` and `OnlyTheListed` follow since a history is one of entries of
published versions. For `StarvedForGood` the history of a symbol can only shrink while
none is published, and a selection adds at most one symbol, that of `LIMIT 1`.

**That runs end.** `RunDescends` is the part of termination that the proof system can
take: every step of a run ends it or lowers a measure without infinite descent,
whatever the exchange answers and whatever other processes do between its steps. For
the backfill the measure is the stage, the bars below the checkpoint, the part of the
chunk and the failures the breaker still allows; for the repair, the rounds left,
the stage, and the bars still to be processed. What it leaves to TLC is that a run
always has a next step and that the scheduler takes it.

Not proved: liveness and anything that needs ENABLED (`RunTerminates`, `CatchesUp`,
`Recovers`, `GapsClose`, `RequestServed`, `RowsArrive`), which TLC checks on
the instances above; what recursive functions compute for every input, of which these
modules have none; and a composition of the writers as one formula, for which the table
refinements and `RivalsAreFree` / `WritersAreFree` are the two halves. Every
invariant and every safety property of the passing runs is proved.

## 5. Not modelled, and why

- The sync DAG's freshness gate, which compares one MAX over all symbols with the
  clock, and the task group over symbols with its abort flag: they decide whether a
  pair's run takes place at all, which `CandleSync` leaves open.
- Retention in the sync model, and the open end of the exchange: bars without trades.
  `Bootstrap` and `GapRepair` have both.
- More than one pair in `Bootstrap`, `GapRepair` and `FeatureRows`: pairs share nothing
  but the pool and a symbol's session, which the models reduce to their effects.
- Two bootstrap runs of one pair at once: `max_active_runs=1`; a by-hand run beside the
  DAG is a run in the place of the DAG's.
- The write lock's protocol: writers take the global lock shared and then one pair's
  lock, one pair per transaction; the sweep takes the global lock alone. In this order
  no cycle can form, and the models use the effect, that each write is one step.
- The pager: its results are subsets of what was asked for.
- The older ingestion path (raw chunks, normaliser, aggregator, reprocess, its
  watermark): started from the CLI only.
- Risk guards and limits: their state is printed and edited by a CLI command and
  consulted by nothing; there is no behaviour of the system to relate it to.
- Identity: each build is one transaction; what leaves it is a request in `RecalcQueue`.
- Migrations ask the catalogue before they act; partitions are DDL by calendar.
- Real-valued computations (indicators, scores, sizing, ML), presentation, logging and
  transport: outside what TLC can evaluate, or without behaviour.

## 6. What could follow

The order in which the models were built was: backfill, sync, controller (the writers
of the candle table and what starts them), then repair, queue, rows and market (what
follows from a late candle); then the contracts between them (`CandleTable`, `Lease`,
`RequestLedger`). Worth adding next, in this order: foreign writers in `CandleSync`, and
with them the hole that a partial backfill leaves behind the watermark; the sync's run
over all symbols (its semaphore, abort flag and statistics); several pairs in
`FeatureRows`, for the freshness gate's global maximum.

## 7. Running

    tlc -workers 2 -config RecoveryController_lossy.cfg MCRecoveryController.tla
    tlapm RecoveryControllerProofs.tla

Every `.cfg` is named after its module; `PROJECT.json` gives the module of each run,
the properties, the mutants, and for every definition the source lines it models.
