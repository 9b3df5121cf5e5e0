----------------------------- MODULE Bootstrap -----------------------------
(***************************************************************************)
(* Historical backfill ("bootstrap") of one (symbol, timeframe) pair:      *)
(* the state row ops.swap_ohlcv_bootstrap_state, the candle table          *)
(* swap_ohlcv_p restricted to the pair, and the four processes that touch  *)
(* them: the bootstrap DAG run, the reconcile step of the recovery         *)
(* controller, the retention sweep, and the other candle writers.          *)
(*                                                                         *)
(* Time is counted in bars.  Bar b opens at b; it is closed when now > b.  *)
(***************************************************************************)
EXTENDS Integers, FiniteSets

CONSTANTS
  Listing,        \* first bar the instrument has
  Lookback,       \* bars of history a run asks for
  ChunkBars,      \* bars of one backward page
  BreakAfter,     \* consecutive fetch failures that end a run
  Keep,           \* newest bars the retention sweep leaves alone
  Horizon,        \* bound on the clock
  Junk,           \* bars at which bad or misaligned rows may pre-exist
  DryConf,        \* the dry_run values a trigger may carry
  OperatorTools,  \* TRUE: run_bootstrap without the DAG, and CLI cleanup
  Pooled          \* TRUE: Airflow pool ohlcv_write_pool has its one slot

ASSUME ConstantsOK ==
  /\ Listing \in Nat /\ Lookback \in Nat /\ Keep \in Nat /\ Horizon \in Nat
  /\ ChunkBars \in Nat \ {0} /\ BreakAfter \in Nat \ {0}
  /\ Junk \subseteq 0..(Horizon-1)
  /\ DryConf \subseteq BOOLEAN
  /\ OperatorTools \in BOOLEAN /\ Pooled \in BOOLEAN

VARIABLES
  now,      \* floor_open(wall clock)
  table,    \* [Bar -> {"none", "ok", "bad"}]: the aligned rows of the pair
  stray,    \* bars after whose open a misaligned row is stored
  row,      \* the pair's bootstrap state row
  pc,       \* where the bootstrap run is
  win,      \* its target window
  ckpt,     \* its in-memory checkpoint
  streak,   \* its in-memory error streak
  dry,      \* its dry_run flag
  was,      \* init only: the row it read was completed
  seen,     \* valid timestamps of the first read of count_valid_candles
  verdict,  \* outcome of the second read: nothing missing, nothing extra
  page,     \* candles of the chunk being processed
  rpc, rwin, rseen,   \* the reconciling controller run
  spc,      \* the retention sweep
  asked,    \* history: bars of chunks whose answer is durably applied, since
            \* the backfill last started at its window's end
  lost      \* history: bars whose row was deleted and not written since

tableVars == <<table, stray, lost>>
runVars   == <<pc, win, ckpt, streak, dry, was, seen, verdict, page>>
recoVars  == <<rpc, rwin, rseen>>
vars == <<now, tableVars, row, runVars, recoVars, spc, asked>>

Bar == 0..(Horizon-1)
Time == 0..Horizon
Window == [start: Nat, end: Time]
Status == {"none", "pending", "running", "incomplete", "stuck", "completed"}
Resumable == {"pending", "running", "incomplete"}

RunPC == {"idle", "init_valid", "init_raw", "init_put", "queued",
          "rec_valid", "rec_raw", "rec_put", "begin", "loop", "write", "save",
          "verify_raw", "finish"}
\* What bootstrap_symbol_tf executes while it holds the write pool's slot.
PoolPC == RunPC \ {"idle", "init_valid", "init_raw", "init_put", "queued"}

TypeOK ==
  /\ now \in Time
  /\ table \in [Bar -> {"none", "ok", "bad"}] /\ stray \subseteq Bar
  /\ row \in [status: Status, start: Nat, end: Time, ckpt: Time]
  /\ pc \in RunPC /\ win \in Window /\ ckpt \in Time
  /\ pc \in {"write", "save"} => ckpt > win.start
  /\ streak \in 0..(BreakAfter-1)
  /\ dry \in BOOLEAN /\ was \in BOOLEAN /\ verdict \in BOOLEAN
  /\ seen \subseteq Bar /\ page \subseteq Bar
  /\ rpc \in {"idle", "valid", "raw", "put"} /\ rwin \in Window
  /\ rseen \subseteq Bar
  /\ spc \in {"idle", "cleared"}
  /\ asked \subseteq Bar /\ lost \subseteq Bar

Larger(a, b) == IF a >= b THEN a ELSE b

\* floor_open(max(now - lookback, listing)), up to the open bar.  An instrument
\* listed in the future gets an empty window.  Listing \in Nat stands for a known
\* listing time; run()'s clamp at the epoch changes nothing then.
TargetWindow == [start |-> Larger(now - Lookback, Listing), end |-> now]

Bars(w) == w.start .. (w.end - 1)

Upsert(status, w, c) ==
  row' = [status |-> status, start |-> w.start, end |-> w.end, ckpt |-> c]

-----------------------------------------------------------------------------
(* count_valid_candles: two reads in two sessions, then set arithmetic.    *)

ValidIn(w) == {b \in Bars(w) : table[b] = "ok"}

RawCount(w) == Cardinality({b \in Bars(w) : table[b] # "none"})
               + Cardinality(stray \cap Bars(w))

\* Mutated form: the raw rows are not compared with the valid ones.
CoveredUncounted(w, valid) == Bars(w) \subseteq valid

\* missing_bars == 0 and invalid_extra_rows == 0
Covered(w, valid) == Bars(w) \subseteq valid /\ RawCount(w) <= Cardinality(valid)

-----------------------------------------------------------------------------
Init ==
  /\ now \in Time
  /\ table \in {t \in [Bar -> {"none", "bad"}] : \A b \in Bar \ Junk : t[b] = "none"}
  /\ stray \in SUBSET Junk
  /\ row = [status |-> "none", start |-> 0, end |-> 0, ckpt |-> 0]
  /\ pc = "idle" /\ win = [start |-> 0, end |-> 0] /\ ckpt = 0 /\ streak = 0
  /\ dry = FALSE /\ was = FALSE /\ seen = {} /\ verdict = FALSE /\ page = {}
  /\ rpc = "idle" /\ rwin = [start |-> 0, end |-> 0] /\ rseen = {}
  /\ spc = "idle"
  /\ asked = {} /\ lost = {}

Tick ==
  /\ now < Horizon
  /\ now' = now + 1
  /\ UNCHANGED <<tableVars, row, runVars, recoVars, spc, asked>>

\* Mutated form: the retention DAG does not run in the pool.
PoolWithoutSweep == Pooled => pc \notin PoolPC

PoolFree == Pooled => (pc \notin PoolPC /\ spc = "idle")

\* The run is over: its local state is gone, only the row remains.
Leave ==
  /\ pc' = "idle" /\ win' = [start |-> 0, end |-> 0] /\ ckpt' = 0 /\ streak' = 0
  /\ dry' = FALSE /\ was' = FALSE /\ seen' = {} /\ verdict' = FALSE /\ page' = {}

Goto(next) == pc' = next

-----------------------------------------------------------------------------
(* Task init_bootstrap_state of the DAG.                                   *)

StartDag ==
  /\ pc = "idle"
  /\ dry' \in DryConf
  /\ win' = TargetWindow
  /\ was' = (row.status = "completed")
  /\ Goto("init_valid")
  /\ UNCHANGED <<now, tableVars, row, ckpt, streak, seen, verdict, page,
                 recoVars, spc, asked>>

InitValid ==
  /\ pc = "init_valid"
  /\ seen' = ValidIn(win)
  /\ Goto("init_raw")
  /\ UNCHANGED <<now, tableVars, row, win, ckpt, streak, dry, was, verdict, page,
                 recoVars, spc, asked>>

InitRaw ==
  /\ pc = "init_raw"
  /\ verdict' = Covered(win, seen)
  /\ seen' = {}
  /\ Goto("init_put")
  /\ UNCHANGED <<now, tableVars, row, win, ckpt, streak, dry, was, page,
                 recoVars, spc, asked>>

\* Live data covers the window: the pair is skipped.
InitSkip ==
  /\ pc = "init_put"
  /\ verdict
  /\ \/ was /\ UNCHANGED row
     \/ ~was /\ Bars(win) # {} /\ Upsert("completed", win, win.start)
  /\ Leave
  /\ UNCHANGED <<now, tableVars, recoVars, spc, asked>>

\* The pair is to be fetched: its row restarts at the window's end.
InitPending ==
  /\ pc = "init_put"
  /\ ~verdict \/ (~was /\ Bars(win) = {})
  /\ Upsert(IF was THEN "incomplete" ELSE "pending", win, win.end)
  /\ Goto("queued")
  /\ UNCHANGED <<now, tableVars, win, ckpt, streak, dry, was, seen, verdict, page,
                 recoVars, spc, asked>>

\* Task coverage_report raises AirflowSkipException when dry_run is set.
DryStop ==
  /\ pc = "queued" /\ dry
  /\ Leave
  /\ UNCHANGED <<now, tableVars, row, recoVars, spc, asked>>

-----------------------------------------------------------------------------
(* RunBootstrapUseCase.run                                                 *)

Reinitialize(w) ==
  \/ row.status = "none"
  \/ /\ row.status \in Resumable
     /\ row.start # w.start \/ row.end # w.end \/ row.ckpt <= w.start

LoadState ==
  LET w == TargetWindow IN
  /\ win' = w
  /\ IF row.status = "completed"
     THEN ckpt' = w.end /\ Goto("rec_valid")
     ELSE /\ ckpt' = IF Reinitialize(w) THEN w.end ELSE row.ckpt
          /\ Goto("begin")
  /\ UNCHANGED <<now, tableVars, row, streak, was, seen, verdict, page,
                 recoVars, spc, asked>>

RunStart ==
  /\ pc = "queued" /\ ~dry /\ PoolFree
  /\ LoadState
  /\ UNCHANGED dry

\* run_bootstrap called by an operator, outside the DAG and its pool.
DirectStart ==
  /\ OperatorTools
  /\ pc = "idle"
  /\ dry' \in DryConf
  /\ LoadState

RecValid ==
  /\ pc = "rec_valid"
  /\ seen' = ValidIn(win)
  /\ Goto("rec_raw")
  /\ UNCHANGED <<now, tableVars, row, win, ckpt, streak, dry, was, verdict, page,
                 recoVars, spc, asked>>

\* A completed row whose window is still covered ends the run without a write.
RecRaw ==
  /\ pc = "rec_raw"
  /\ IF Covered(win, seen)
     THEN Leave
     ELSE /\ seen' = {}
          /\ Goto("rec_put")
          /\ UNCHANGED <<win, ckpt, streak, dry, was, verdict, page>>
  /\ UNCHANGED <<now, tableVars, row, recoVars, spc, asked>>

RecPut ==
  /\ pc = "rec_put"
  /\ Upsert("incomplete", win, win.end)
  /\ Goto("begin")
  /\ UNCHANGED <<now, tableVars, win, ckpt, streak, dry, was, seen, verdict, page,
                 recoVars, spc, asked>>

Begin ==
  /\ pc = "begin"
  /\ Upsert("running", win, ckpt)
  /\ streak' = 0
  /\ asked' = IF ckpt = win.end THEN {} ELSE asked
  /\ Goto("loop")
  /\ UNCHANGED <<now, tableVars, win, ckpt, dry, was, seen, verdict, page,
                 recoVars, spc>>

ChunkStart == Larger(ckpt - ChunkBars, win.start)

\* Mutated form: the page's end is taken for one of its bars.
ChunkWithEnd == ChunkStart .. ckpt

Chunk == ChunkStart .. (ckpt - 1)

\* Mutated form: the checkpoint is stored before the chunk is written.
FetchThenSave ==
  /\ pc = "loop" /\ ckpt > win.start
  /\ page' \in SUBSET Chunk
  /\ streak' = 0
  /\ Upsert("running", win, ChunkStart)
  /\ Goto(IF page' = {} \/ dry THEN "save" ELSE "write")
  /\ asked' = IF page' = {} /\ ~dry THEN asked \cup Chunk ELSE asked
  /\ UNCHANGED <<now, tableVars, win, ckpt, dry, was, seen, verdict,
                 recoVars, spc>>

\* fetch_range returns some of the chunk's candles: holes of the exchange and
\* pages that stay partial after the client's retries look the same.
FetchOk ==
  /\ pc = "loop" /\ ckpt > win.start
  /\ page' \in SUBSET Chunk
  /\ streak' = 0
  /\ Goto(IF page' = {} \/ dry THEN "save" ELSE "write")
  /\ asked' = IF page' = {} /\ ~dry THEN asked \cup Chunk ELSE asked
  /\ UNCHANGED <<now, tableVars, row, win, ckpt, dry, was, seen, verdict,
                 recoVars, spc>>

\* Mutated form: the breaker opens one failure too late.
FetchFailLate ==
  /\ pc = "loop" /\ ckpt > win.start
  /\ IF streak + 1 > BreakAfter
     THEN Upsert("stuck", win, ckpt) /\ Leave
     ELSE /\ streak' = streak + 1
          /\ UNCHANGED <<row, pc, win, ckpt, dry, was, seen, verdict, page>>
  /\ UNCHANGED <<now, tableVars, recoVars, spc, asked>>

FetchFail ==
  /\ pc = "loop" /\ ckpt > win.start
  /\ IF streak + 1 >= BreakAfter
     THEN Upsert("stuck", win, ckpt) /\ Leave
     ELSE /\ streak' = streak + 1
          /\ UNCHANGED <<row, pc, win, ckpt, dry, was, seen, verdict, page>>
  /\ UNCHANGED <<now, tableVars, recoVars, spc, asked>>

\* selective_upsert_candles: one transaction, validated rows only.
WritePage ==
  /\ pc = "write"
  /\ table' = [b \in Bar |-> IF b \in page THEN "ok" ELSE table[b]]
  /\ lost' = lost \ page
  /\ asked' = asked \cup Chunk
  /\ Goto("save")
  /\ UNCHANGED <<now, stray, row, win, ckpt, streak, dry, was, seen, verdict,
                 page, recoVars, spc>>

\* Mutated form: an empty page does not move the checkpoint.
SaveOldestOnly ==
  LET c == IF page = {} THEN ckpt ELSE ChunkStart IN
  /\ pc = "save"
  /\ Upsert("running", win, c)
  /\ ckpt' = c
  /\ page' = {}
  /\ Goto("loop")
  /\ UNCHANGED <<now, tableVars, win, streak, dry, was, seen, verdict,
                 recoVars, spc, asked>>

\* min(oldest candle, chunk start) is the chunk start: fetch_range drops
\* candles outside the chunk.
Save ==
  /\ pc = "save"
  /\ Upsert("running", win, ChunkStart)
  /\ ckpt' = ChunkStart
  /\ page' = {}
  /\ Goto("loop")
  /\ UNCHANGED <<now, tableVars, win, streak, dry, was, seen, verdict,
                 recoVars, spc, asked>>

VerifyValid ==
  /\ pc = "loop" /\ ckpt <= win.start
  /\ seen' = ValidIn(win)
  /\ Goto("verify_raw")
  /\ UNCHANGED <<now, tableVars, row, win, ckpt, streak, dry, was, verdict, page,
                 recoVars, spc, asked>>

VerifyRaw ==
  /\ pc = "verify_raw"
  /\ verdict' = Covered(win, seen)
  /\ seen' = {}
  /\ Goto("finish")
  /\ UNCHANGED <<now, tableVars, row, win, ckpt, streak, dry, was, page,
                 recoVars, spc, asked>>

\* Mutated form: the loop's end is taken for completion.
FinishUnverified ==
  /\ pc = "finish"
  /\ Upsert(IF ~dry THEN "completed" ELSE "incomplete", win, ckpt)
  /\ Leave
  /\ UNCHANGED <<now, tableVars, recoVars, spc, asked>>

Finish ==
  /\ pc = "finish"
  /\ Upsert(IF verdict /\ ~dry THEN "completed" ELSE "incomplete", win, ckpt)
  /\ Leave
  /\ UNCHANGED <<now, tableVars, recoVars, spc, asked>>

\* A raised exception (database outage, rejected candle), a task timeout or a
\* killed worker: nothing is written, the row keeps what it last said.
Crash ==
  /\ pc # "idle"
  /\ Leave
  /\ UNCHANGED <<now, tableVars, row, recoVars, spc, asked>>

-----------------------------------------------------------------------------
(* reconcile_bootstrap_state, called by the recovery controller.           *)

RecoStart ==
  /\ rpc = "idle" /\ row.status = "completed"
  /\ rwin' = TargetWindow
  /\ rpc' = "valid"
  /\ UNCHANGED <<now, tableVars, row, runVars, rseen, spc, asked>>

RecoValid ==
  /\ rpc = "valid"
  /\ rseen' = ValidIn(rwin)
  /\ rpc' = "raw"
  /\ UNCHANGED <<now, tableVars, row, runVars, rwin, spc, asked>>

RecoRaw ==
  /\ rpc = "raw"
  /\ rpc' = IF Covered(rwin, rseen) THEN "idle" ELSE "put"
  /\ rseen' = {}
  /\ UNCHANGED <<now, tableVars, row, runVars, rwin, spc, asked>>

RecoPut ==
  /\ rpc = "put"
  /\ Upsert("incomplete", rwin, rwin.end)
  /\ rpc' = "idle"
  /\ UNCHANGED <<now, tableVars, runVars, rwin, rseen, spc, asked>>

-----------------------------------------------------------------------------
(* swap_ohlcv_retention and the CLI cleanup command.                       *)

DeleteOld ==
  LET old == {b \in Bar : b < now - Keep} IN
  /\ table' = [b \in Bar |-> IF b \in old THEN "none" ELSE table[b]]
  /\ stray' = stray \ old
  /\ lost'  = lost \cup {b \in old : table[b] = "ok"}

SweepCheck ==
  /\ spc = "idle" /\ PoolFree
  /\ row.status \in {"none", "completed"}
  /\ spc' = "cleared"
  /\ UNCHANGED <<now, tableVars, row, runVars, recoVars, asked>>

SweepDelete ==
  /\ spc = "cleared"
  /\ DeleteOld
  /\ spc' = "idle"
  /\ UNCHANGED <<now, row, runVars, recoVars, asked>>

CliCleanup ==
  /\ OperatorTools
  /\ DeleteOld
  /\ UNCHANGED <<now, row, runVars, recoVars, spc, asked>>

\* A transaction of the sync or of the repair, as this component sees them:
\* closed bars are upserted with validated candles.
OtherWrite ==
  /\ PoolFree
  /\ \E some \in SUBSET {b \in Bar : b < now /\ table[b] # "ok"} :
       /\ some # {}
       /\ table' = [b \in Bar |-> IF b \in some THEN "ok" ELSE table[b]]
       /\ lost'  = lost \ some
  /\ UNCHANGED <<now, stray, row, runVars, recoVars, spc, asked>>

-----------------------------------------------------------------------------
RunStep ==
  \/ InitValid \/ InitRaw \/ InitSkip \/ InitPending \/ DryStop \/ RunStart
  \/ RecValid \/ RecRaw \/ RecPut \/ Begin \/ FetchOk \/ FetchFail
  \/ WritePage \/ Save \/ VerifyValid \/ VerifyRaw \/ Finish

Next ==
  \/ Tick \/ StartDag \/ DirectStart \/ RunStep \/ Crash
  \/ RecoStart \/ RecoValid \/ RecoRaw \/ RecoPut
  \/ SweepCheck \/ SweepDelete \/ CliCleanup \/ OtherWrite

Spec == Init /\ [][Next]_vars

\* A task that has been started is executed to its end (or dies), and a sweep
\* that passed its check deletes; triggers, ticks, failures and the other
\* writers are not owed to anybody.
FairSpec == Spec /\ WF_vars(RunStep) /\ WF_vars(SweepDelete)

-----------------------------------------------------------------------------
(* Properties.                                                             *)

\* Stored, or deleted after having been stored.
Kept(b) == table[b] = "ok" \/ b \in lost

\* A bar missing from the window of a completed row was deleted after it had
\* been stored: whatever crashes, partial pages, moved windows, concurrent
\* downgrades and stale reads happen, no bar is skipped by the backfill.
CompletedNeverSkips ==
  row.status = "completed" => \A b \in Bars(row) : Kept(b)

\* The stored checkpoint is never ahead of the data: every bar between it and
\* the window's end belongs to a chunk whose answer is in the table, so a run
\* that resumes at the checkpoint after a crash leaves nothing behind.
CheckpointEarned ==
  row.status \in Resumable => row.ckpt .. (row.end - 1) \subseteq asked

\* When the run itself declares completion the window is covered at that very
\* moment, not only at the earlier reads: with one slot in ohlcv_write_pool no
\* sweep deletes between the verifying reads and the state write.
FinishIsFresh ==
  [][(pc = "finish" /\ row'.status = "completed")
       => \A b \in Bars(win) : table[b] = "ok"]_vars

\* Nor is a misaligned row in the window at that moment: equal counts of raw
\* and valid rows, taken in two sessions, do not hide one row lost and one
\* row too many.  (Outside the pool they can: init_bootstrap_state and the
\* controller's reconcile step count while a sweep may delete.)
FinishIsClean ==
  [][(pc = "finish" /\ row'.status = "completed")
       => Bars(win) \cap stray = {}]_vars

\* What the backfill, the sweep and the other writers together do to the candles
\* that readers take for valid.
Table == INSTANCE CandleTable
           WITH candles <- {b \in Bar : table[b] = "ok"}, First <- 0, Retained <- Keep
TableSpec == Table!TSpec

\* Why a run ends: each of its steps goes on to a later stage, or, in the fetch
\* loop, moves the checkpoint down, goes on with the chunk, or adds to the error
\* streak that trips the breaker.
Stage ==
  [init_valid |-> 1, init_raw |-> 2, init_put |-> 3, queued |-> 4, rec_valid |-> 5,
   rec_raw |-> 6, rec_put |-> 7, begin |-> 8, loop |-> 9, write |-> 9, save |-> 9,
   verify_raw |-> 10, finish |-> 11]
Part == [loop |-> 1, write |-> 2, save |-> 3]

Descends ==
  \/ pc' = "idle"
  \/ Stage[pc] < Stage[pc']
  \/ /\ Stage[pc] = 9 /\ Stage[pc'] = 9
     /\ \/ ckpt' < ckpt
        \/ ckpt' = ckpt /\ Part[pc] < Part[pc']
        \/ ckpt' = ckpt /\ pc' = pc /\ streak < streak'

RunDescends == [][pc # "idle" => Descends \/ UNCHANGED runVars]_vars

\* Every run that is started ends: the fetch loop always moves its checkpoint
\* or reaches the circuit breaker.
RunTerminates == pc # "idle" ~> pc = "idle"
=============================================================================
