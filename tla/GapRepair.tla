----------------------------- MODULE GapRepair -----------------------------
(***************************************************************************)
(* Gap repair of one (symbol, timeframe) pair as the repair DAG runs it:   *)
(* auto-apply, anchored at the listing date, newest gap first.  Each round *)
(* plans from one read of the candle table and hands one chunk to the use  *)
(* case, which reads the table four times more.  Other writers of          *)
(* swap_ohlcv_p and a retention sweep may come in between.                 *)
(*                                                                         *)
(* Time is counted in bars: bar b opens at b and is closed when now > b.   *)
(***************************************************************************)
EXTENDS Integers, FiniteSets

CONSTANTS
  Listing,         \* the instrument's first bar: the anchor
  RangeBars,       \* max_range_days, in bars
  ChunkBars,       \* chunk_size_bars
  IterationLimit,  \* auto_apply_iteration_limit
  MaxTasks,        \* max_gap_tasks_per_run
  Threshold,       \* no_progress_threshold
  Critical,        \* TRUE: a critical timeframe
  Keep,            \* newest bars the retention sweep leaves alone
  Horizon          \* bound on the clock

ASSUME RepairConstants ==
  /\ Listing \in Nat /\ Horizon \in Nat /\ Keep \in Nat
  /\ RangeBars \in Nat \ {0} /\ ChunkBars \in Nat \ {0}
  /\ IterationLimit \in Nat \ {0} /\ MaxTasks \in Nat \ {0}
  /\ Threshold \in Nat \ {0} /\ Critical \in BOOLEAN
  /\ RangeBars <= Keep

VARIABLES
  now,        \* the bar that is open
  stored,     \* bars of the pair with a row in swap_ohlcv_p
  absent,     \* bars for which the exchange has no candle
  pc,         \* where the run is
  asOf,       \* now_ts_ms of the run, read once
  used,       \* rounds begun
  chunk,      \* the bars of the round's chunk
  asked,      \* those of them the use case found missing
  todo,       \* those whose task is still to be processed
  page,       \* the candles of the task being processed
  got,        \* some task of the round received a candle
  before, after,   \* the two counts of the chunk's missing bars
  fruitless,  \* NoProgressTracker._consecutive
  report,     \* how the last run ended; "none" while one is under way
  disturbed,  \* history: another process changed the pair in this round
  rivals      \* history: rounds of this run in which one did

runVars == <<pc, asOf, used, chunk, asked, todo, page, got, before, after,
             fruitless>>
vars == <<now, stored, absent, runVars, report, disturbed, rivals>>

Bar  == Listing..(Horizon-1)
Time == Listing..Horizon
Report == {"none", "complete", "incomplete", "escalated", "guarded", "failed"}
RoundPC == {"detect", "before", "fetch", "write", "after", "verify"}

TypeOK ==
  /\ now \in Time /\ asOf \in Time
  /\ stored \subseteq Bar /\ absent \subseteq Bar
  /\ pc \in {"idle", "plan"} \cup RoundPC
  /\ used \in 0..IterationLimit /\ rivals \in 0..used
  /\ chunk \subseteq Bar /\ asked \subseteq chunk /\ todo \subseteq asked
  /\ page \subseteq todo
  /\ before \in 0..ChunkBars /\ after \in 0..ChunkBars
  /\ got \in BOOLEAN /\ disturbed \in BOOLEAN
  /\ fruitless \in 0..used
  /\ report \in Report

-----------------------------------------------------------------------------
(* Algorithms of the plan.                                                 *)

\* Mutated form: the open bar is taken for closed.
WindowOpen == {b \in Bar : asOf - RangeBars <= b /\ b <= asOf}

\* Mutated form: the newest closed bar is taken for open.
WindowShort == {b \in Bar : asOf - RangeBars <= b /\ b + 1 < asOf}

\* The planner's trailing window, up to the bar that was open at the start.
Window == {b \in Bar : asOf - RangeBars <= b /\ b < asOf}

Missing(w) == w \ stored

\* Mutated form: the oldest gap first.
OldestChunk(m) ==
  {b \in m : \E low \in m : (\A c \in m : low <= c) /\ b < low + ChunkBars
                            /\ low..b \subseteq m}

\* The top ChunkBars of the newest gap.
NextChunk(m) ==
  {b \in m : \E top \in m : (\A c \in m : c <= top) /\ top - ChunkBars < b
                            /\ b..top \subseteq m}

\* detect_gap_tasks: maximal runs of missing bars, oldest first.
FirstTask(m) ==
  {b \in m : \E low \in m : (\A c \in m : low <= c) /\ low..b \subseteq m}

TaskCount(m) == Cardinality({b \in m : b - 1 \notin m})

-----------------------------------------------------------------------------
Init ==
  /\ now \in Time
  /\ absent \in SUBSET Bar
  /\ stored \in SUBSET {b \in Bar \ absent : b < now}
  /\ pc = "idle" /\ asOf = Listing /\ used = 0 /\ fruitless = 0
  /\ chunk = {} /\ asked = {} /\ todo = {} /\ page = {} /\ got = FALSE
  /\ before = 0 /\ after = 0
  /\ report = "none" /\ disturbed = FALSE /\ rivals = 0

Tick ==
  /\ now < Horizon
  /\ now' = now + 1
  /\ UNCHANGED <<stored, absent, runVars, report, disturbed, rivals>>

\* The run is over; its use case and the tracker in it are gone.
End(r) ==
  /\ report' = r
  /\ pc' = "idle" /\ asOf' = Listing /\ used' = 0 /\ fruitless' = 0
  /\ chunk' = {} /\ asked' = {} /\ todo' = {} /\ page' = {} /\ got' = FALSE
  /\ before' = 0 /\ after' = 0
  /\ disturbed' = FALSE /\ rivals' = 0
  /\ UNCHANGED <<now, stored, absent>>

\* A run, or a retry of the DAG's task after a failure.
Start ==
  /\ pc = "idle"
  /\ asOf' = now
  /\ pc' = "plan"
  /\ report' = "none"
  /\ UNCHANGED <<now, stored, absent, used, chunk, asked, todo, page, got, before,
                 after, fruitless, disturbed, rivals>>

-----------------------------------------------------------------------------
(* run_repair_timeframe: one round after the other.                        *)

Exhausted ==
  /\ pc = "plan" /\ used = IterationLimit
  /\ End("incomplete")

\* Mutated form: after a chunk that was closed the plan is not made again.
PlannedOnce ==
  /\ pc = "plan" /\ used < IterationLimit
  /\ used > 0 \/ Missing(Window) = {}
  /\ End("complete")

NothingMissing ==
  /\ pc = "plan" /\ used < IterationLimit
  /\ Missing(Window) = {}
  /\ End("complete")

\* Mutated form: as long as there are gaps.
PlanUnbounded ==
  /\ pc = "plan"
  /\ Missing(Window) # {}
  /\ chunk' = NextChunk(Missing(Window))
  /\ used' = used + 1
  /\ disturbed' = FALSE
  /\ pc' = "detect"
  /\ UNCHANGED <<now, stored, absent, asOf, asked, todo, page, got, before, after,
                 fruitless, report, rivals>>

PlanChunk ==
  /\ pc = "plan" /\ used < IterationLimit
  /\ Missing(Window) # {}
  /\ chunk' = NextChunk(Missing(Window))
  /\ used' = used + 1
  /\ disturbed' = FALSE
  /\ pc' = "detect"
  /\ UNCHANGED <<now, stored, absent, asOf, asked, todo, page, got, before, after,
                 fruitless, report, rivals>>

-----------------------------------------------------------------------------
(* _BaseRepairUseCase.run on the chunk, in apply mode.                     *)

Detect ==
  /\ pc = "detect"
  /\ TaskCount(Missing(chunk)) <= MaxTasks
  /\ asked' = Missing(chunk) /\ todo' = Missing(chunk)
  /\ got' = FALSE
  /\ pc' = "before"
  /\ UNCHANGED <<now, stored, absent, asOf, used, chunk, page, before, after,
                 fruitless, report, disturbed, rivals>>

\* "apply blocked by guardrails": terminal, the task is not retried.
Guardrail ==
  /\ pc = "detect"
  /\ TaskCount(Missing(chunk)) > MaxTasks
  /\ End("guarded")

CountBefore ==
  /\ pc = "before"
  /\ before' = Cardinality(Missing(chunk))
  /\ pc' = IF todo = {} THEN "after" ELSE "fetch"
  /\ UNCHANGED <<now, stored, absent, asOf, used, chunk, asked, todo, page, got,
                 after, fruitless, report, disturbed, rivals>>

\* fetch_range returns some of the candles the exchange has.
Fetch ==
  /\ pc = "fetch"
  /\ page' \in SUBSET (FirstTask(todo) \ absent)
  /\ pc' = "write"
  /\ UNCHANGED <<now, stored, absent, asOf, used, chunk, asked, todo, got, before,
                 after, fruitless, report, disturbed, rivals>>

\* Mutated form: a task whose candles did not come is tried again.
WriteAgain ==
  /\ pc = "write"
  /\ stored' = stored \cup page
  /\ got' = (got \/ page # {})
  /\ todo' = IF page = {} THEN todo ELSE todo \ FirstTask(todo)
  /\ page' = {}
  /\ pc' = IF todo' = {} THEN "after" ELSE "fetch"
  /\ UNCHANGED <<now, absent, asOf, used, chunk, asked, before, after, fruitless,
                 report, disturbed, rivals>>

Write ==
  /\ pc = "write"
  /\ stored' = stored \cup page
  /\ got' = (got \/ page # {})
  /\ todo' = todo \ FirstTask(todo)
  /\ page' = {}
  /\ pc' = IF todo' = {} THEN "after" ELSE "fetch"
  /\ UNCHANGED <<now, absent, asOf, used, chunk, asked, before, after, fruitless,
                 report, disturbed, rivals>>

CountAfter ==
  /\ pc = "after"
  /\ after' = Cardinality(Missing(chunk))
  /\ pc' = "verify"
  /\ UNCHANGED <<now, stored, absent, asOf, used, chunk, asked, todo, page, got,
                 before, fruitless, report, disturbed, rivals>>

Blocked == asked # {} /\ ~got

\* Mutated form: a round counts as fruitless although it was blocked.
RecordedBlind ==
  IF before <= after THEN fruitless + 1 ELSE 0

\* NoProgressTracker.record
Recorded ==
  IF ~Blocked /\ before <= after THEN fruitless + 1
  ELSE 0

ShouldEscalate == Critical /\ Recorded >= Threshold

\* "no progress on critical TF": terminal, the task is not retried.
Escalate ==
  /\ pc = "verify" /\ ShouldEscalate
  /\ End("escalated")

\* The chunk is still open, or the use case found nothing to do in it: the
\* runner breaks off, and the summary of this round speaks for the window.
BreakOff ==
  /\ pc = "verify" /\ ~ShouldEscalate
  /\ Missing(chunk) # {} \/ asked = {}
  /\ End(IF Missing(chunk) = {} THEN "complete" ELSE "incomplete")

NextRound ==
  /\ pc = "verify" /\ ~ShouldEscalate
  /\ Missing(chunk) = {} /\ asked # {}
  /\ fruitless' = Recorded
  /\ chunk' = {} /\ asked' = {} /\ got' = FALSE /\ before' = 0 /\ after' = 0
  /\ disturbed' = FALSE
  /\ pc' = "plan"
  /\ UNCHANGED <<now, stored, absent, asOf, used, todo, page, report, rivals>>

\* A fetch that raises, a candle that is rejected, a database outage or a
\* killed worker.
Fail ==
  /\ pc # "idle"
  /\ End("failed")

-----------------------------------------------------------------------------
(* Other processes.                                                        *)

Disturb ==
  /\ disturbed' = (pc \in RoundPC)
  /\ rivals' = IF pc \in RoundPC /\ ~disturbed THEN rivals + 1 ELSE rivals
  /\ UNCHANGED <<now, absent, runVars, report>>

\* A transaction of the sync, the backfill or the guard: any closed bars.
OtherWrite ==
  /\ \E some \in SUBSET {b \in Bar \ (stored \cup absent) : b < now} :
       some # {} /\ stored' = stored \cup some
  /\ Disturb

Retention ==
  /\ \E b \in stored : b < now - Keep
  /\ stored' = {b \in stored : now - Keep <= b}
  /\ Disturb

-----------------------------------------------------------------------------
RunStep ==
  \/ Exhausted \/ NothingMissing \/ PlanChunk \/ Detect \/ Guardrail
  \/ CountBefore \/ Fetch \/ Write \/ CountAfter
  \/ Escalate \/ BreakOff \/ NextRound

Next == Tick \/ Start \/ RunStep \/ Fail \/ OtherWrite \/ Retention

Spec == Init /\ [][Next]_vars

FetchSome == Fetch /\ page' # {}
WriteSome == Write /\ page # {}

\* Runs are started again and again and no stage of a run fails for ever; the
\* exchange delivers time and again.
FairSpec ==
  /\ Spec
  /\ WF_vars(RunStep)
  /\ SF_vars(Start) /\ SF_vars(PlanChunk) /\ SF_vars(Detect)
  /\ SF_vars(CountBefore) /\ SF_vars(FetchSome) /\ SF_vars(WriteSome)

-----------------------------------------------------------------------------
(* Properties.                                                             *)

\* A run that reports its window as verified has closed it: although the
\* summary repeats only what the last chunk's verification saw, no older gap is
\* left, provided that nobody else changed the pair during a round.
VerifiedIsClosed ==
  [][(pc # "idle" /\ report' = "complete" /\ pc' = "idle" /\ rivals = 0)
       => Missing(Window) = {}]_vars

\* Newest first: when a repaired candle is stored, the run's window has no
\* missing bar above the chunk (unless the sweep or a rival intervened).
NewestFirst ==
  [][(pc = "write" /\ page # {} /\ stored' # stored /\ rivals = 0)
       => \A b \in Missing(Window) \ chunk : \A c \in chunk : b < c]_vars

\* A bar the exchange does not have shuts off every older gap: its chunk stays
\* open and ends each run, so nothing older is repaired but bars of its own gap,
\* less than a chunk away (unless a sweep or a rival intervened).
AbsentBlocksOlder ==
  [][(pc = "write" /\ stored' # stored /\ rivals' = 0)
       => \A a \in Window \cap absent : \A c \in stored' \ stored :
            c < a => a - c < ChunkBars /\ c..a \cap stored = {}]_vars

\* What the repair, its rivals and the sweep together do to the candle table.
Table == INSTANCE CandleTable WITH candles <- stored, First <- Listing, Retained <- Keep
TableSpec == Table!TSpec

\* The escalation on a critical timeframe is never the exchange's doing: each
\* fruitless round it counts is one in which another process changed the pair
\* between the reads of the round.
AlarmNeedsRivals ==
  pc = "verify" /\ ShouldEscalate => rivals >= Threshold

\* Every run ends: the rounds are bounded, a chunk that stays open breaks the run
\* off, and every step begins another round, goes on to a later stage of the
\* round, or leaves fewer bars to process in it.
Stage ==
  [detect |-> 1, before |-> 2, fetch |-> 3, write |-> 3, after |-> 4, verify |-> 5,
   plan |-> 6]

Descends ==
  \/ pc' = "idle"
  \/ used < used'
  \/ /\ used' = used
     /\ \/ Stage[pc] < Stage[pc']
        \/ Stage[pc] = Stage[pc'] /\ todo' \subseteq todo /\ todo' # todo
        \/ pc = "fetch" /\ pc' = "write" /\ todo' = todo

RunDescends == [][pc # "idle" => Descends \/ UNCHANGED runVars]_vars

\* Where the exchange has every candle, every closed bar is stored in the end
\* or leaves the planner's range.
GapsClose ==
  \A b \in Bar :
    (absent = {} /\ b < now) ~> (b \in stored \/ b < now - RangeBars)
=============================================================================
