---------------------------- MODULE FeatureRows ----------------------------
(***************************************************************************)
(* The feature rows of one (symbol, timeframe) pair beside its candles:    *)
(* features_calc_short extends them behind the newest feature row, the     *)
(* last-N repair guard asks for a recalculation of a range, and the queue  *)
(* serves it.  Neither of the two calculations locks the pair: each reads  *)
(* candles, computes for minutes, and upserts rows.                        *)
(*                                                                         *)
(* A row is good when the Trim bars before its own were all among the      *)
(* candles it was computed from.  Bar b opens at b, closed when now > b.   *)
(***************************************************************************)
EXTENDS Integers, FiniteSets, FiniteSetsExt

CONSTANTS
  Warmup,    \* warmup_bars: what the coverage gate wants
  Required,  \* required_bars: what the eligibility policy wants
  Trim,      \* rows the inserter drops: the largest lookback and a tenth
  RowLimit,  \* limit_for_timeframe
  Guarded,   \* bars the last-N guard looks after
  Outages,   \* bars the sync may fail to bring
  Horizon    \* bound on the clock

ASSUME RowConstants ==
  /\ Warmup \in Nat /\ Trim \in Nat /\ RowLimit \in Nat /\ Guarded \in Nat
  /\ Required \in Nat \ {0}
  /\ 0 < Trim /\ Trim < Warmup /\ Warmup <= RowLimit /\ 0 < Guarded
  /\ Horizon \in Nat \ {0} /\ Outages \subseteq 0..(Horizon-1)

VARIABLES
  now,       \* the bar that is open
  stored,    \* bars in swap_ohlcv_p
  rows,      \* the pair's feature rows: "none", "good" or "bad" for each bar
  eligible,  \* can_compute_features in ops.feature_eligibility
  pc,        \* the short run: idle, about to load its window, or computing
  mark,      \* MAX(timestamp) of the feature rows as that run read it
  frame,     \* the candles the short run has loaded
  asked,     \* the bars of the recalculation request in the queue
  loaded     \* the candles the request's calculation has loaded

candleVars == <<now, stored, eligible>>
shortVars  == <<pc, mark, frame>>
vars == <<candleVars, rows, shortVars, asked, loaded>>

Bar == 0..(Horizon-1)
NoMark == -1

TypeOK ==
  /\ now \in 0..Horizon
  /\ stored \subseteq {b \in Bar : b < now}
  /\ rows \in [Bar -> {"none", "good", "bad"}]
  /\ \A b \in Bar : rows[b] # "none" => b \in stored
  /\ eligible \in BOOLEAN
  /\ pc \in {"idle", "window", "save"}
  /\ mark \in Bar \cup {NoMark}
  /\ frame \subseteq stored /\ loaded \subseteq stored
  /\ asked \subseteq stored

-----------------------------------------------------------------------------
(* Algorithms.                                                             *)

HighestIn(S) == IF S = {} THEN NoMark ELSE Max(S)

\* get_last_calculated_ts
Watermark == HighestIn({b \in Bar : rows[b] # "none"})

\* Mutated form: the bars are counted, holes between them are not seen.
CoveredByCount(S) == Cardinality(S) >= Warmup

\* evaluate_ohlcv_coverage: the newest Warmup bars without a hole.
Covered(S) ==
  S # {} /\ (Max(S) - Warmup + 1)..Max(S) \subseteq S

Newest(S, n) == {b \in S : Cardinality({c \in S : b < c}) < n}

\* Mutated form: the candles after the newest row, without the warm-up.
WindowNoWarmup(w) == Newest({b \in stored : b > w}, RowLimit)

\* get_ohlcv_window: since_ts is an exclusive bound.
Window(w) ==
  Newest({b \in stored : w # NoMark => b > w - Warmup}, RowLimit)

\* Mutated form: nothing is trimmed.
KeptAll(R) == R

\* insert_indicators on the rows of a data frame: it drops the first Trim rows
\* of whatever it is given, but never all of them.
Kept(R) ==
  {b \in R : LET n == Cardinality({c \in R : c < b})
             IN  n >= Trim \/ n + 1 = Cardinality(R)}

Quality(b, F) == IF (b - Trim)..b \subseteq F THEN "good" ELSE "bad"

\* Upsert of the rows R, computed from the candles F.
Saved(R, F) ==
  [b \in Bar |-> IF b \in Kept(R) THEN Quality(b, F) ELSE rows[b]]

-----------------------------------------------------------------------------
Init ==
  /\ now = 0 /\ stored = {} /\ rows = [b \in Bar |-> "none"]
  /\ eligible = FALSE
  /\ pc = "idle" /\ mark = NoMark /\ frame = {}
  /\ asked = {} /\ loaded = {}

-----------------------------------------------------------------------------
(* Candles.                                                                *)

\* A bar closes; the sync stores it, or does not during an outage.
BarCloses ==
  /\ now < Horizon
  /\ now' = now + 1
  /\ \/ stored' = stored \cup {now}
     \/ now \in Outages /\ stored' = stored
  /\ UNCHANGED <<eligible, rows, shortVars, asked, loaded>>

\* The classic repair strategy and the backfill ask for no recalculation.
Fill(b) ==
  /\ b \in Bar \ stored /\ b < now
  /\ stored' = stored \cup {b}
  /\ UNCHANGED <<now, eligible, rows, shortVars, asked, loaded>>

\* Mutated form: the open bar counts as closed.
GuardedHolesOpen ==
  {b \in Bar \ stored : now - Guarded <= b /\ b <= now}

GuardedHoles ==
  {b \in Bar \ stored : now - Guarded <= b /\ b < now}

\* GuaranteeLastClosedBars with outcome "ok", and its affected_recalc_range.
GuardRepair ==
  /\ GuardedHoles # {} /\ asked = {}
  /\ stored' = stored \cup GuardedHoles
  /\ asked' = Min(GuardedHoles)..(now-1)
  /\ UNCHANGED <<now, eligible, rows, shortVars, loaded>>

\* evaluate_feature_eligibility: of the newest Required bars none is missing, so
\* that their number and their share are as the policy wants them, too.
Eligible == stored # {} /\ (Max(stored) - Required + 1)..Max(stored) \subseteq stored

\* RefreshEligibilityUseCase
Refresh ==
  /\ eligible' = Eligible
  /\ UNCHANGED <<now, stored, rows, shortVars, asked, loaded>>

-----------------------------------------------------------------------------
(* features_calc_short.                                                    *)

\* check_has_work_to_do, with one pair in the tables.
HasWork ==
  \/ HighestIn(stored) < now - 1
  \/ Watermark = NoMark
  \/ HighestIn(stored) - Watermark > 1

\* The run reads the newest row, finds newer candles and an eligible pair.
ShortBegin ==
  /\ pc = "idle" /\ HasWork
  /\ HighestIn(stored) > Watermark
  /\ eligible
  /\ mark' = Watermark
  /\ pc' = "window"
  /\ UNCHANGED <<candleVars, rows, frame, asked, loaded>>

ShortEnd ==
  /\ pc' = "idle" /\ mark' = NoMark /\ frame' = {}
  /\ UNCHANGED <<candleVars, asked, loaded>>

ShortLoad ==
  /\ pc = "window" /\ Covered(Window(mark))
  /\ frame' = Window(mark)
  /\ pc' = "save"
  /\ UNCHANGED <<candleVars, rows, mark, asked, loaded>>

\* "coverage_gate_failed"
ShortBlocked ==
  /\ pc = "window" /\ ~Covered(Window(mark))
  /\ ShortEnd /\ UNCHANGED rows

ShortSave ==
  /\ pc = "save"
  /\ rows' = Saved(frame, frame)
  /\ ShortEnd

\* A timeout or an error of this timeframe or of another one of the symbol:
\* the symbol's session is rolled back.
ShortFail ==
  /\ pc # "idle"
  /\ ShortEnd /\ UNCHANGED rows

-----------------------------------------------------------------------------
(* RecalcFeaturesInRange, for the request at the head of the queue.        *)

SourceOf(target) ==
  {b \in stored : Min(target) - Warmup < b /\ b <= Max(target)}

RecalcLoad ==
  /\ asked # {} /\ loaded = {}
  /\ Covered(SourceOf(asked))
  /\ loaded' = SourceOf(asked)
  /\ UNCHANGED <<candleVars, rows, shortVars, asked>>

\* "blocked": the row leaves the queue for good.
RecalcBlocked ==
  /\ asked # {} /\ loaded = {}
  /\ ~Covered(SourceOf(asked))
  /\ asked' = {}
  /\ UNCHANGED <<candleVars, rows, shortVars, loaded>>

\* The frame is filtered to the requested range before it is saved; some row
\* is written, and the request is marked completed.
RecalcSave ==
  /\ loaded # {}
  /\ rows' = Saved(loaded \cap asked, loaded)
  /\ asked' = {} /\ loaded' = {}
  /\ UNCHANGED <<candleVars, shortVars>>

\* The calculation raised, or its run was killed and the row claimed again.
RecalcFail ==
  /\ loaded # {}
  /\ loaded' = {}
  /\ asked' \in {{}, asked}
  /\ UNCHANGED <<candleVars, rows, shortVars>>

-----------------------------------------------------------------------------
Next ==
  \/ BarCloses \/ GuardRepair \/ Refresh \/ \E b \in Bar : Fill(b)
  \/ ShortBegin \/ ShortLoad \/ ShortBlocked \/ ShortSave \/ ShortFail
  \/ RecalcLoad \/ RecalcBlocked \/ RecalcSave \/ RecalcFail

Spec == Init /\ [][Next]_vars

\* The DAGs are scheduled again and again; not every run fails.
FairSpec ==
  /\ Spec
  /\ WF_vars(BarCloses) /\ WF_vars(Refresh) /\ WF_vars(\E b \in Bar : Fill(b))
  /\ SF_vars(ShortBegin) /\ SF_vars(ShortLoad) /\ SF_vars(ShortSave)
  /\ WF_vars(ShortBlocked)

-----------------------------------------------------------------------------
(* Properties.                                                             *)

\* The newest feature row, the one that every consumer reads, is computed from
\* a window without holes, whichever of the two calculations wrote it.
NewestRowGood == Watermark # NoMark => rows[Watermark] = "good"

\* A short run that has seen the latest candles repairs, by rewriting, every
\* row of the newest Warmup - Trim bars.
RecentRowsHeal ==
  [][(pc = "save" /\ rows' # rows /\ asked' = asked /\ frame = Window(mark))
       => \A b \in frame : b > Max(frame) - (Warmup - Trim) => rows'[b] = "good"]_vars

\* The one way to lose a good row: a calculation writes a row it has computed
\* from candles read before one of them was stored.
GoodRowsStay ==
  [][\A b \in Bar : rows[b] = "good" /\ rows'[b] = "bad" =>
       \E F \in {frame, loaded} :
         \E c \in stored \ F : b \in F /\ Min(F) < c /\ b - Trim <= c /\ c < b]_vars

\* Bars above the newest row get rows in the end, outages or not.
RowsArrive ==
  \A b \in Bar : (b \in stored /\ 0 <= Watermark /\ Watermark < b /\ b < now - 1)
                   ~> (rows[b] # "none" \/ (now = Horizon /\ ~HasWork))

\* A request that ends as completed has recalculated the rows of its range.
CompletedIsRecalculated ==
  [][(loaded # {} /\ rows' # rows /\ asked' = {})
       => \A b \in asked : rows'[b] = Quality(b, loaded)]_vars
=============================================================================
