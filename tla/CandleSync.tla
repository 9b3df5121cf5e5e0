----------------------------- MODULE CandleSync -----------------------------
(***************************************************************************)
(* Incremental candle sync of one (symbol, timeframe) pair: the task of    *)
(* the sync DAG (every five minutes) and runs started by hand, which write *)
(* the same rows of swap_ohlcv_p.                                          *)
(*                                                                         *)
(* Time is counted in bars: bar b opens at b and is closed when now > b.   *)
(* The exchange has a candle for every bar, so a page is an interval       *)
(* lo..hi; it is empty when lo > hi.                                       *)
(***************************************************************************)
EXTENDS Integers, FiniteSets

CONSTANTS
  Workers,     \* concurrent runs of the sync for this pair
  Scheduled,   \* those of them that the DAG starts again and again
  Limit,       \* candles per request (batch_size)
  PageSizes,   \* candles the exchange may grant to a request with a cursor
  MaxRetries,  \* retries of one fetch
  MaxLag,      \* how far the clock may run ahead of the sync, in bars
  Horizon      \* bound on the clock

ASSUME SyncConstants ==
  /\ Scheduled \subseteq Workers
  /\ Limit \in Nat \ {0} /\ MaxRetries \in Nat
  /\ MaxLag \in Nat \ {0} /\ Horizon \in Nat
  /\ PageSizes \subseteq 1..Limit

VARIABLES
  now,       \* the bar that is open
  stored,    \* bars of the pair with a row in swap_ohlcv_p
  early,     \* stored bars whose candle was fetched before the bar closed
  base,      \* history: oldest bar of the first load; Horizon before it
  pc,        \* where each run is
  latest,    \* latest_stored_ts of the run; -1 for None
  before,    \* its cursor; -1 for None
  page,      \* the candles it holds
  taken,     \* now, when it fetched them
  attempts   \* retries of the fetch under way

tableVars == <<stored, early, base>>
runVars   == <<pc, latest, before, page, taken, attempts>>
vars == <<now, tableVars, runVars>>

Bar  == 0..(Horizon-1)
Time == 0..Horizon
NoPage == [lo |-> 0, hi |-> -1]

TypeOK ==
  /\ now \in Time
  /\ stored \subseteq Bar /\ early \subseteq stored
  /\ base \in Time
  /\ pc \in [Workers -> {"idle", "fetch", "filter", "store"}]
  /\ latest \in [Workers -> -1..(Horizon-1)]
  /\ before \in [Workers -> -1..(Horizon-1)]
  /\ page \in [Workers -> [lo : Time, hi : -1..Horizon]]
  /\ taken \in [Workers -> Time]
  /\ attempts \in [Workers -> 0..MaxRetries]

Larger(a, b)  == IF a >= b THEN a ELSE b
Smaller(a, b) == IF a <= b THEN a ELSE b

-----------------------------------------------------------------------------
Init ==
  /\ now \in Time
  /\ stored = {} /\ early = {} /\ base = Horizon
  /\ pc = [w \in Workers |-> "idle"]
  /\ latest = [w \in Workers |-> -1] /\ before = [w \in Workers |-> -1]
  /\ page = [w \in Workers |-> NoPage]
  /\ taken = [w \in Workers |-> 0] /\ attempts = [w \in Workers |-> 0]

Holding(w) == pc[w] \in {"filter", "store"}

\* The assumption on the schedule: the clock stays within MaxLag bars of the
\* newest stored bar, and of the bars that a run holds and has yet to store.
Timely ==
  /\ stored # {} => \E m \in stored : now < m + MaxLag
  /\ \A w \in Workers : Holding(w) => now < taken[w] - 1 + MaxLag

Tick ==
  /\ now < Horizon /\ Timely
  /\ now' = now + 1
  /\ UNCHANGED <<tableVars, runVars>>

\* The run of this pair is over: its local variables are gone.
Leave(w) ==
  /\ pc' = [pc EXCEPT ![w] = "idle"]
  /\ latest' = [latest EXCEPT ![w] = -1] /\ before' = [before EXCEPT ![w] = -1]
  /\ page' = [page EXCEPT ![w] = NoPage]
  /\ taken' = [taken EXCEPT ![w] = 0] /\ attempts' = [attempts EXCEPT ![w] = 0]

\* Mutated form: the first page is stored whatever the table holds.
ReadNothing(w) ==
  /\ pc[w] = "idle"
  /\ latest' = [latest EXCEPT ![w] = -1]
  /\ pc' = [pc EXCEPT ![w] = "fetch"]
  /\ UNCHANGED <<now, tableVars, before, page, taken, attempts>>

\* get_latest_timestamp: MAX(timestamp), read once per pair and run.
ReadLatest(w) ==
  /\ pc[w] = "idle"
  /\ \E m \in stored \cup {-1} :
       /\ \A b \in stored : b <= m
       /\ latest' = [latest EXCEPT ![w] = m]
  /\ pc' = [pc EXCEPT ![w] = "fetch"]
  /\ UNCHANGED <<now, tableVars, before, page, taken, attempts>>

\* Without a cursor the newest candles; the open bar may have none yet.
NewestPage(hi) == [lo |-> Larger(hi - Limit + 1, 0), hi |-> hi]

\* With one, candles from Limit bars below it upwards, as many as granted.
CursorPage(c, n) ==
  LET since == Larger(c - Limit, 0)
  IN  [lo |-> since, hi |-> Smaller(since + n - 1, c - 1)]

Answers(w) ==
  IF before[w] = -1
  THEN {NewestPage(hi) : hi \in {now - 1, now}}
  ELSE {CursorPage(before[w], n) : n \in PageSizes}

Fetch(w) ==
  /\ pc[w] = "fetch"
  /\ \E answer \in Answers(w) :
       /\ answer.lo <= answer.hi
       /\ page' = [page EXCEPT ![w] = answer]
  /\ taken' = [taken EXCEPT ![w] = now]
  /\ attempts' = [attempts EXCEPT ![w] = 0]
  /\ pc' = [pc EXCEPT ![w] = "filter"]
  /\ UNCHANGED <<now, tableVars, latest, before>>

\* An empty answer, or error 51000 which is taken for one, ends the pair.
FetchNothing(w) ==
  /\ pc[w] = "fetch"
  /\ Leave(w)
  /\ UNCHANGED <<now, tableVars>>

\* Mutated form: one retry too many.
FetchRetryOnce(w) ==
  /\ pc[w] = "fetch"
  /\ attempts[w] <= MaxRetries
  /\ attempts' = [attempts EXCEPT ![w] = @ + 1]
  /\ UNCHANGED <<now, tableVars, pc, latest, before, page, taken>>

\* A timeout, a rate limit or a transient error is retried.
FetchRetry(w) ==
  /\ pc[w] = "fetch"
  /\ attempts[w] < MaxRetries
  /\ attempts' = [attempts EXCEPT ![w] = @ + 1]
  /\ UNCHANGED <<now, tableVars, pc, latest, before, page, taken>>

\* Mutated form: the window starts one bar late.
FromSecond(w) == Larger(page[w].lo, latest[w] + 2)

\* Candles the store already has are dropped, and so is the bar that is open
\* when the answer is processed.
From(w) == Larger(page[w].lo, latest[w] + 1)

\* Mutated form: the last closed bar is taken for the open one.
FilterLate(w) ==
  /\ pc[w] = "filter"
  /\ LET hi == Smaller(page[w].hi, now - 2) IN
       IF From(w) > hi
       THEN Leave(w)
       ELSE /\ page' = [page EXCEPT ![w].hi = hi]
            /\ pc' = [pc EXCEPT ![w] = "store"]
            /\ UNCHANGED <<latest, before, taken, attempts>>
  /\ UNCHANGED <<now, tableVars>>

\* Mutated form: the open bar is not dropped.
FilterNone(w) ==
  /\ pc[w] = "filter"
  /\ IF From(w) > page[w].hi
     THEN Leave(w)
     ELSE /\ pc' = [pc EXCEPT ![w] = "store"]
          /\ UNCHANGED <<latest, before, page, taken, attempts>>
  /\ UNCHANGED <<now, tableVars>>

Filter(w) ==
  /\ pc[w] = "filter"
  /\ LET hi == Smaller(page[w].hi, now - 1) IN
       IF From(w) > hi
       THEN Leave(w)
       ELSE /\ page' = [page EXCEPT ![w].hi = hi]
            /\ pc' = [pc EXCEPT ![w] = "store"]
            /\ UNCHANGED <<latest, before, taken, attempts>>
  /\ UNCHANGED <<now, tableVars>>

Rows(w) == From(w)..page[w].hi

\* upsert_candles, then the loop's two exits: the page reached the stored
\* candles, or it was short.
Store(w) ==
  /\ pc[w] = "store"
  /\ stored' = stored \cup Rows(w)
  /\ early' = (early \ Rows(w)) \cup (Rows(w) \cap {taken[w]})
  /\ base' = IF stored = {} THEN From(w) ELSE base
  /\ IF page[w].lo <= latest[w] \/ page[w].hi - From(w) + 1 < Limit
     THEN Leave(w)
     ELSE /\ before' = [before EXCEPT ![w] = page[w].lo]
          /\ page' = [page EXCEPT ![w] = NoPage]
          /\ taken' = [taken EXCEPT ![w] = 0]
          /\ pc' = [pc EXCEPT ![w] = "fetch"]
          /\ UNCHANGED <<latest, attempts>>
  /\ UNCHANGED now

\* The pair fails: a fatal fetch error or the last retry, a candle that
\* validate_chunk_for_write rejects, a database outage, a killed task.
Fail(w) ==
  /\ pc[w] # "idle"
  /\ Leave(w)
  /\ UNCHANGED <<now, tableVars>>

-----------------------------------------------------------------------------
Answered(w) == Fetch(w) \/ FetchNothing(w) \/ FetchRetry(w)

Next ==
  \/ Tick
  \/ \E w \in Workers :
       \/ ReadLatest(w) \/ Answered(w) \/ Filter(w) \/ Store(w) \/ Fail(w)

Spec == Init /\ [][Next]_vars

\* The DAG's requests end, its run is started again and again, and no stage of
\* it fails for ever: exchange and database are there time and again. Nothing is
\* asked of a run by hand, which may stop for good wherever it is.
FairSpec ==
  /\ Spec
  /\ \A w \in Scheduled :
       /\ WF_vars(Answered(w))
       /\ SF_vars(ReadLatest(w)) /\ SF_vars(Fetch(w))
       /\ SF_vars(Filter(w)) /\ SF_vars(Store(w))

-----------------------------------------------------------------------------
\* From the first load on the series has no holes, although each run decides
\* what to ask for from one MAX(timestamp) that other runs make stale.
NoHoles ==
  \A m \in stored : \A b \in base..m : b \in stored

\* The pair's candles as readers see them: one run of bars that only grows.
Series == INSTANCE CandleSeries WITH series <- {b \in stored : b >= base}
SeriesSpec == Series!SSpec

\* What the sync does to the candle table, as the table's other users may
\* assume it: candles of closed bars are added, none is taken away.
Table == INSTANCE CandleTable WITH candles <- stored, First <- 0, Retained <- Horizon
TableSpec == Table!TSpec

\* A bar that is missing below the newest stored one, and that no run under way
\* may still ask for, is never stored by the sync: each later run starts from
\* MAX(timestamp). Only the gap repair brings it back.
LeftBehind(b) ==
  /\ b \notin stored
  /\ \E m \in stored : b < m
  /\ \A w \in Workers : pc[w] # "idle" => b <= latest[w]

LeftForGood == [][\A b \in Bar : LeftBehind(b) => LeftBehind(b)']_vars

\* Every bar is stored, or passed, once it has closed.
CatchesUp ==
  \A b \in Bar : now > b ~> (\E m \in stored : m >= b)

\* Only closed candles are written; the bar that is open when it is fetched is
\* dropped.
ClosedOnly == early = {}
=============================================================================
