--------------------------- MODULE MarketSelection ---------------------------
(***************************************************************************)
(* The trading universe: versions that a pipeline run publishes, copies    *)
(* from the last published one when it cannot select, and that a daily     *)
(* cleanup deletes.  The DAG runs the pipeline every four hours, with      *)
(* retries; an operator may run it by hand at the same time.               *)
(*                                                                         *)
(* A version is named by ts_eval, the newest bar all timeframes have, so   *)
(* two runs over the same bars write the same version.  Scores are an      *)
(* input: which symbols have one, and which of them are stable and without *)
(* critical flags.  Regime and per-timeframe score rows are left out: no   *)
(* later decision reads them, except a stale regime.                       *)
(***************************************************************************)
EXTENDS Integers, FiniteSets

CONSTANTS
  Runners,     \* runs of the pipeline that may be under way at once
  Scheduled,   \* those of them that belong to the DAG
  Symbols,
  TopN,        \* symbols selected at most
  SoftMin,     \* a smaller selection is not published
  MinHistory,  \* published scores a symbol needs to be selected for its own
  Window,      \* days a published score counts for that history
  Keep,        \* days a version is kept
  Horizon      \* bound on the clock, in days

ASSUME SelectionConstants ==
  /\ Scheduled \subseteq Runners
  /\ IsFiniteSet(Symbols)
  /\ TopN \in Nat /\ SoftMin \in 1..TopN
  /\ MinHistory \in Nat \ {0}
  /\ Window \in Nat /\ Keep \in Nat /\ Window <= Keep
  /\ Horizon \in Nat

VARIABLES
  now,        \* the wall clock
  newest,     \* the newest bar that all timeframes have
  whitelist,  \* config: symbols to force-include
  versions,   \* rows of market_universe_versions, by ts_version
  entries,    \* symbols in market_universe, by ts_version
  listed,     \* history: symbols that were on the whitelist
  pc, ts, pick, source   \* each run: where it is, its version, its selection
                         \* and the version it copies

configVars == <<whitelist, listed>>
tableVars  == <<versions, entries>>
runVars    == <<pc, ts, pick, source>>
vars == <<now, newest, configVars, tableVars, runVars>>

Time == 0..Horizon
Absent == [status |-> "absent", size |-> 0, created |-> 0]
Row == [status : {"published", "fallback_prev"}, size : 0..TopN, created : Time]

TypeOK ==
  /\ now \in Time /\ newest \in Time
  /\ whitelist \subseteq Symbols /\ listed \subseteq Symbols
  /\ versions \in [Time -> Row \cup {Absent}]
  /\ entries \in [Time -> SUBSET Symbols]
  /\ pc \in [Runners -> {"idle", "select", "publish", "copy", "written"}]
  /\ ts \in [Runners -> Time]
  /\ pick \in [Runners -> SUBSET Symbols]
  /\ \A r \in Runners : Cardinality(pick[r]) <= TopN
  /\ source \in [Runners -> Time]

Init ==
  /\ now = 0 /\ newest = 0
  /\ whitelist \in SUBSET Symbols /\ listed = whitelist
  /\ versions = [v \in Time |-> Absent] /\ entries = [v \in Time |-> {}]
  /\ pc = [r \in Runners |-> "idle"] /\ ts = [r \in Runners |-> 0]
  /\ pick = [r \in Runners |-> {}] /\ source = [r \in Runners |-> 0]

-----------------------------------------------------------------------------
(* Queries.                                                                *)

Published == {v \in Time : versions[v].status = "published"}

Latest(some) == {v \in some : \A w \in some : w <= v}

\* PREVIOUS_UNIVERSE_SQL ends in LIMIT 1: one symbol of the newest published
\* version, whichever the database returns.
Previous ==
  {{s} : s \in UNION {entries[v] : v \in Latest({w \in Published : entries[w] # {}})}}

\* Mutated form: copied versions count for the history too.
ScoresOfAll(s) ==
  {v \in Time : versions[v].status # "absent" /\ s \in entries[v]
                /\ versions[v].created > now - Window}

\* The symbol's scores in published versions of the last days.
Scores(s) ==
  {v \in Published : s \in entries[v] /\ versions[v].created > now - Window}

Known == {s \in Symbols : Cardinality(Scores(s)) >= MinHistory}

-----------------------------------------------------------------------------
(* select_universe.                                                        *)

\* Mutated form: a short history is no obstacle.
PrimaryNoHistory(sound) == sound

\* Sound symbols with a history, or on the whitelist.
Primary(sound) == sound \cap (whitelist \cup Known)

\* Mutated form: the previous universe is let in on top of a full selection.
SelectionsOverfull(scored, sound, previous) ==
  {some \cup ((scored \cap previous) \ whitelist) :
     some \in {few \in SUBSET Primary(sound) : Cardinality(few) <= TopN}}

\* The best TopN of the primary candidates; with slots left, those of the
\* previous universe that are scored but not primary, nor on the whitelist.
Selections(scored, sound, previous) ==
  IF Cardinality(Primary(sound)) >= TopN
  THEN {some \in SUBSET Primary(sound) : Cardinality(some) = TopN}
  ELSE {Primary(sound) \cup ((scored \cap previous) \ whitelist)}

-----------------------------------------------------------------------------
(* One run of the pipeline.                                                *)

\* resolve_ts_eval; the scores are computed and stored per timeframe.
Begin(r) ==
  /\ pc[r] = "idle"
  /\ pc' = [pc EXCEPT ![r] = "select"]
  /\ ts' = [ts EXCEPT ![r] = newest]
  /\ UNCHANGED <<now, newest, configVars, tableVars, pick, source>>

\* A large enough selection is on its way to be published.
Select(r) ==
  /\ pc[r] = "select"
  /\ \E sound \in SUBSET Symbols : \E scored \in SUBSET Symbols :
     \E previous \in Previous \cup {{}} :
       /\ sound \subseteq scored
       /\ previous = {} => Previous = {}
       /\ \E some \in Selections(scored, sound, previous) :
            /\ Cardinality(some) >= SoftMin
            /\ pick' = [pick EXCEPT ![r] = some]
  /\ pc' = [pc EXCEPT ![r] = "publish"]
  /\ UNCHANGED <<now, newest, configVars, tableVars, ts, source>>

\* No scores, an outage of the senior timeframes or a small selection: the last
\* published version is looked up, before the write lock is taken.
Resort(r) ==
  /\ pc[r] = "select"
  /\ \E v \in Latest(Published) : source' = [source EXCEPT ![r] = v]
  /\ pc' = [pc EXCEPT ![r] = "copy"]
  /\ UNCHANGED <<now, newest, configVars, tableVars, ts, pick>>

\* The pipeline returns; what it knew is gone.
Leave(r, next) ==
  /\ pc' = [pc EXCEPT ![r] = next] /\ ts' = [ts EXCEPT ![r] = 0]
  /\ pick' = [pick EXCEPT ![r] = {}] /\ source' = [source EXCEPT ![r] = 0]

\* insert_universe_version: an upsert that leaves created_at alone.
Upsert(v, status, size) ==
  versions' = [versions EXCEPT ![v] =
    [status |-> status, size |-> size,
     created |-> IF @.status = "absent" THEN now ELSE @.created]]

\* publish_success, one transaction under the version's lock.  Symbols of an
\* earlier run of the same version stay.
Publish(r) ==
  /\ pc[r] = "publish"
  /\ Upsert(ts[r], "published", Cardinality(pick[r]))
  /\ entries' = [entries EXCEPT ![ts[r]] = @ \cup pick[r]]
  /\ Leave(r, "written")
  /\ UNCHANGED <<now, newest, configVars>>

\* Mutated form: the row copied from need not exist any more.
CopyBlindly(r) ==
  /\ pc[r] = "copy"
  /\ Upsert(ts[r], "fallback_prev", 0)
  /\ entries' = [entries EXCEPT ![ts[r]] = @ \cup entries[source[r]]]
  /\ Leave(r, "written")
  /\ UNCHANGED <<now, newest, configVars>>

\* handle_fallback, one transaction under the version's lock; the size stays 0.
\* The foreign key of source_version refuses a source that was cleaned up.
Copy(r) ==
  /\ pc[r] = "copy"
  /\ source[r] = ts[r] \/ versions[source[r]].status # "absent"
  /\ Upsert(ts[r], "fallback_prev", 0)
  /\ entries' = [entries EXCEPT ![ts[r]] = @ \cup entries[source[r]]]
  /\ Leave(r, "written")
  /\ UNCHANGED <<now, newest, configVars>>

\* No features, no version to copy, a source that is gone, a lock timeout, a
\* database outage, a kill; or the run is over.
End(r) ==
  /\ pc[r] # "idle"
  /\ Leave(r, "idle")
  /\ UNCHANGED <<now, newest, configVars, tableVars>>

Old(v) == versions[v].status # "absent" /\ versions[v].created < now - Keep

\* Mutated form: the entries of versions that are just within the period go too.
CleanupEarly(r) ==
  /\ pc[r] = "written" /\ r \in Scheduled
  /\ entries' = [v \in Time |-> IF versions[v].created <= now - Keep THEN {} ELSE entries[v]]
  /\ versions' = [v \in Time |-> IF Old(v) THEN Absent ELSE versions[v]]
  /\ Leave(r, "idle")
  /\ UNCHANGED <<now, newest, configVars>>

\* cleanup_old_data, after the successful run of the slot at midnight.
Cleanup(r) ==
  /\ pc[r] = "written" /\ r \in Scheduled
  /\ entries' = [v \in Time |-> IF Old(v) THEN {} ELSE entries[v]]
  /\ versions' = [v \in Time |-> IF Old(v) THEN Absent ELSE versions[v]]
  /\ Leave(r, "idle")
  /\ UNCHANGED <<now, newest, configVars>>

-----------------------------------------------------------------------------
(* Surroundings.                                                           *)

\* Assumption: no run lasts, and no bar is late, as long as a version is kept.
Punctual ==
  /\ now' - Keep <= newest'
  /\ \A r \in Runners :
       pc[r] \in {"select", "publish", "copy"} => now' - Keep <= ts[r]

\* Time passes, and bars arrive or are late.
Tick ==
  /\ now < Horizon
  /\ now' = now + 1
  /\ \E t \in newest..now' : newest' = t
  /\ Punctual
  /\ UNCHANGED <<configVars, tableVars, runVars>>

\* A new configuration is deployed while no run is under way.
Deploy ==
  /\ \A r \in Runners : pc[r] = "idle"
  /\ \E some \in SUBSET Symbols : whitelist' = some /\ listed' = listed \cup some
  /\ UNCHANGED <<now, newest, tableVars, runVars>>

Next ==
  \/ \E r \in Runners :
       Begin(r) \/ Select(r) \/ Resort(r) \/ Publish(r) \/ Copy(r)
       \/ Cleanup(r) \/ End(r)
  \/ Tick \/ Deploy

Spec == Init /\ [][Next]_vars

-----------------------------------------------------------------------------
\* A published version is large enough and holds at least the symbols its size
\* says, whichever runs wrote to it, in whatever order, and whatever the cleanup
\* deleted around it.
PublishedIsWhole ==
  \A v \in Published :
    /\ versions[v].size >= SoftMin
    /\ versions[v].size <= Cardinality(entries[v])

\* A version is never empty, fallbacks included, although the source is looked up
\* outside the lock and the cleanup may delete it before it is copied.
NoEmptyUniverse == \A v \in Time : versions[v].status # "absent" => entries[v] # {}

\* Only what was on the whitelist once is ever in a universe: the history that a
\* newcomer lacks is a history of having been in it.
OnlyTheListed == \A v \in Time : entries[v] \subseteq listed

\* Too few symbols have a history, or stand on the whitelist, for a selection to
\* be large enough, and none is about to be published.
Starved ==
  /\ Cardinality(whitelist \cup Known) + 1 < SoftMin
  /\ \A r \in Runners : pc[r] # "publish"

\* There is no way back from that, whatever the scores are, while the whitelist
\* stays: a pause in publishing longer than the window is for good.
StarvedForGood == [][Starved /\ whitelist' = whitelist => Starved']_vars
=============================================================================
