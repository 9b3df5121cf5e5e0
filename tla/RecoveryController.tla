-------------------------- MODULE RecoveryController --------------------------
(***************************************************************************)
(* The DAG pipeline_recovery_controller: every 30 minutes, one run at a    *)
(* time, it looks at the state of all (symbol, timeframe) pairs and may    *)
(* start one run of the bootstrap DAG or of the repair DAG.                *)
(*                                                                         *)
(* Decision rows are abstracted to their ages: nothing reads a row that is *)
(* not "triggered", so a row counts from the moment it is marked so.       *)
(* Rows of candidates that are not the first one never are.                *)
(***************************************************************************)
EXTENDS Integers, FiniteSets

CONSTANTS
  Pairs,       \* (symbol, timeframe) pairs, with live instruments or without
  Cooldown,    \* cooldown_minutes, in ticks
  MaxRetries,  \* retries of a controller task
  MaxLosses,   \* bound on the number of times bars go missing
  MaxByHand,   \* bound on the target runs operators have under way
  WorkersDie   \* TRUE: a task may be killed between any two steps

ASSUME ControllerConstants ==
  /\ Cooldown \in Nat /\ MaxRetries \in Nat /\ MaxLosses \in Nat
  /\ MaxByHand \in Nat /\ WorkersDie \in BOOLEAN

Kinds == {"bootstrap", "repair"}

VARIABLES
  status,    \* bootstrap state rows; "todo" is any status that needs action
  lack,      \* bars a pair lacks: none, old ones, or some of the last hours
  losses,    \* times bars went missing so far
  open,      \* queued and running runs of the two target DAGs
  cool,      \* age of the newest row marked "triggered", per kind and pair
  since,     \* history: age of the newest decision whose run was started
  unmarked,  \* history: where that decision's row does not say "triggered"
  pc,        \* where the controller run is
  busy,      \* active target DAGs, as the run has read them
  boots,     \* bootstrap candidates that need action and may have it
  repairs,   \* repair candidates that pass the guardrails
  chosen,    \* the first triggered decision of the run
  launched,  \* a DagRun with the decision's run id exists
  attempts   \* retries of the trigger task

pairVars == <<status, lack, losses>>
runVars  == <<pc, busy, boots, repairs, chosen, launched, attempts>>
history  == <<since, unmarked>>
vars == <<pairVars, open, cool, history, runVars>>

Age == 0..(Cooldown + 1)
Decision == [kind : Kinds, pair : Pairs, age : Age]
NoDecision == [kind |-> "none"]
TargetRun == [kind : Kinds, pair : Pairs, by : {"controller", "operator"},
              state : {"queued", "running"}]

TypeOK ==
  /\ status \in [Pairs -> {"todo", "running", "completed"}]
  /\ lack \in [Pairs -> {"none", "old", "recent"}]
  /\ losses \in 0..MaxLosses
  /\ open \subseteq TargetRun
  /\ cool \in [Kinds -> [Pairs -> Age]] /\ since \in [Kinds -> [Pairs -> Age]]
  /\ unmarked \subseteq Kinds \X Pairs
  /\ pc \in {"idle", "coverage", "precheck", "decide", "trigger", "mark", "failed"}
  /\ busy \subseteq Kinds /\ boots \subseteq Pairs /\ repairs \subseteq Pairs
  /\ launched \in BOOLEAN
  /\ chosen \in Decision \cup {NoDecision}
  /\ pc \in {"trigger", "mark", "failed"} <=> chosen # NoDecision
  /\ attempts \in 0..MaxRetries

Init ==
  /\ status = [p \in Pairs |-> "todo"] /\ lack = [p \in Pairs |-> "old"]
  /\ losses = 0 /\ open = {}
  /\ cool = [k \in Kinds |-> [p \in Pairs |-> Cooldown + 1]]
  /\ since = [k \in Kinds |-> [p \in Pairs |-> Cooldown + 1]] /\ unmarked = {}
  /\ pc = "idle" /\ busy = {} /\ boots = {} /\ repairs = {}
  /\ chosen = NoDecision /\ launched = FALSE /\ attempts = 0

-----------------------------------------------------------------------------
(* Time, the candle table and the target DAGs.                             *)

Older(a) == IF a > Cooldown THEN a ELSE a + 1

OlderAll(ages) == [k \in Kinds |-> [p \in Pairs |-> Older(ages[k][p])]]

Tick ==
  /\ cool' = OlderAll(cool) /\ since' = OlderAll(since)
  /\ chosen' = IF chosen = NoDecision THEN chosen
               ELSE [chosen EXCEPT !.age = Older(@)]
  /\ UNCHANGED <<pairVars, open, unmarked, pc, busy, boots, repairs, launched,
                 attempts>>

\* Bars go missing, of the last hours or older ones.
LoseBars(p) ==
  /\ losses < MaxLosses
  /\ losses' = losses + 1
  /\ \E l \in {"old", "recent"} : lack' = [lack EXCEPT ![p] = l]
  /\ UNCHANGED <<status, open, cool, history, runVars>>

GapAges(p) ==
  /\ lack[p] = "recent"
  /\ lack' = [lack EXCEPT ![p] = "old"]
  /\ UNCHANGED <<status, losses, open, cool, history, runVars>>

Run(kind, p, by) == [kind |-> kind, pair |-> p, by |-> by, state |-> "queued"]

StartByHand(kind, p) ==
  /\ Cardinality({r \in open : r.by = "operator"}) < MaxByHand
  /\ \A r \in open : r.by = "controller" \/ r.kind # kind \/ r.pair # p
  /\ open' = open \cup {Run(kind, p, "operator")}
  /\ UNCHANGED <<pairVars, cool, history, runVars>>

\* Each target DAG has max_active_runs=1.  A bootstrap run skips a pair that is
\* completed and lacks nothing, and marks any other "running".
RunBegins(r) ==
  /\ r.state = "queued"
  /\ \A s \in open : s.kind = r.kind => s.state = "queued"
  /\ open' = (open \ {r}) \cup {[r EXCEPT !.state = "running"]}
  /\ status' = IF r.kind = "bootstrap"
                  /\ (status[r.pair] # "completed" \/ lack[r.pair] # "none")
               THEN [status EXCEPT ![r.pair] = "running"] ELSE status
  /\ UNCHANGED <<lack, losses, cool, history, runVars>>

BootstrapCures(r) ==
  /\ r.state = "running" /\ r.kind = "bootstrap"
  /\ open' = open \ {r}
  /\ status' = [status EXCEPT ![r.pair] = "completed"]
  /\ lack' = [lack EXCEPT ![r.pair] = "none"]
  /\ UNCHANGED <<losses, cool, history, runVars>>

\* The run stops short of the target: the pair is incomplete or stuck.
BootstrapFails(r) ==
  /\ r.state = "running" /\ r.kind = "bootstrap"
  /\ open' = open \ {r}
  /\ status' = IF status[r.pair] = "running"
               THEN [status EXCEPT ![r.pair] = "todo"] ELSE status
  /\ UNCHANGED <<lack, losses, cool, history, runVars>>

\* A repair may fill the gaps of its window, the last hours, or fail to.
RepairEnds(r) ==
  /\ r.state = "running" /\ r.kind = "repair"
  /\ open' = open \ {r}
  /\ \/ lack[r.pair] = "recent" /\ lack' = [lack EXCEPT ![r.pair] = "none"]
     \/ UNCHANGED lack
  /\ UNCHANGED <<status, losses, cool, history, runVars>>

\* A killed run leaves the state row of its pair as it is.
RunKilled(r) ==
  /\ WorkersDie
  /\ open' = open \ {r}
  /\ UNCHANGED <<pairVars, cool, history, runVars>>

-----------------------------------------------------------------------------
(* Task collect_recovery_state.                                            *)

ActiveKinds == {r.kind : r \in open}

EndRun ==
  /\ pc' = "idle" /\ busy' = {} /\ boots' = {} /\ repairs' = {}
  /\ chosen' = NoDecision /\ launched' = FALSE /\ attempts' = 0

\* _get_active_dagrun_states, the first thing that is read of what may move.
Observe ==
  /\ pc = "idle"
  /\ busy' = ActiveKinds
  /\ pc' = "coverage"
  /\ UNCHANGED <<pairVars, open, cool, history, boots, repairs, chosen,
                 launched, attempts>>

\* Fail closed: the query failed and both DAGs count as active, or OKX does not
\* answer; the bootstrap states are reconciled all the same.
ObserveFails ==
  /\ pc = "idle"
  /\ busy' = Kinds
  /\ pc' = "coverage"
  /\ UNCHANGED <<pairVars, open, cool, history, boots, repairs, chosen,
                 launched, attempts>>

\* Mutated form: a reconcile that never finds a completed pair short.
NoneDowngradable == {}

Downgradable == {p \in Pairs : status[p] = "completed" /\ lack[p] # "none"}

Downgrade(some) == [p \in Pairs |-> IF p \in some THEN "todo" ELSE status[p]]

\* The coverage report is read first: what the reconcile then downgrades is not
\* a candidate of this run.
CollectBootstrap(live) ==
  /\ pc = "coverage"
  /\ boots' = {p \in live : status[p] = "todo"}
  /\ status' = Downgrade(Downgradable)
  /\ pc' = "precheck"
  /\ UNCHANGED <<lack, losses, open, cool, history, busy, repairs, chosen,
                 launched, attempts>>

\* Its failure is logged; the run goes on without bootstrap candidates.
CollectBootstrapFails ==
  /\ pc = "coverage"
  /\ \E some \in SUBSET Downgradable : status' = Downgrade(some)
  /\ pc' = "precheck"
  /\ UNCHANGED <<lack, losses, open, cool, history, busy, boots, repairs, chosen,
                 launched, attempts>>

\* Pairs whose precheck fails, whose guardrail risk is not "ok" or whose
\* instrument is not live are left out.
CollectRepair ==
  /\ pc = "precheck"
  /\ \E found \in SUBSET {p \in Pairs : lack[p] = "recent"} : repairs' = found
  /\ pc' = "decide"
  /\ UNCHANGED <<pairVars, open, cool, history, busy, boots, chosen,
                 launched, attempts>>

-----------------------------------------------------------------------------
(* choose_recovery_actions; tasks choose_recovery_action and branch.       *)

\* Mutated form: a kind conflicts with itself only.
NoConflictWithItself(kind) == kind \notin busy

\* Each kind is held back by an active run of either.
NoConflict(kind) == "repair" \notin busy /\ "bootstrap" \notin busy

\* Mutated form: the cooldown of repairs is looked at for both kinds.
FreeOfRepairs(kind, candidates) ==
  {p \in candidates : NoConflict(kind) /\ cool["repair"][p] > Cooldown}

Free(kind, candidates) ==
  {p \in candidates : NoConflict(kind) /\ cool[kind][p] > Cooldown}

Choose(kind, p) ==
  /\ chosen' = [kind |-> kind, pair |-> p, age |-> 0]
  /\ pc' = "trigger"
  /\ busy' = {} /\ boots' = {} /\ repairs' = {}
  /\ UNCHANGED <<pairVars, open, cool, history, launched, attempts>>

\* Bootstrap decisions come first in the list, and the first one is executed.
ChooseBootstrap ==
  /\ pc = "decide"
  /\ \E p \in Free("bootstrap", boots) : Choose("bootstrap", p)

ChooseRepair ==
  /\ pc = "decide"
  /\ Free("bootstrap", boots) = {}
  /\ \E p \in Free("repair", repairs) : Choose("repair", p)

SkipRecovery ==
  /\ pc = "decide"
  /\ Free("bootstrap", boots) = {} /\ Free("repair", repairs) = {}
  /\ EndRun
  /\ UNCHANGED <<pairVars, open, cool, history>>

-----------------------------------------------------------------------------
(* Tasks trigger_bootstrap and trigger_repair.                             *)

\* The run id is made from the decision id: Airflow refuses it a second time.
Launch ==
  /\ pc = "trigger" /\ ~launched
  /\ open' = open \cup {Run(chosen.kind, chosen.pair, "controller")}
  /\ since' = [since EXCEPT ![chosen.kind][chosen.pair] = chosen.age]
  /\ unmarked' = unmarked \cup {<<chosen.kind, chosen.pair>>}
  /\ launched' = TRUE
  /\ pc' = "mark"
  /\ UNCHANGED <<pairVars, cool, busy, boots, repairs, chosen, attempts>>

LaunchFails ==
  /\ pc = "trigger"
  /\ pc' = "failed"
  /\ UNCHANGED <<pairVars, open, cool, history, busy, boots, repairs,
                 chosen, launched, attempts>>

\* Mutated form: the chosen row stays a candidate.
MarkNothing ==
  /\ pc = "mark"
  /\ EndRun
  /\ UNCHANGED <<pairVars, open, cool, history>>

\* The row becomes "triggered"; its created_at is the time of the decision.
MarkTriggered ==
  /\ pc = "mark"
  /\ cool' = [cool EXCEPT ![chosen.kind][chosen.pair] = chosen.age]
  /\ unmarked' = unmarked \ {<<chosen.kind, chosen.pair>>}
  /\ EndRun
  /\ UNCHANGED <<pairVars, open, since>>

\* Mutated form: one retry too many.
RetryOnceMore ==
  IF attempts <= MaxRetries
  THEN /\ pc' = "trigger" /\ attempts' = attempts + 1
       /\ UNCHANGED <<busy, boots, repairs, chosen, launched>>
  ELSE EndRun

RetryTask ==
  IF attempts < MaxRetries
  THEN /\ pc' = "trigger" /\ attempts' = attempts + 1
       /\ UNCHANGED <<busy, boots, repairs, chosen, launched>>
  ELSE EndRun

\* The row becomes "trigger_failed" and the task raises.
MarkFailed ==
  /\ pc = "failed"
  /\ RetryTask
  /\ UNCHANGED <<pairVars, open, cool, history>>

\* A task is killed, or its write to the decision table fails.  A trigger task
\* is tried again with the same decision, a collect task from its beginning.
\* One that is killed behind its mark comes to the same as before it: the retry
\* is refused the run id and makes the row "trigger_failed".
TaskDies ==
  /\ WorkersDie
  /\ \/ pc \in {"coverage", "precheck", "decide"} /\ EndRun
     \/ pc \in {"trigger", "mark", "failed"} /\ RetryTask
  /\ UNCHANGED <<pairVars, open, cool, history>>

-----------------------------------------------------------------------------
TargetStep ==
  \E r \in open :
    RunBegins(r) \/ BootstrapCures(r) \/ BootstrapFails(r) \/ RepairEnds(r)
    \/ RunKilled(r)

ControllerStep ==
  \/ Observe \/ ObserveFails
  \/ \E live \in SUBSET Pairs : CollectBootstrap(live)
  \/ CollectBootstrapFails \/ CollectRepair
  \/ ChooseBootstrap \/ ChooseRepair \/ SkipRecovery
  \/ Launch \/ LaunchFails \/ MarkTriggered \/ MarkFailed \/ TaskDies

Next ==
  \/ Tick
  \/ \E p \in Pairs : LoseBars(p) \/ GapAges(p)
  \/ \E kind \in Kinds, p \in Pairs : StartByHand(kind, p)
  \/ TargetStep \/ ControllerStep

Spec == Init /\ [][Next]_vars

\* Inspects all pairs, the exchange and the active runs without a failure.
InspectsAll ==
  /\ pc = "idle" /\ pc' = "coverage" => Observe
  /\ pc = "coverage" /\ pc' = "precheck" => CollectBootstrap(Pairs)

\* The schedule starts one run after another, every step of a run ends, and no
\* trigger, and no backfill of a pair, fails for ever; from some moment on the
\* exchange and the database answer and the instruments are live.
FairSpec ==
  /\ Spec
  /\ <>[][InspectsAll]_vars
  /\ WF_vars(Tick) /\ WF_vars(Observe)
  /\ WF_vars(\E live \in SUBSET Pairs : CollectBootstrap(live))
  /\ WF_vars(CollectRepair)
  /\ WF_vars(ChooseBootstrap \/ ChooseRepair \/ SkipRecovery)
  /\ SF_vars(Launch) /\ WF_vars(MarkTriggered) /\ WF_vars(MarkFailed)
  /\ WF_vars(\E r \in open : RunBegins(r))
  /\ WF_vars(\E r \in open : BootstrapCures(r) \/ BootstrapFails(r) \/ RepairEnds(r))
  /\ \A p \in Pairs : SF_vars(\E r \in open : r.pair = p /\ BootstrapCures(r))

-----------------------------------------------------------------------------
\* The controller never has two recovery runs under way, whatever it lost
\* between its look at the active runs, the trigger and the mark.
OneRecoveryRun ==
  \A r, s \in open : r.by = "controller" /\ s.by = "controller" => r = s

\* Recovery as the rest of the pipeline sees it: the next run of the controller
\* is launched only after the last one is over, of whichever kind and pair.
Recovery == INSTANCE Lease
              WITH holder <- {<<r.kind, r.pair>> : r \in {o \in open : o.by = "controller"}},
                   Holders <- {{<<k, p>>} : k \in Kinds, p \in Pairs}, Nobody <- {}
RecoverySpec == Recovery!LSpec

\* A pair is chosen only when the run its last effective decision of the same
\* kind started is out of the cooldown window.
CooldownKept ==
  [][chosen = NoDecision /\ chosen' # NoDecision
       => since[chosen'.kind][chosen'.pair] > Cooldown]_vars

\* With tasks that are killed there is one way round the cooldown: the decision
\* whose run was started last is not on record, its mark was lost or overwritten
\* by the mark of a retry.
EarlyIsUnmarked ==
  [][chosen = NoDecision /\ chosen' # NoDecision
       => \/ since[chosen'.kind][chosen'.pair] > Cooldown
          \/ <<chosen'.kind, chosen'.pair>> \in unmarked]_vars

\* Once bars stop going missing, every pair is completed and lacks nothing.
Recovers ==
  \A p \in Pairs :
    (status[p] # "completed" \/ lack[p] # "none")
      ~> (status[p] = "completed" /\ lack[p] = "none")

\* A pair whose status is "running" is actively running.
RunningIsRun ==
  \A p \in Pairs : status[p] = "running" =>
    \E r \in open : r.kind = "bootstrap" /\ r.pair = p
=============================================================================
