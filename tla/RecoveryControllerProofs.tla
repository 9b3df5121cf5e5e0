---------------------- MODULE RecoveryControllerProofs ----------------------
(***************************************************************************)
(* What holds of RecoveryController for every set of pairs, cooldown and   *)
(* retry limit.                                                            *)
(***************************************************************************)
EXTENDS RecoveryController, TLAPS

Undecided == {"coverage", "precheck", "decide"}

-----------------------------------------------------------------------------
(* Types.                                                                  *)

LEMMA OlderAge == \A a \in Age : Older(a) \in Age
BY ControllerConstants DEF Age, Older

\* The end of a run leaves its variables well typed.
LEMMA EndRunTypes ==
  ASSUME TypeOK, EndRun, UNCHANGED <<pairVars, open>>,
         cool' \in [Kinds -> [Pairs -> Age]], since' \in [Kinds -> [Pairs -> Age]],
         unmarked' \subseteq Kinds \X Pairs
  PROVE  TypeOK'
<1>1. status' = status /\ lack' = lack /\ losses' = losses /\ open' = open
  BY DEF pairVars
<1>2. chosen' \in Decision \cup {NoDecision}
      /\ (pc' \in {"trigger", "mark", "failed"} <=> chosen' # NoDecision)
  BY DEF EndRun
<1>3. pc' = "idle" /\ busy' = {} /\ boots' = {} /\ repairs' = {}
      /\ launched' = FALSE /\ attempts' \in 0..MaxRetries
  BY ControllerConstants DEF EndRun
<1>4. QED
  BY <1>1, <1>2, <1>3 DEF TypeOK

\* The steps of the candle table, the operators and the target DAGs.
LEMMA PipelineTypes ==
  ASSUME TypeOK,
         \/ \E p \in Pairs : LoseBars(p) \/ GapAges(p)
         \/ \E kind \in Kinds, p \in Pairs : StartByHand(kind, p)
         \/ TargetStep
  PROVE  TypeOK'
<1> USE DEF TypeOK, pairVars, history, runVars
<1>1. ASSUME NEW p \in Pairs, LoseBars(p) PROVE TypeOK'
  BY <1>1, ControllerConstants DEF LoseBars
<1>2. ASSUME NEW p \in Pairs, GapAges(p) PROVE TypeOK'
  BY <1>2 DEF GapAges
<1>3. ASSUME NEW kind \in Kinds, NEW p \in Pairs, StartByHand(kind, p) PROVE TypeOK'
  BY <1>3 DEF StartByHand, Run, TargetRun
<1>4. ASSUME NEW r \in open, RunBegins(r) PROVE TypeOK'
  <2>1. r \in TargetRun /\ [r EXCEPT !.state = "running"] \in TargetRun
    BY DEF TargetRun
  <2>2. open' \subseteq TargetRun
    BY <1>4, <2>1 DEF RunBegins
  <2>3. status' \in [Pairs -> {"todo", "running", "completed"}]
    BY <1>4, <2>1 DEF RunBegins, TargetRun
  <2>4. QED
    BY <1>4, <2>2, <2>3 DEF RunBegins
<1>5. ASSUME NEW r \in open, BootstrapCures(r) PROVE TypeOK'
  BY <1>5 DEF BootstrapCures, TargetRun
<1>6. ASSUME NEW r \in open, BootstrapFails(r) PROVE TypeOK'
  BY <1>6 DEF BootstrapFails, TargetRun
<1>7. ASSUME NEW r \in open, RepairEnds(r) PROVE TypeOK'
  BY <1>7 DEF RepairEnds, TargetRun
<1>8. ASSUME NEW r \in open, RunKilled(r) PROVE TypeOK'
  BY <1>8 DEF RunKilled
<1>9. QED
  BY <1>1, <1>2, <1>3, <1>4, <1>5, <1>6, <1>7, <1>8 DEF TargetStep

LEMMA TickTypes == TypeOK /\ Tick => TypeOK'
<1> SUFFICES ASSUME TypeOK, Tick PROVE TypeOK'
  OBVIOUS
<1>1. \A ages \in [Kinds -> [Pairs -> Age]] : OlderAll(ages) \in [Kinds -> [Pairs -> Age]]
  BY OlderAge DEF OlderAll
<1>2. cool' \in [Kinds -> [Pairs -> Age]] /\ since' \in [Kinds -> [Pairs -> Age]]
  BY <1>1 DEF Tick, TypeOK
<1>3. chosen' \in Decision \cup {NoDecision} /\ (chosen' = NoDecision <=> chosen = NoDecision)
  <2>1. CASE chosen = NoDecision
    BY <2>1 DEF Tick
  <2>2. CASE chosen # NoDecision
    <3>1. chosen \in Decision /\ chosen' = [chosen EXCEPT !.age = Older(@)]
      BY <2>2 DEF Tick, TypeOK
    <3>2. chosen' \in Decision /\ chosen'.kind \in Kinds
      BY <3>1, OlderAge DEF Decision
    <3>3. QED
      BY <2>2, <3>2 DEF NoDecision, Kinds
  <2>3. QED
    BY <2>1, <2>2
<1>4. QED
  BY <1>2, <1>3 DEF Tick, TypeOK, pairVars, history

LEMMA ControllerTypes == TypeOK /\ ControllerStep => TypeOK'
<1> SUFFICES ASSUME TypeOK, ControllerStep PROVE TypeOK'
  OBVIOUS
<1> USE DEF history
<1>1. ASSUME Observe \/ ObserveFails PROVE TypeOK'
  BY <1>1 DEF Observe, ObserveFails, ActiveKinds, TypeOK, pairVars, TargetRun
<1>2. ASSUME NEW live \in SUBSET Pairs, CollectBootstrap(live) PROVE TypeOK'
  BY <1>2 DEF CollectBootstrap, Downgrade, TypeOK
<1>3. ASSUME CollectBootstrapFails PROVE TypeOK'
  BY <1>3 DEF CollectBootstrapFails, Downgrade, TypeOK
<1>4. ASSUME CollectRepair PROVE TypeOK'
  BY <1>4 DEF CollectRepair, TypeOK, pairVars
<1>5. ASSUME NEW kind \in Kinds, NEW p \in Pairs, Choose(kind, p) PROVE TypeOK'
  <2>1. chosen' \in Decision /\ chosen' # NoDecision
    BY <1>5, ControllerConstants DEF Choose, Decision, NoDecision, Age, Kinds
  <2>2. QED
    BY <1>5, <2>1 DEF Choose, TypeOK, pairVars
<1>6. ASSUME ChooseBootstrap PROVE TypeOK'
  BY <1>5, <1>6 DEF ChooseBootstrap, Free, TypeOK, Kinds
<1>7. ASSUME ChooseRepair PROVE TypeOK'
  BY <1>5, <1>7 DEF ChooseRepair, Free, TypeOK, Kinds
<1>8. ASSUME SkipRecovery PROVE TypeOK'
  BY <1>8, EndRunTypes DEF SkipRecovery, TypeOK, pairVars
<1>9. ASSUME Launch PROVE TypeOK'
  <2>1. chosen \in Decision
    BY <1>9 DEF Launch, TypeOK
  <2>2. Run(chosen.kind, chosen.pair, "controller") \in TargetRun
    BY <2>1 DEF Run, TargetRun, Decision
  <2>3. since' \in [Kinds -> [Pairs -> Age]]
    BY <1>9, <2>1 DEF Launch, Decision, TypeOK
  <2>4. unmarked' \subseteq Kinds \X Pairs
    BY <1>9, <2>1 DEF Launch, Decision, TypeOK
  <2>5. QED
    BY <1>9, <2>2, <2>3, <2>4 DEF Launch, TypeOK, pairVars
<1>10. ASSUME LaunchFails PROVE TypeOK'
  BY <1>10 DEF LaunchFails, TypeOK, pairVars
<1>11. ASSUME MarkTriggered PROVE TypeOK'
  <2>1. chosen \in Decision
    BY <1>11 DEF MarkTriggered, TypeOK
  <2>2. cool' \in [Kinds -> [Pairs -> Age]]
    BY <1>11, <2>1 DEF MarkTriggered, Decision, TypeOK
  <2>3. unmarked' \subseteq Kinds \X Pairs
    BY <1>11 DEF MarkTriggered, TypeOK
  <2>4. QED
    BY <1>11, <2>2, <2>3, EndRunTypes DEF MarkTriggered, TypeOK, pairVars
<1>12. ASSUME pc \in {"trigger", "mark", "failed"}, RetryTask,
              UNCHANGED <<pairVars, open, cool, history>>
       PROVE  TypeOK'
  <2>1. CASE attempts < MaxRetries
    BY <1>12, <2>1, ControllerConstants DEF RetryTask, TypeOK, pairVars
  <2>2. CASE ~(attempts < MaxRetries)
    BY <1>12, <2>2, EndRunTypes DEF RetryTask, TypeOK, pairVars
  <2>3. QED
    BY <2>1, <2>2
<1>13. ASSUME MarkFailed PROVE TypeOK'
  BY <1>12, <1>13 DEF MarkFailed
<1>14. ASSUME TaskDies PROVE TypeOK'
  <2>1. CASE EndRun
    BY <1>14, <2>1, EndRunTypes DEF TaskDies, TypeOK, pairVars
  <2>2. CASE pc \in {"trigger", "mark", "failed"} /\ RetryTask
    BY <1>12, <1>14, <2>2 DEF TaskDies
  <2>3. QED
    BY <1>14, <2>1, <2>2 DEF TaskDies
<1>15. QED
  BY <1>1, <1>2, <1>3, <1>4, <1>6, <1>7, <1>8, <1>9, <1>10, <1>11, <1>13, <1>14
  DEF ControllerStep

LEMMA NextTypes == TypeOK /\ [Next]_vars => TypeOK'
<1> SUFFICES ASSUME TypeOK, [Next]_vars PROVE TypeOK'
  OBVIOUS
<1>1. CASE Tick
  BY <1>1, TickTypes
<1>2. CASE \E p \in Pairs : LoseBars(p) \/ GapAges(p)
  BY <1>2, PipelineTypes
<1>3. CASE \E kind \in Kinds, p \in Pairs : StartByHand(kind, p)
  BY <1>3, PipelineTypes
<1>4. CASE TargetStep
  BY <1>4, PipelineTypes
<1>5. CASE ControllerStep
  BY <1>5, ControllerTypes
<1>6. CASE UNCHANGED vars
  BY <1>6 DEF vars, TypeOK, pairVars, history, runVars
<1>7. QED
  BY <1>1, <1>2, <1>3, <1>4, <1>5, <1>6 DEF Next

\* Every variable keeps its type, for every set of pairs, cooldown, number of
\* retries, hand-started runs and losses.
THEOREM RecoveryTypes == Spec => []TypeOK
<1>1. Init => TypeOK
  <2> SUFFICES ASSUME Init PROVE TypeOK
    OBVIOUS
  <2>1. Cooldown + 1 \in Age /\ 0 \in 0..MaxLosses /\ 0 \in 0..MaxRetries
    BY ControllerConstants DEF Age
  <2>2. chosen = NoDecision /\ pc = "idle"
    BY DEF Init
  <2>3. QED
    BY <2>1, <2>2 DEF Init, TypeOK
<1>2. TypeOK /\ [Next]_vars => TypeOK'
  BY NextTypes
<1>3. QED
  BY <1>1, <1>2, PTL DEF Spec

-----------------------------------------------------------------------------
(* One recovery run at a time.                                             *)

Own == {r \in open : r.by = "controller"}

\* Between a look at the active runs that found none and the trigger the
\* controller has no run; a decision that started one starts no other.
SoleInv ==
  /\ OneRecoveryRun
  /\ pc \in Undecided /\ busy = {} => Own = {}
  /\ pc \in {"trigger", "failed"} /\ ~launched => Own = {}
  /\ pc = "mark" => launched

\* Only Launch adds to the controller's runs.
LEMMA OwnShrinks ==
  ASSUME SoleInv, UNCHANGED <<pc, busy, launched>>,
         \A r, s \in Own' : r = s, Own = {} => Own' = {}
  PROVE  SoleInv'
BY DEF SoleInv, OneRecoveryRun, Own, Undecided

LEMMA HandKeepsSole ==
  ASSUME SoleInv, NEW kind \in Kinds, NEW p \in Pairs, StartByHand(kind, p)
  PROVE  SoleInv'
<1>1. Own' = Own
  BY DEF StartByHand, Run, Own
<1>2. QED
  BY <1>1, OwnShrinks DEF StartByHand, runVars, SoleInv, OneRecoveryRun, Own

LEMMA TargetKeepsSole ==
  ASSUME TypeOK, SoleInv, TargetStep
  PROVE  SoleInv'
<1>1. PICK r \in open : RunBegins(r) \/ BootstrapCures(r) \/ BootstrapFails(r)
                        \/ RepairEnds(r) \/ RunKilled(r)
  BY DEF TargetStep
<1>2. \/ open' = open \ {r}
      \/ open' = (open \ {r}) \cup {[r EXCEPT !.state = "running"]}
  BY <1>1 DEF RunBegins, BootstrapCures, BootstrapFails, RepairEnds, RunKilled
<1>3. [r EXCEPT !.state = "running"].by = r.by
  BY DEF TypeOK, TargetRun
<1>4. \A x \in Own' : x \in Own \ {r} \/ (r \in Own /\ x = [r EXCEPT !.state = "running"])
  BY <1>2, <1>3 DEF Own
<1>5. \A x, y \in Own : x = y
  BY DEF SoleInv, OneRecoveryRun, Own
<1>6. (\A x, y \in Own' : x = y) /\ (Own = {} => Own' = {})
  BY <1>4, <1>5
<1>7. UNCHANGED <<pc, busy, launched>>
  BY <1>1 DEF RunBegins, BootstrapCures, BootstrapFails, RepairEnds, RunKilled, runVars
<1>8. QED
  BY <1>6, <1>7, OwnShrinks

LEMMA ControllerKeepsSole ==
  ASSUME TypeOK, SoleInv, ControllerStep
  PROVE  SoleInv'
<1> USE DEF SoleInv, OneRecoveryRun, Own
<1>1. ASSUME Observe PROVE SoleInv'
  BY <1>1 DEF Observe, ActiveKinds
<1>2. ASSUME ObserveFails PROVE SoleInv'
  BY <1>2 DEF ObserveFails, Kinds
<1>3. ASSUME NEW live \in SUBSET Pairs, CollectBootstrap(live) PROVE SoleInv'
  BY <1>3 DEF CollectBootstrap, Undecided
<1>4. ASSUME CollectBootstrapFails PROVE SoleInv'
  BY <1>4 DEF CollectBootstrapFails, Undecided
<1>5. ASSUME CollectRepair PROVE SoleInv'
  BY <1>5 DEF CollectRepair, Undecided
<1>6. ASSUME pc = "decide", NEW kind \in Kinds, NEW candidates,
             NEW p \in Free(kind, candidates), Choose(kind, p)
      PROVE  SoleInv'
  <2>1. busy = {}
    BY <1>6 DEF Free, NoConflict, TypeOK, Kinds
  <2>2. Own = {}
    BY <1>6, <2>1 DEF Undecided
  <2>3. QED
    BY <1>6, <2>2 DEF Choose, Undecided
<1>7. ASSUME ChooseBootstrap \/ ChooseRepair PROVE SoleInv'
  BY <1>6, <1>7 DEF ChooseBootstrap, ChooseRepair, Kinds
<1>8. ASSUME EndRun, UNCHANGED open PROVE SoleInv'
  BY <1>8 DEF EndRun, Undecided
<1>9. ASSUME Launch PROVE SoleInv'
  BY <1>9 DEF Launch, Undecided
<1>10. ASSUME LaunchFails PROVE SoleInv'
  BY <1>10 DEF LaunchFails, Undecided
<1>11. ASSUME pc \in {"trigger", "mark", "failed"}, RetryTask, UNCHANGED open
       PROVE  SoleInv'
  BY <1>8, <1>11 DEF RetryTask, Undecided
<1>12. ASSUME SkipRecovery \/ MarkTriggered \/ MarkFailed \/ TaskDies PROVE SoleInv'
  BY <1>8, <1>11, <1>12 DEF SkipRecovery, MarkTriggered, MarkFailed, TaskDies
<1>13. QED
  BY <1>1, <1>2, <1>3, <1>4, <1>5, <1>7, <1>9, <1>10, <1>12 DEF ControllerStep

LEMMA SoleHolds == Spec => []SoleInv
<1>1. Init => SoleInv
  BY DEF Init, SoleInv, OneRecoveryRun, Own, Undecided
<1>2. TypeOK /\ SoleInv /\ [Next]_vars => SoleInv'
  <2> SUFFICES ASSUME TypeOK, SoleInv, [Next]_vars PROVE SoleInv'
    OBVIOUS
  <2>1. CASE Tick
    BY <2>1 DEF Tick, SoleInv, OneRecoveryRun, Own
  <2>2. CASE \E p \in Pairs : LoseBars(p) \/ GapAges(p)
    BY <2>2 DEF LoseBars, GapAges, SoleInv, OneRecoveryRun, Own, runVars
  <2>3. CASE \E kind \in Kinds, p \in Pairs : StartByHand(kind, p)
    BY <2>3, HandKeepsSole
  <2>4. CASE TargetStep
    BY <2>4, TargetKeepsSole
  <2>5. CASE ControllerStep
    BY <2>5, ControllerKeepsSole
  <2>6. CASE UNCHANGED vars
    BY <2>6 DEF vars, runVars, SoleInv, OneRecoveryRun, Own
  <2>7. QED
    BY <2>1, <2>2, <2>3, <2>4, <2>5, <2>6 DEF Next
<1>3. QED
  BY RecoveryTypes, <1>1, <1>2, PTL DEF Spec

\* At most one recovery run of the controller is under way, whatever operators
\* start and however many tasks are killed, retried or refused.
THEOREM SoleRecovery == Spec => []OneRecoveryRun
<1>1. SoleInv => OneRecoveryRun
  BY DEF SoleInv
<1>2. QED
  BY SoleHolds, <1>1, PTL

-----------------------------------------------------------------------------
(* The slot the controller's runs share.                                   *)

Held == {<<r.kind, r.pair>> : r \in {o \in open : o.by = "controller"}}

LEMMA LaunchTakesSlot ==
  ASSUME TypeOK, SoleInv, Launch
  PROVE  Recovery!Acquire
<1>1. Own = {}
  BY DEF SoleInv, Launch
<1>2. chosen.kind \in Kinds /\ chosen.pair \in Pairs
  BY DEF Launch, TypeOK, Decision
<1> DEFINE new == Run(chosen.kind, chosen.pair, "controller")
<1>3. new.kind = chosen.kind /\ new.pair = chosen.pair /\ new.by = "controller"
  BY DEF Run
<1>4. Held = {} /\ Held' = {<<chosen.kind, chosen.pair>>}
  <2>1. Own' = {new}
    BY <1>1, <1>3 DEF Launch, Own
  <2> HIDE DEF new
  <2>2. Held' = {<<new.kind, new.pair>>}
    BY <2>1 DEF Held, Own
  <2>3. QED
    BY <1>1, <1>3, <2>2 DEF Held, Own
<1>5. QED
  BY <1>2, <1>4 DEF Recovery!Acquire, Held

\* A target run begins, ends or is killed; the slot is free afterwards if it
\* was the controller's run that is over.
LEMMA TargetKeepsSlot ==
  ASSUME TypeOK, OneRecoveryRun, TargetStep
  PROVE  Recovery!Release \/ UNCHANGED Held
<1>1. PICK r \in open : RunBegins(r) \/ BootstrapCures(r) \/ BootstrapFails(r)
                        \/ RepairEnds(r) \/ RunKilled(r)
  BY DEF TargetStep
<1>2. \/ open' = open \ {r}
      \/ open' = (open \ {r}) \cup {[r EXCEPT !.state = "running"]}
  BY <1>1 DEF RunBegins, BootstrapCures, BootstrapFails, RepairEnds, RunKilled
<1>3. r \in TargetRun
  BY DEF TypeOK
<1>4. CASE r.by # "controller"
  <2>1. Own' = Own
    BY <1>2, <1>3, <1>4 DEF Own, TargetRun
  <2>2. QED
    BY <2>1 DEF Held, Own
<1>5. CASE r.by = "controller" /\ open' = open \ {r}
  <2>1. Own = {r} /\ Own' = {}
    BY <1>5 DEF Own, OneRecoveryRun
  <2>2. Held = {<<r.kind, r.pair>>} /\ Held' = {}
    BY <2>1 DEF Held, Own
  <2>3. r.kind \in Kinds /\ r.pair \in Pairs
    BY <1>3 DEF TargetRun
  <2>4. QED
    BY <2>2, <2>3 DEF Recovery!Release, Held
<1>6. CASE r.by = "controller" /\ open' = (open \ {r}) \cup {[r EXCEPT !.state = "running"]}
  <2> DEFINE s == [r EXCEPT !.state = "running"]
  <2>1. s.kind = r.kind /\ s.pair = r.pair /\ s.by = "controller"
    BY <1>3, <1>6 DEF TargetRun
  <2>2. Own = {r} /\ Own' = {s}
    BY <1>6, <2>1 DEF Own, OneRecoveryRun
  <2>3. Held = {<<r.kind, r.pair>>} /\ Held' = {<<s.kind, s.pair>>}
    BY <2>2 DEF Held, Own
  <2>4. QED
    BY <2>1, <2>3
<1>7. QED
  BY <1>2, <1>4, <1>5, <1>6

\* The controller's recovery runs follow one another: each is launched after
\* the last one is over, whatever kinds and pairs they are for.
THEOREM RecoveryIsLease == Spec => RecoverySpec
<1>1. Init => Recovery!LInit
  BY DEF Init, Recovery!LInit
<1>2. TypeOK /\ SoleInv /\ [Next]_vars => [Recovery!LNext]_Held
  <2> SUFFICES ASSUME TypeOK, SoleInv, [Next]_vars
               PROVE  Recovery!LNext \/ UNCHANGED Held
    OBVIOUS
  <2>1. CASE Launch
    BY <2>1, LaunchTakesSlot DEF Recovery!LNext
  <2>2. CASE TargetStep
    BY <2>2, TargetKeepsSlot DEF Recovery!LNext, SoleInv
  <2>3. CASE \E kind \in Kinds, p \in Pairs : StartByHand(kind, p)
    <3>1. Own' = Own
      BY <2>3 DEF StartByHand, Run, Own
    <3>2. QED
      BY <3>1 DEF Held, Own
  <2>4. CASE UNCHANGED open
    BY <2>4 DEF Held
  <2>5. CASE \E p \in Pairs : LoseBars(p) \/ GapAges(p)
    BY <2>4, <2>5 DEF LoseBars, GapAges
  <2>6. CASE ControllerStep
    BY <2>1, <2>4, <2>6
       DEF ControllerStep, Observe, ObserveFails, CollectBootstrap,
       CollectBootstrapFails, CollectRepair, ChooseBootstrap, ChooseRepair, Choose,
       SkipRecovery, LaunchFails, MarkTriggered, MarkFailed, TaskDies
  <2>7. QED
    BY <2>2, <2>3, <2>4, <2>5, <2>6 DEF Next, Tick, vars
<1>3. QED
  BY <1>1, <1>2, RecoveryTypes, SoleHolds, PTL DEF Spec, RecoverySpec, Recovery!LSpec, Held

-----------------------------------------------------------------------------
(* The cooldown.                                                           *)

Marking == {r \in Kinds \X Pairs : pc = "mark" /\ r = <<chosen.kind, chosen.pair>>}

\* The decision table tells of every run that was started last, but for those
\* whose row is not marked; the row in hand has the age that its run has.
LedgerInv ==
  /\ \A kind \in Kinds, p \in Pairs :
       <<kind, p>> \notin unmarked => cool[kind][p] = since[kind][p]
  /\ pc = "mark" => since[chosen.kind][chosen.pair] = chosen.age

\* The steps that read or write neither the ages nor the end of a decision.
LEMMA OthersKeepLedger ==
  ASSUME LedgerInv, UNCHANGED <<cool, history, chosen>>, pc' = "mark" => pc = "mark"
  PROVE  LedgerInv'
BY DEF LedgerInv, history

LEMMA TickKeepsLedger == TypeOK /\ LedgerInv /\ Tick => LedgerInv'
<1> SUFFICES ASSUME TypeOK, LedgerInv, Tick PROVE LedgerInv'
  OBVIOUS
<1>1. \A kind \in Kinds, p \in Pairs : /\ cool'[kind][p] = Older(cool[kind][p])
                                      /\ since'[kind][p] = Older(since[kind][p])
  BY DEF Tick, OlderAll
<1>2. pc = "mark" => /\ chosen \in Decision
                     /\ chosen' = [chosen EXCEPT !.age = Older(@)]
  BY DEF Tick, TypeOK
<1>3. pc = "mark" => /\ chosen'.kind = chosen.kind /\ chosen'.pair = chosen.pair
                     /\ chosen'.age = Older(chosen.age)
                     /\ chosen.kind \in Kinds /\ chosen.pair \in Pairs
  BY <1>2 DEF Decision
<1>4. pc' = pc /\ unmarked' = unmarked
  BY DEF Tick
<1>5. QED
  BY <1>1, <1>3, <1>4 DEF LedgerInv

\* A run is started: until its row is marked it is off the record.
LEMMA LaunchKeepsLedger == TypeOK /\ LedgerInv /\ Launch => LedgerInv'
<1> SUFFICES ASSUME TypeOK, LedgerInv, Launch PROVE LedgerInv'
  OBVIOUS
<1>1. chosen.kind \in Kinds /\ chosen.pair \in Pairs
  BY DEF Launch, TypeOK, Decision
<1>2. \A kind \in Kinds, p \in Pairs :
        since'[kind][p] = IF kind = chosen.kind /\ p = chosen.pair
                          THEN chosen.age ELSE since[kind][p]
  BY <1>1 DEF Launch, TypeOK
<1>3. \A kind \in Kinds, p \in Pairs :
        <<kind, p>> \notin unmarked' =>
          <<kind, p>> \notin unmarked /\ ~(kind = chosen.kind /\ p = chosen.pair)
  BY DEF Launch
<1>4. QED
  BY <1>1, <1>2, <1>3 DEF LedgerInv, Launch

LEMMA MarkKeepsLedger == TypeOK /\ LedgerInv /\ MarkTriggered => LedgerInv'
<1> SUFFICES ASSUME TypeOK, LedgerInv, MarkTriggered PROVE LedgerInv'
  OBVIOUS
<1>1. chosen.kind \in Kinds /\ chosen.pair \in Pairs
  BY DEF MarkTriggered, TypeOK, Decision
<1>2. \A kind \in Kinds, p \in Pairs :
        cool'[kind][p] = IF kind = chosen.kind /\ p = chosen.pair
                         THEN chosen.age ELSE cool[kind][p]
  BY <1>1 DEF MarkTriggered, TypeOK
<1>3. \A kind \in Kinds, p \in Pairs :
        <<kind, p>> \notin unmarked' =>
          <<kind, p>> \notin unmarked \/ (kind = chosen.kind /\ p = chosen.pair)
  BY DEF MarkTriggered
<1>4. since[chosen.kind][chosen.pair] = chosen.age /\ since' = since /\ pc' = "idle"
  BY DEF LedgerInv, MarkTriggered, EndRun
<1>5. QED
  BY <1>2, <1>3, <1>4 DEF LedgerInv

LEMMA ControllerKeepsLedger ==
  ASSUME TypeOK, LedgerInv, ControllerStep
  PROVE  LedgerInv'
<1>1. ASSUME UNCHANGED <<cool, history>>, pc' # "mark" PROVE LedgerInv'
  BY <1>1 DEF LedgerInv, history
<1>2. CASE Launch
  BY <1>2, LaunchKeepsLedger
<1>3. CASE MarkTriggered
  BY <1>3, MarkKeepsLedger
<1>4. CASE MarkFailed \/ TaskDies \/ SkipRecovery
  BY <1>1, <1>4 DEF MarkFailed, TaskDies, SkipRecovery, RetryTask, EndRun
<1>5. QED
  BY <1>1, <1>2, <1>3, <1>4
     DEF ControllerStep, Observe, ObserveFails, CollectBootstrap,
     CollectBootstrapFails, CollectRepair, ChooseBootstrap, ChooseRepair, Choose,
     LaunchFails

LEMMA LedgerHolds == Spec => []LedgerInv
<1>1. Init => LedgerInv
  BY DEF Init, LedgerInv
<1>2. TypeOK /\ LedgerInv /\ [Next]_vars => LedgerInv'
  <2> SUFFICES ASSUME TypeOK, LedgerInv, [Next]_vars PROVE LedgerInv'
    OBVIOUS
  <2>1. CASE Tick
    BY <2>1, TickKeepsLedger
  <2>2. CASE \E p \in Pairs : LoseBars(p) \/ GapAges(p)
    BY <2>2, OthersKeepLedger DEF LoseBars, GapAges, runVars
  <2>3. CASE \E kind \in Kinds, p \in Pairs : StartByHand(kind, p)
    BY <2>3, OthersKeepLedger DEF StartByHand, runVars
  <2>4. CASE TargetStep
    BY <2>4, OthersKeepLedger DEF TargetStep, RunBegins, BootstrapCures,
       BootstrapFails, RepairEnds, RunKilled, runVars
  <2>5. CASE ControllerStep
    BY <2>5, ControllerKeepsLedger
  <2>6. CASE UNCHANGED vars
    BY <2>6, OthersKeepLedger DEF vars, runVars
  <2>7. QED
    BY <2>1, <2>2, <2>3, <2>4, <2>5, <2>6 DEF Next
<1>3. QED
  BY RecoveryTypes, <1>1, <1>2, PTL DEF Spec

\* Only the steps of choosing make a decision, and they keep the cooldown of
\* the decisions that are on record.
LEMMA ChoosesCooled ==
  ASSUME TypeOK, LedgerInv, [Next]_vars, chosen = NoDecision, chosen' # NoDecision
  PROVE  /\ pc = "decide"
         /\ \/ since[chosen'.kind][chosen'.pair] > Cooldown
            \/ <<chosen'.kind, chosen'.pair>> \in unmarked
<1>1. pc \notin {"trigger", "mark", "failed"}
  BY DEF TypeOK
<1>2. ChooseBootstrap \/ ChooseRepair
  BY <1>1 DEF Next, vars, runVars, Tick, LoseBars, GapAges, StartByHand,
     TargetStep, RunBegins, BootstrapCures, BootstrapFails, RepairEnds, RunKilled,
     ControllerStep, Observe, ObserveFails, CollectBootstrap,
     CollectBootstrapFails, CollectRepair, SkipRecovery, EndRun, Launch,
     LaunchFails, MarkTriggered, MarkFailed, TaskDies
<1>3. PICK kind \in Kinds, p \in Pairs :
        cool[kind][p] > Cooldown /\ Choose(kind, p) /\ pc = "decide"
  BY <1>2 DEF ChooseBootstrap, ChooseRepair, Free, Kinds, TypeOK
<1>4. chosen'.kind = kind /\ chosen'.pair = p
  BY <1>3 DEF Choose
<1>5. QED
  BY <1>3, <1>4 DEF LedgerInv

\* The controller chooses a pair within the cooldown of the decision that last
\* started a run for it only if that decision's row was never marked, or its
\* mark was taken back: every other decision is on record, with the age of its
\* run, wherever tasks are killed.
THEOREM CooldownOnRecord == Spec => EarlyIsUnmarked
<1>1. TypeOK /\ LedgerInv /\ [Next]_vars
        => [chosen = NoDecision /\ chosen' # NoDecision
              => \/ since[chosen'.kind][chosen'.pair] > Cooldown
                 \/ <<chosen'.kind, chosen'.pair>> \in unmarked]_vars
  BY ChoosesCooled
<1>2. QED
  BY RecoveryTypes, LedgerHolds, <1>1, PTL DEF Spec, EarlyIsUnmarked

\* Without kills the one decision off the record is the one about to be marked.
MarkInv ==
  /\ unmarked = Marking
  /\ launched => pc = "mark"

LEMMA MarksInTime ==
  ASSUME WorkersDie = FALSE
  PROVE  Spec => []MarkInv
<1>1. Init => MarkInv
  BY DEF Init, MarkInv, Marking
<1>2. TypeOK /\ MarkInv /\ [Next]_vars => MarkInv'
  <2> SUFFICES ASSUME TypeOK, MarkInv, [Next]_vars PROVE MarkInv'
    OBVIOUS
  <2> USE DEF MarkInv, Marking
  <2>1. CASE Tick
    <3>1. pc = "mark" => chosen'.kind = chosen.kind /\ chosen'.pair = chosen.pair
      BY <2>1 DEF Tick, TypeOK, Decision
    <3>2. QED
      BY <2>1, <3>1 DEF Tick
  <2>2. CASE UNCHANGED <<history, runVars>>
    BY <2>2 DEF history, runVars
  <2>3. CASE \/ \E p \in Pairs : LoseBars(p) \/ GapAges(p)
             \/ \E kind \in Kinds, p \in Pairs : StartByHand(kind, p)
             \/ TargetStep \/ UNCHANGED vars
    BY <2>2, <2>3 DEF LoseBars, GapAges, StartByHand, TargetStep, RunBegins,
       BootstrapCures, BootstrapFails, RepairEnds, RunKilled, vars
  <2>4. CASE unmarked' = unmarked /\ pc # "mark" /\ pc' # "mark"
             /\ (launched' => launched)
    BY <2>4
  <2>5. CASE Launch
    <3>1. chosen.kind \in Kinds /\ chosen.pair \in Pairs
      BY <2>5 DEF Launch, TypeOK, Decision
    <3>2. QED
      BY <2>5, <3>1 DEF Launch
  <2>6. CASE MarkTriggered
    BY <2>6 DEF MarkTriggered, EndRun
  <2>7. CASE MarkFailed \/ SkipRecovery
    BY <2>4, <2>7 DEF MarkFailed, SkipRecovery, RetryTask, EndRun, history
  <2>8. CASE ControllerStep
    BY <2>4, <2>5, <2>6, <2>7, <2>8
       DEF ControllerStep, Observe, ObserveFails, CollectBootstrap,
       CollectBootstrapFails, CollectRepair, ChooseBootstrap, ChooseRepair, Choose,
       LaunchFails, TaskDies, history
  <2>9. QED
    BY <2>1, <2>3, <2>8 DEF Next
<1>3. QED
  BY RecoveryTypes, <1>1, <1>2, PTL DEF Spec

\* While no task is killed, the controller does not choose a pair again within
\* the cooldown of the decision that last started a run for it.
THEOREM CooldownSound ==
  ASSUME WorkersDie = FALSE
  PROVE  Spec => CooldownKept
<1>1. TypeOK /\ LedgerInv /\ MarkInv /\ [Next]_vars
        => [chosen = NoDecision /\ chosen' # NoDecision
              => since[chosen'.kind][chosen'.pair] > Cooldown]_vars
  BY ChoosesCooled DEF MarkInv, Marking
<1>2. QED
  BY RecoveryTypes, LedgerHolds, MarksInTime, <1>1, PTL DEF Spec, CooldownKept
=============================================================================
