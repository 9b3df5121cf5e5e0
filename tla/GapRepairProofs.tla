--------------------------- MODULE GapRepairProofs ---------------------------
(***************************************************************************)
(* Proofs of the repair's safety properties for every window, chunk, round *)
(* and escalation limit.                                                   *)
(***************************************************************************)
EXTENDS GapRepair, FiniteSetTheorems, WellFoundedInduction, TLAPS

\* The run between two statements.
RunShape ==
  /\ pc = "idle" => used = 0 /\ rivals = 0 /\ fruitless = 0
  /\ pc \notin RoundPC => ~disturbed
  /\ pc \in {"idle", "plan", "detect"} => asked = {} /\ todo = {} /\ ~got
  /\ pc \in {"after", "verify"} => todo = {}
  /\ pc # "write" => page = {}
  /\ Cardinality(chunk) <= ChunkBars

\* The rounds are counted, and a fruitless one had a rival in it.
Rounds ==
  /\ fruitless <= rivals
  /\ pc \in RoundPC => fruitless < used
  /\ pc \in RoundPC /\ ~disturbed => rivals < used
  /\ disturbed => fruitless < rivals

\* What the run's reads are worth while nobody comes between them: the whole
\* chunk was missing, and a candle that came has made it smaller.
Undisturbed ==
  pc \in RoundPC /\ ~disturbed =>
    /\ chunk # {}
    /\ pc \in {"detect", "before"} => Missing(chunk) = chunk
    /\ pc # "detect" => asked = chunk
    /\ pc = "before" => ~got
    /\ pc \in {"fetch", "write", "after", "verify"} => before = Cardinality(chunk)
    /\ got => Missing(chunk) # chunk
    /\ pc = "verify" /\ got => after < before

\* Nothing above the chunk is missing.
NewestChunk ==
  pc \in RoundPC /\ rivals = 0 =>
    \A b \in Missing(Window) \ chunk : \A c \in chunk : b < c

IInv == TypeOK /\ RunShape /\ Rounds /\ Undisturbed /\ NewestChunk

-----------------------------------------------------------------------------
\* A non-empty set of bars has a newest one.
LEMMA NewestExists ==
  ASSUME NEW S \in SUBSET Bar, S # {}
  PROVE  \E top \in S : \A c \in S : c <= top
<1> USE RepairConstants DEF Bar
<1> DEFINE T == {n \in Nat : \E c \in S : n = Horizon - c}
           R == {p \in Nat \X Nat : p[1] < p[2]}
<1>1. IsWellFoundedOn(R, Nat)
  BY NatLessThanWellFounded DEF OpToRel
<1>2. T \subseteq Nat /\ T # {}
  <2>1. PICK c : c \in S
    OBVIOUS
  <2>2. Horizon - c \in T
    BY <2>1
  <2> QED BY <2>2
<1>3. PICK n \in T : \A k \in T : ~ (<<k, n>> \in R)
  <2> HIDE DEF T, R
  <2> QED BY <1>1, <1>2, WFMin
<1>4. PICK top \in S : n = Horizon - top
  BY <1>3
<1>5. ASSUME NEW c \in S PROVE c <= top
  <2>1. Horizon - c \in T
    OBVIOUS
  <2>2. ~ (Horizon - c < n)
    BY <2>1, <1>3
  <2> QED BY <1>4, <2>2
<1> QED BY <1>5

LEMMA BarsFinite ==
  ASSUME NEW S \in SUBSET Bar
  PROVE  IsFiniteSet(S) /\ Cardinality(S) \in Nat
<1>1. IsFiniteSet(Bar)
  BY RepairConstants, FS_Interval DEF Bar
<1> QED BY <1>1, FS_Subset, FS_CardinalityType

\* The chunk of a plan: not empty, not too long, and with nothing missing
\* beside it but what is older.
LEMMA ChunkOfPlan ==
  ASSUME NEW m \in SUBSET Bar, m # {}
  PROVE  /\ NextChunk(m) \in SUBSET m /\ NextChunk(m) # {}
         /\ Cardinality(NextChunk(m)) <= ChunkBars
         /\ \A b \in m \ NextChunk(m) : \A c \in NextChunk(m) : b < c
<1> USE RepairConstants
<1>1. PICK top \in m : \A c \in m : c <= top
  BY NewestExists
<1>2. top \in Int /\ \A b \in m : b \in Int
  BY DEF Bar
<1>3. NextChunk(m) = {b \in m : top - ChunkBars < b /\ b..top \subseteq m}
  <2>1. \A t \in m : (\A c \in m : c <= t) => t = top
    <3> SUFFICES ASSUME NEW t \in m, \A c \in m : c <= t PROVE t = top
      OBVIOUS
    <3>1. top <= t /\ t <= top
      BY <1>1
    <3> QED BY <1>2, <3>1
  <2> QED BY <1>1, <2>1 DEF NextChunk
<1>4. top \in NextChunk(m)
  BY <1>1, <1>2, <1>3
<1>5. Cardinality(NextChunk(m)) <= ChunkBars
  <2> DEFINE I == (top - ChunkBars + 1)..top
  <2>1. IsFiniteSet(I) /\ Cardinality(I) = ChunkBars
    BY <1>2, FS_Interval
  <2>2. ASSUME NEW b \in m, top - ChunkBars < b
        PROVE  b \in I
    <3>1. b <= top /\ b \in Int /\ top \in Int /\ ChunkBars \in Int
      BY <1>1, <1>2
    <3> QED BY <2>2, <3>1
  <2>3. NextChunk(m) \in SUBSET I
    BY <1>3, <2>2
  <2> QED BY <2>1, <2>3, FS_Subset
<1>6. ASSUME NEW b \in m, b \notin NextChunk(m), NEW c \in NextChunk(m)
      PROVE  b < c
  <2>1. c \in m /\ top - ChunkBars < c /\ c..top \subseteq m
    BY <1>3
  <2>2. SUFFICES ASSUME c <= b PROVE FALSE
    BY <1>2, <2>1
  <2>3. b..top \subseteq m /\ top - ChunkBars < b
    BY <1>2, <2>1, <2>2
  <2> QED BY <1>3, <1>6, <2>3
<1> QED BY <1>3, <1>4, <1>5, <1>6

-----------------------------------------------------------------------------
LEMMA InitIInv == Init => IInv
<1> SUFFICES ASSUME Init PROVE IInv
  OBVIOUS
<1> USE RepairConstants DEF Init
<1>1. /\ Listing \in Time
      /\ 0 \in 0..IterationLimit /\ 0 \in 0..ChunkBars /\ 0 \in 0..0
  BY DEF Time
<1>2. stored \subseteq Bar
  OBVIOUS
<1>3. TypeOK
  BY <1>1, <1>2 DEF TypeOK, Report
<1>4. RunShape
  BY FS_EmptySet DEF RunShape, RoundPC
<1>5. Rounds /\ Undisturbed /\ NewestChunk
  BY DEF Rounds, Undisturbed, NewestChunk, RoundPC
<1> QED BY <1>3, <1>4, <1>5 DEF IInv

\* A run that is over leaves nothing behind.
LEMMA EndKeeps ==
  ASSUME IInv, NEW r \in Report, End(r)
  PROVE  IInv'
<1> USE RepairConstants DEF End
<1>1. /\ Listing \in Time /\ Cardinality({}) = 0
      /\ 0 \in 0..IterationLimit /\ 0 \in 0..ChunkBars /\ 0 \in 0..0
  BY FS_EmptySet DEF IInv, TypeOK, Time
<1>2. TypeOK'
  BY <1>1 DEF IInv, TypeOK
<1>3. RunShape'
  BY <1>1 DEF RunShape, RoundPC
<1>4. Rounds' /\ Undisturbed' /\ NewestChunk'
  BY DEF Rounds, Undisturbed, NewestChunk, RoundPC
<1> QED BY <1>2, <1>3, <1>4 DEF IInv

LEMMA EndingsKeep ==
  ASSUME IInv, Exhausted \/ NothingMissing \/ Guardrail \/ Escalate \/ BreakOff \/ Fail
  PROVE  IInv'
BY EndKeeps DEF Exhausted, NothingMissing, Guardrail, Escalate, BreakOff, Fail, Report

LEMMA TickKeeps == ASSUME IInv, Tick PROVE IInv'
<1> USE RepairConstants DEF Tick, runVars
<1>1. TypeOK'
  BY DEF IInv, TypeOK, Time
<1>2. RunShape' /\ Rounds'
  BY DEF IInv, RunShape, Rounds
<1>3. Undisturbed' /\ NewestChunk'
  BY DEF IInv, Undisturbed, NewestChunk, Missing, Window
<1> QED BY <1>1, <1>2, <1>3 DEF IInv

LEMMA StartKeeps == ASSUME IInv, Start PROVE IInv'
<1> USE DEF Start
<1>1. TypeOK'
  BY DEF IInv, TypeOK, Report
<1>2. RunShape' /\ Rounds'
  BY DEF IInv, RunShape, Rounds, RoundPC
<1>3. Undisturbed' /\ NewestChunk'
  BY DEF Undisturbed, NewestChunk, RoundPC
<1> QED BY <1>1, <1>2, <1>3 DEF IInv

LEMMA PlanKeeps == ASSUME IInv, PlanChunk PROVE IInv'
<1> DEFINE m == Missing(Window)
<1>0. m \in SUBSET Bar /\ m # {} /\ m \cap stored = {}
  BY DEF PlanChunk, Missing, Window
<1>1. /\ chunk' \in SUBSET m /\ chunk' # {} /\ Cardinality(chunk') <= ChunkBars
      /\ \A b \in m \ chunk' : \A c \in chunk' : b < c
  BY <1>0, ChunkOfPlan DEF PlanChunk
<1> USE RepairConstants DEF PlanChunk
<1>2. TypeOK'
  <2>1. /\ used' \in 0..IterationLimit /\ rivals \in 0..used' /\ fruitless \in 0..used'
        /\ chunk' \subseteq Bar /\ asked = {} /\ todo = {} /\ page = {}
    BY <1>0, <1>1 DEF IInv, TypeOK, RunShape
  <2> QED BY <2>1 DEF IInv, TypeOK, RoundPC
<1>3. RunShape'
  BY <1>1 DEF IInv, RunShape, RoundPC
<1>4. Rounds'
  BY DEF IInv, TypeOK, RunShape, Rounds, RoundPC
<1>5. Undisturbed'
  BY <1>0, <1>1 DEF IInv, RunShape, Undisturbed, Missing
<1>6. NewestChunk'
  BY <1>1 DEF NewestChunk, Missing, Window
<1> QED BY <1>2, <1>3, <1>4, <1>5, <1>6 DEF IInv

\* The cardinality of what is missing in the chunk.
LEMMA CountBounds ==
  ASSUME IInv
  PROVE  /\ IsFiniteSet(chunk) /\ Cardinality(chunk) \in 0..ChunkBars
         /\ Cardinality(Missing(chunk)) \in 0..Cardinality(chunk)
         /\ Missing(chunk) # chunk => Cardinality(Missing(chunk)) < Cardinality(chunk)
<1>1. chunk \in SUBSET Bar /\ Missing(chunk) \in SUBSET chunk /\ Missing(chunk) \in SUBSET Bar
  BY DEF IInv, TypeOK, Missing
<1>2. IsFiniteSet(chunk) /\ Cardinality(chunk) \in Nat /\ Cardinality(Missing(chunk)) \in Nat
  BY <1>1, BarsFinite
<1>3. /\ Cardinality(Missing(chunk)) <= Cardinality(chunk)
      /\ Cardinality(chunk) = Cardinality(Missing(chunk)) => chunk = Missing(chunk)
  BY <1>1, <1>2, FS_Subset
<1>4. Cardinality(chunk) <= ChunkBars
  BY DEF IInv, RunShape
<1> QED BY <1>2, <1>3, <1>4, RepairConstants

LEMMA DetectKeeps == ASSUME IInv, Detect PROVE IInv'
<1> USE DEF Detect
<1>1. TypeOK'
  BY DEF IInv, TypeOK, RunShape, RoundPC, Missing
<1>2. RunShape' /\ Rounds'
  BY DEF IInv, RunShape, Rounds, RoundPC
<1>3. Undisturbed'
  BY DEF IInv, Undisturbed, RunShape, RoundPC, Missing
<1>4. NewestChunk'
  BY DEF IInv, NewestChunk, RoundPC, Missing, Window
<1> QED BY <1>1, <1>2, <1>3, <1>4 DEF IInv

LEMMA CountBeforeKeeps == ASSUME IInv, CountBefore PROVE IInv'
<1> USE DEF CountBefore
<1>0. before' \in 0..ChunkBars
  BY CountBounds, RepairConstants
<1>1. TypeOK'
  BY <1>0 DEF IInv, TypeOK, RoundPC
<1>2. RunShape' /\ Rounds'
  BY DEF IInv, RunShape, Rounds, RoundPC
<1>3. Undisturbed'
  BY DEF IInv, Undisturbed, RoundPC, Missing
<1>4. NewestChunk'
  BY DEF IInv, NewestChunk, RoundPC, Missing, Window
<1> QED BY <1>1, <1>2, <1>3, <1>4 DEF IInv

LEMMA FetchKeeps == ASSUME IInv, Fetch PROVE IInv'
<1> USE DEF Fetch
<1>1. TypeOK'
  BY DEF IInv, TypeOK, RoundPC, FirstTask
<1>2. RunShape' /\ Rounds'
  BY DEF IInv, RunShape, Rounds, RoundPC
<1>3. Undisturbed'
  BY DEF IInv, Undisturbed, RoundPC, Missing
<1>4. NewestChunk'
  BY DEF IInv, NewestChunk, RoundPC, Missing, Window
<1> QED BY <1>1, <1>2, <1>3, <1>4 DEF IInv

LEMMA WriteKeeps == ASSUME IInv, Write PROVE IInv'
<1> USE DEF Write
<1>1. TypeOK'
  BY DEF IInv, TypeOK, RoundPC
<1>2. RunShape' /\ Rounds'
  BY DEF IInv, RunShape, Rounds, RoundPC
<1>3. Undisturbed'
  <2>1. page \subseteq chunk
    BY DEF IInv, TypeOK
  <2>2. page # {} => Missing(chunk)' # chunk
    BY <2>1 DEF Missing
  <2>3. Missing(chunk) # chunk => Missing(chunk)' # chunk
    BY DEF Missing
  <2> QED BY <2>2, <2>3 DEF IInv, Undisturbed, RoundPC
<1>4. NewestChunk'
  BY DEF IInv, NewestChunk, RoundPC, Missing, Window
<1> QED BY <1>1, <1>2, <1>3, <1>4 DEF IInv

LEMMA CountAfterKeeps == ASSUME IInv, CountAfter PROVE IInv'
<1> USE DEF CountAfter
<1>0. after' \in 0..ChunkBars
  BY CountBounds, RepairConstants
<1>1. TypeOK'
  BY <1>0 DEF IInv, TypeOK, RoundPC
<1>2. RunShape' /\ Rounds'
  BY DEF IInv, RunShape, Rounds, RoundPC
<1>3. Undisturbed'
  BY CountBounds DEF IInv, Undisturbed, RoundPC, Missing
<1>4. NewestChunk'
  BY DEF IInv, NewestChunk, RoundPC, Missing, Window
<1> QED BY <1>1, <1>2, <1>3, <1>4 DEF IInv

\* A round that nobody came between is fruitless only if it was blocked, and
\* then it is not counted.
LEMMA FruitlessNeedsRival ==
  ASSUME IInv, pc = "verify"
  PROVE  Recorded <= rivals /\ Recorded \in 0..used
<1>1. CASE ~Blocked /\ before <= after
  <2>1. Recorded = fruitless + 1
    BY <1>1 DEF Recorded
  <2>2. disturbed
    <3>1. SUFFICES ASSUME ~disturbed PROVE FALSE
      BY DEF IInv, TypeOK
    <3>2. asked # {} /\ (got => after < before)
      BY <3>1 DEF IInv, Undisturbed, RoundPC
    <3>3. got
      BY <1>1, <3>2 DEF Blocked
    <3>4. before \in Int /\ after \in Int
      BY RepairConstants DEF IInv, TypeOK
    <3> QED BY <1>1, <3>2, <3>3, <3>4
  <2>3. fruitless < rivals /\ fruitless < used
    BY <2>2 DEF IInv, Rounds, RoundPC
  <2>4. fruitless \in Nat /\ rivals \in Nat /\ used \in Nat
    BY RepairConstants DEF IInv, TypeOK
  <2> QED BY <2>1, <2>3, <2>4
<1>2. CASE ~(~Blocked /\ before <= after)
  <2>1. Recorded = 0
    BY <1>2 DEF Recorded
  <2>2. rivals \in Nat /\ used \in Nat
    BY RepairConstants DEF IInv, TypeOK
  <2> QED BY <2>1, <2>2
<1> QED BY <1>1, <1>2

LEMMA NextRoundKeeps == ASSUME IInv, NextRound PROVE IInv'
<1> USE DEF NextRound
<1>0. Recorded <= rivals /\ Recorded \in 0..used
  BY FruitlessNeedsRival
<1>1. TypeOK'
  <2>1. /\ todo = {} /\ page = {} /\ fruitless' \in 0..used'
        /\ 0 \in 0..ChunkBars
    BY <1>0, RepairConstants DEF IInv, RunShape
  <2> QED BY <2>1 DEF IInv, TypeOK
<1>2. RunShape'
  BY FS_EmptySet, RepairConstants DEF IInv, RunShape, RoundPC
<1>3. Rounds' /\ Undisturbed' /\ NewestChunk'
  BY <1>0 DEF Rounds, Undisturbed, NewestChunk, RoundPC
<1> QED BY <1>1, <1>2, <1>3 DEF IInv

LEMMA RivalKeeps == ASSUME IInv, OtherWrite \/ Retention PROVE IInv'
<1>1. Disturb /\ stored' \subseteq Bar
  BY DEF OtherWrite, Retention, IInv, TypeOK
<1> USE <1>1 DEF Disturb, runVars
<1>0. rivals \in Nat /\ used \in Nat /\ fruitless \in Nat /\ rivals <= used
  BY RepairConstants DEF IInv, TypeOK
<1>2. TypeOK' /\ Rounds'
  <2>1. rivals' \in {rivals, rivals + 1} /\ rivals' \in 0..used
    BY <1>0 DEF IInv, Rounds
  <2>2. disturbed' \in BOOLEAN
    OBVIOUS
  <2>3. TypeOK'
    BY <2>1, <2>2 DEF IInv, TypeOK
  <2>4. Rounds'
    <3>1. CASE pc \notin RoundPC
      BY <3>1 DEF IInv, RunShape, Rounds
    <3>2. CASE pc \in RoundPC /\ disturbed
      BY <3>2 DEF IInv, Rounds
    <3>3. CASE pc \in RoundPC /\ ~disturbed
      <4>1. rivals' = rivals + 1 /\ fruitless <= rivals /\ fruitless < used /\ rivals < used
        BY <3>3 DEF IInv, Rounds
      <4>2. disturbed' /\ UNCHANGED <<used, fruitless, pc>>
        BY <3>3
      <4>3. fruitless' < used' /\ fruitless' < rivals'
        BY <1>0, <4>1, <4>2
      <4> QED BY <1>0, <4>2, <4>3 DEF Rounds
    <3> QED BY <3>1, <3>2, <3>3
  <2> QED BY <2>3, <2>4
<1>3. RunShape'
  <2>1. pc = "idle" => pc \notin RoundPC
    BY DEF RoundPC
  <2> QED BY <2>1 DEF IInv, RunShape
<1>4. Undisturbed'
  BY DEF Undisturbed
<1>5. NewestChunk'
  <2>1. pc \in RoundPC => rivals' # 0
    BY <1>0 DEF IInv, Rounds
  <2> QED BY <2>1 DEF NewestChunk
<1> QED BY <1>2, <1>3, <1>4, <1>5 DEF IInv

LEMMA StutterKeeps == ASSUME IInv, UNCHANGED vars PROVE IInv'
BY DEF vars, runVars, IInv, TypeOK, RunShape, Rounds, Undisturbed, NewestChunk,
       Missing, Window

LEMMA IInvHolds == Spec => []IInv
<1>1. Init => IInv
  BY InitIInv
<1>2. IInv /\ [Next]_vars => IInv'
  <2> SUFFICES ASSUME IInv, [Next]_vars PROVE IInv'
    OBVIOUS
  <2>1. CASE UNCHANGED vars
    BY <2>1, StutterKeeps
  <2>2. CASE Next
    BY <2>2, TickKeeps, StartKeeps, EndingsKeep, PlanKeeps, DetectKeeps,
       CountBeforeKeeps, FetchKeeps, WriteKeeps, CountAfterKeeps, NextRoundKeeps,
       RivalKeeps DEF Next, RunStep
  <2> QED BY <2>1, <2>2
<1> QED BY <1>1, <1>2, PTL DEF Spec

-----------------------------------------------------------------------------
\* Only a run that found nothing missing, or was disturbed, ends as complete.
LEMMA CompleteMeansClosed ==
  ASSUME IInv, [Next]_vars, pc # "idle", report' = "complete", pc' = "idle", rivals = 0
  PROVE  Missing(Window) = {}
<1>1. CASE NothingMissing
  BY <1>1 DEF NothingMissing
<1>2. CASE BreakOff
  <2>1. pc = "verify" /\ Missing(chunk) = {} /\ asked = {}
    BY <1>2 DEF BreakOff, End
  <2>2. ~disturbed
    BY <2>1 DEF IInv, Rounds, TypeOK
  <2> QED BY <2>1, <2>2 DEF IInv, Undisturbed, RoundPC
<1>3. CASE Exhausted \/ Guardrail \/ Escalate \/ Fail
  BY <1>3 DEF Exhausted, Guardrail, Escalate, Fail, End
<1>4. CASE Tick \/ Start \/ OtherWrite \/ Retention \/ UNCHANGED vars
  BY <1>4 DEF Tick, Start, OtherWrite, Retention, Disturb, runVars, vars
<1>5. CASE PlanChunk \/ Detect \/ CountBefore \/ Fetch \/ Write \/ CountAfter \/ NextRound
  BY <1>5 DEF PlanChunk, Detect, CountBefore, Fetch, Write, CountAfter, NextRound
<1> QED BY <1>1, <1>2, <1>3, <1>4, <1>5 DEF Next, RunStep

-----------------------------------------------------------------------------
\* The table, the run and its counters keep their types.
THEOREM RepairTypes == Spec => []TypeOK
<1>1. IInv => TypeOK
  BY DEF IInv
<1> QED BY <1>1, IInvHolds, PTL

\* The escalation counts only rounds in which another process came between.
THEOREM AlarmSound == Spec => []AlarmNeedsRivals
<1>1. IInv => AlarmNeedsRivals
  <2> SUFFICES ASSUME IInv, pc = "verify", ShouldEscalate
               PROVE  rivals >= Threshold
    BY DEF AlarmNeedsRivals
  <2>1. Recorded <= rivals /\ Recorded >= Threshold
    BY FruitlessNeedsRival DEF ShouldEscalate
  <2>2. Recorded \in Nat /\ rivals \in Nat /\ Threshold \in Nat
    BY FruitlessNeedsRival, RepairConstants DEF IInv, TypeOK
  <2> QED BY <2>1, <2>2
<1> QED BY <1>1, IInvHolds, PTL

\* A run without rivals that reports its window as complete has closed it.
THEOREM VerifiedSound == Spec => VerifiedIsClosed
<1>1. IInv /\ [Next]_vars
        => [(pc # "idle" /\ report' = "complete" /\ pc' = "idle" /\ rivals = 0)
              => Missing(Window) = {}]_vars
  BY CompleteMeansClosed
<1> QED BY <1>1, IInvHolds, PTL DEF Spec, VerifiedIsClosed

\* A repaired candle is never older than a bar that is missing outside its chunk.
THEOREM NewestFirstSound == Spec => NewestFirst
<1>1. IInv /\ [Next]_vars
        => [(pc = "write" /\ page # {} /\ stored' # stored /\ rivals = 0)
              => \A b \in Missing(Window) \ chunk : \A c \in chunk : b < c]_vars
  BY DEF IInv, NewestChunk, RoundPC
<1> QED BY <1>1, IInvHolds, PTL DEF Spec, NewestFirst
-----------------------------------------------------------------------------
(* The chunk, the exchange and the candle table.                           *)

\* The chunk is a block of closed bars of the window, shorter than a chunk may
\* be; the exchange's absent bars are never fetched nor stored; and until the
\* round's only task is written an undisturbed chunk is missing as a whole.
Grounded ==
  /\ asOf <= now
  /\ pc \in {"idle", "plan"} => chunk = {}
  /\ chunk \subseteq Window
  /\ \A c, a \in chunk : c <= a => c..a \subseteq chunk /\ a - c < ChunkBars
  /\ page \cap absent = {} /\ stored \cap absent = {}
  /\ (pc \in {"before", "fetch", "write"} /\ ~disturbed)
       => todo = chunk /\ Missing(chunk) = chunk

\* A non-empty set of bars has an oldest one.
LEMMA OldestExists ==
  ASSUME NEW S \in SUBSET Bar, S # {}
  PROVE  \E low \in S : \A c \in S : low <= c
<1> DEFINE R == {p \in Nat \X Nat : p[1] < p[2]}
<1>1. IsWellFoundedOn(R, Nat)
  BY NatLessThanWellFounded DEF OpToRel
<1>2. S \subseteq Nat
  BY RepairConstants DEF Bar
<1>3. PICK low \in S : \A c \in S : ~ (<<c, low>> \in R)
  <2> HIDE DEF R
  <2> QED BY <1>1, <1>2, WFMin
<1>4. ASSUME NEW c \in S PROVE low <= c
  <2>1. ~ (c < low) /\ c \in Nat /\ low \in Nat
    BY <1>2, <1>3
  <2> QED BY <2>1
<1> QED BY <1>4

\* A block of bars is one task.
LEMMA BlockIsOneTask ==
  ASSUME NEW S \in SUBSET Bar, \A c, a \in S : c <= a => c..a \subseteq S
  PROVE  FirstTask(S) = S
<1>1. CASE S = {}
  BY <1>1 DEF FirstTask
<1>2. CASE S # {}
  <2>1. PICK low \in S : \A c \in S : low <= c
    BY <1>2, OldestExists
  <2> QED BY <2>1 DEF FirstTask
<1> QED BY <1>1, <1>2

\* The top of the newest gap has no holes and is no longer than a chunk.
LEMMA ChunkIsBlock ==
  ASSUME NEW m \in SUBSET Bar, NEW c \in NextChunk(m), NEW a \in NextChunk(m), c <= a
  PROVE  c..a \subseteq NextChunk(m) /\ a - c < ChunkBars
<1>1. PICK top \in m : (\A b \in m : b <= top) /\ top - ChunkBars < c /\ c..top \subseteq m
  BY DEF NextChunk
<1>2. a \in m /\ a <= top /\ a \in Int /\ c \in Int /\ top \in Int /\ ChunkBars \in Int
  BY <1>1, RepairConstants DEF NextChunk, Bar
<1>3. ASSUME NEW b \in c..a PROVE b \in NextChunk(m)
  <2>1. b \in m /\ top - ChunkBars < b /\ b..top \subseteq m
    BY <1>1, <1>2
  <2> QED BY <1>1, <2>1 DEF NextChunk
<1> QED BY <1>1, <1>2, <1>3

LEMMA GroundedNext ==
  ASSUME IInv, Grounded, [Next]_vars
  PROVE  Grounded'
<1> USE DEF Grounded
<1>1. CASE Tick
  BY <1>1, RepairConstants DEF Tick, runVars, IInv, TypeOK, Time, Missing, Window
<1>2. CASE Start
  BY <1>2, RepairConstants DEF Start, IInv, TypeOK, Time, Window
<1>3. CASE Exhausted \/ NothingMissing \/ Guardrail \/ Escalate \/ BreakOff \/ Fail
  <2>1. PICK r \in Report : End(r)
    BY <1>3 DEF Exhausted, NothingMissing, Guardrail, Escalate, BreakOff, Fail, Report
  <2>2. Listing <= now
    BY RepairConstants DEF IInv, TypeOK, Time
  <2> QED BY <2>1, <2>2 DEF End
<1>4. CASE PlanChunk
  <2> DEFINE m == Missing(Window)
  <2>1. m \in SUBSET Bar /\ m \subseteq Window /\ chunk' = NextChunk(m)
    BY <1>4 DEF PlanChunk, Missing, Window
  <2>2. chunk' \subseteq m
    BY <2>1 DEF NextChunk
  <2>3. \A c, a \in chunk' : c <= a => c..a \subseteq chunk' /\ a - c < ChunkBars
    BY <2>1, ChunkIsBlock
  <2>4. Window' = Window
    BY <1>4 DEF PlanChunk, Window
  <2> QED BY <1>4, <2>1, <2>2, <2>3, <2>4 DEF PlanChunk, IInv, RunShape
<1>5. CASE Detect
  <2>1. ~disturbed => Missing(chunk) = chunk
    BY <1>5 DEF Detect, IInv, Undisturbed, RoundPC
  <2> QED BY <1>5, <2>1 DEF Detect, Missing, Window, IInv, RunShape
<1>6. CASE CountBefore
  BY <1>6 DEF CountBefore, Missing, Window
<1>7. CASE Fetch
  BY <1>7 DEF Fetch, Missing, Window
<1>8. CASE Write
  <2>1. ~disturbed => pc' = "after"
    <3>1. chunk \in SUBSET Bar
      BY DEF IInv, TypeOK
    <3>2. FirstTask(chunk) = chunk
      BY <3>1, BlockIsOneTask
    <3> QED BY <1>8, <3>2 DEF Write
  <2> QED BY <1>8, <2>1 DEF Write, Window
<1>9. CASE CountAfter
  BY <1>9 DEF CountAfter, Window
<1>10. CASE NextRound
  BY <1>10 DEF NextRound, Window
<1>11. CASE OtherWrite \/ Retention
  <2>1. Disturb /\ stored' \cap absent = {}
    BY <1>11 DEF OtherWrite, Retention
  <2>2. UNCHANGED <<now, absent, asOf, pc, chunk, page, todo>>
    BY <2>1 DEF Disturb, runVars
  <2>3. pc \in {"before", "fetch", "write"} => disturbed'
    BY <2>1 DEF Disturb, RoundPC
  <2> QED BY <2>1, <2>2, <2>3 DEF Window
<1>12. CASE UNCHANGED vars
  BY <1>12 DEF vars, runVars, Missing, Window
<1> QED
  BY <1>1, <1>2, <1>3, <1>4, <1>5, <1>6, <1>7, <1>8, <1>9, <1>10, <1>11, <1>12
     DEF Next, RunStep

LEMMA GroundedHolds == Spec => []Grounded
<1>1. Init => Grounded
  BY RepairConstants DEF Init, Grounded, Time
<1> QED BY <1>1, GroundedNext, IInvHolds, PTL DEF Spec

\* A candle that comes while no rival has been there is one of the chunk, which
\* was missing as a whole.
LEMMA RepairedInChunk ==
  ASSUME IInv, Grounded, [Next]_vars,
         pc = "write", stored' # stored, rivals' = 0
  PROVE  /\ Write /\ rivals = 0 /\ stored' \ stored \subseteq chunk
         /\ Missing(chunk) = chunk
<1>1. rivals \in Nat /\ fruitless \in Nat
  BY RepairConstants DEF IInv, TypeOK
<1>2. Write
  <2>1. ~ (OtherWrite \/ Retention)
    <3>1. SUFFICES ASSUME Disturb PROVE FALSE
      BY DEF OtherWrite, Retention
    <3>2. CASE disturbed
      BY <1>1, <3>1, <3>2 DEF Disturb, IInv, Rounds
    <3>3. CASE ~disturbed
      BY <1>1, <3>1, <3>3 DEF Disturb, RoundPC
    <3> QED BY <3>2, <3>3
  <2>2. ~ (Tick \/ Start \/ UNCHANGED vars)
    BY DEF Tick, Start, vars
  <2>3. ~ (Exhausted \/ NothingMissing \/ Guardrail \/ Escalate \/ BreakOff \/ Fail)
    BY DEF Exhausted, NothingMissing, Guardrail, Escalate, BreakOff, Fail, End
  <2>4. ~ (PlanChunk \/ Detect \/ CountBefore \/ Fetch \/ CountAfter \/ NextRound)
    BY DEF PlanChunk, Detect, CountBefore, Fetch, CountAfter, NextRound
  <2> QED BY <2>1, <2>2, <2>3, <2>4 DEF Next, RunStep
<1>3. rivals = 0 /\ stored' \ stored \subseteq chunk
  BY <1>2 DEF Write, IInv, TypeOK
<1>4. ~disturbed
  BY <1>1, <1>3 DEF IInv, Rounds
<1> QED BY <1>2, <1>3, <1>4 DEF Grounded

\* As long as a bar that the exchange does not have is in the window, nothing
\* below its gap is repaired, and of its gap only what is less than a chunk away.
THEOREM AbsentBlocks == Spec => AbsentBlocksOlder
<1>1. IInv /\ Grounded /\ [Next]_vars
        => [(pc = "write" /\ stored' # stored /\ rivals' = 0)
              => \A a \in Window \cap absent : \A c \in stored' \ stored :
                   c < a => a - c < ChunkBars /\ c..a \cap stored = {}]_vars
  <2> SUFFICES ASSUME IInv, Grounded, [Next]_vars,
                      pc = "write", stored' # stored, rivals' = 0,
                      NEW a \in Window \cap absent, NEW c \in stored' \ stored, c < a
               PROVE  a - c < ChunkBars /\ c..a \cap stored = {}
    OBVIOUS
  <2>1. c \in chunk /\ rivals = 0 /\ Missing(chunk) = chunk
    BY RepairedInChunk
  <2>2. a \in Missing(Window) /\ a \in Bar /\ c \in Bar
    BY <2>1 DEF Grounded, Missing, Window
  <2>3. a \in chunk
    <3>1. a \notin chunk => a < c
      BY <2>1, <2>2 DEF IInv, NewestChunk, RoundPC
    <3>2. a \in Int /\ c \in Int
      BY <2>2, RepairConstants DEF Bar
    <3> QED BY <3>1, <3>2
  <2>4. c..a \subseteq chunk /\ a - c < ChunkBars
    BY <2>1, <2>2, <2>3, RepairConstants DEF Grounded, Bar
  <2> QED BY <2>1, <2>4 DEF Missing
<1> QED BY <1>1, IInvHolds, GroundedHolds, PTL DEF Spec, AbsentBlocksOlder

\* The repair keeps what the table's other users rely on: it adds candles of
\* closed bars only, whenever its window was computed and however late it writes.
THEOREM RepairKeepsTable == Spec => TableSpec
<1>1. Init => Table!TInit
  BY RepairConstants DEF Init, Table!TInit, Table!Closed, Table!TBar, Time, Bar
<1>2. IInv /\ Grounded /\ [Next]_vars => [Table!TNext]_<<now, stored>>
  <2> SUFFICES ASSUME IInv, Grounded, [Next]_vars
               PROVE  Table!TNext \/ UNCHANGED <<now, stored>>
    OBVIOUS
  <2> USE DEF Table!TNext, Table!Closed, Table!TBar
  <2>1. CASE Tick
    BY <2>1 DEF Tick, Table!Clock
  <2>2. CASE Write
    <3>1. \A b \in page : b \in Bar /\ b < asOf
      BY DEF IInv, TypeOK, Grounded, Window
    <3>2. \A b \in page : b \in Bar /\ b < now
      BY <3>1, RepairConstants DEF Grounded, IInv, TypeOK, Bar, Time
    <3> QED BY <2>2, <3>2 DEF Write, Table!Write, Bar
  <2>3. CASE OtherWrite
    BY <2>3 DEF OtherWrite, Disturb, Table!Write, Bar
  <2>4. CASE Retention
    BY <2>4 DEF Retention, Disturb, Table!Sweep
  <2>5. CASE ~(Tick \/ Write \/ OtherWrite \/ Retention)
    BY <2>5 DEF Next, RunStep, vars, Start, Exhausted, NothingMissing, Guardrail,
                Escalate, BreakOff, Fail, End, PlanChunk, Detect, CountBefore, Fetch,
                CountAfter, NextRound
  <2> QED BY <2>1, <2>2, <2>3, <2>4, <2>5
<1> QED
  BY <1>1, <1>2, IInvHolds, GroundedHolds, PTL DEF Spec, TableSpec, Table!TSpec

\* The rivals of the model are as free as the table is: whatever step of the
\* candle table other processes take while the run's own state stays, the model
\* has it, so what is proved of the repair holds beside any such processes.
THEOREM RivalsAreFree ==
  ASSUME TypeOK, Table!TNext, stored' \cap absent = {},
         UNCHANGED <<absent, runVars, report>>,
         IF stored' = stored THEN UNCHANGED <<disturbed, rivals>>
         ELSE /\ disturbed' = (pc \in RoundPC)
              /\ rivals' = IF pc \in RoundPC /\ ~disturbed THEN rivals + 1 ELSE rivals
  PROVE  [Next]_vars
<1>1. CASE Table!Clock
  BY <1>1 DEF Table!Clock, Next, Tick
<1>2. CASE stored' = stored /\ now' = now
  BY <1>2 DEF vars
<1>3. CASE Table!Write /\ stored' # stored
  <2> DEFINE some == stored' \ stored
  <2>1. some \in SUBSET {b \in Bar \ (stored \cup absent) : b < now}
    BY <1>3 DEF Table!Write, Table!Closed, Table!TBar, Bar
  <2>2. some # {} /\ stored' = stored \cup some
    BY <1>3 DEF Table!Write
  <2>3. Disturb
    BY <1>3 DEF Table!Write, Disturb
  <2> QED BY <2>1, <2>2, <2>3 DEF OtherWrite, Next
<1>4. CASE Table!Sweep /\ stored' # stored
  <2>1. PICK b \in stored : ~(now - Keep <= b)
    BY <1>4 DEF Table!Sweep
  <2>2. b < now - Keep
    BY <2>1, RepairConstants DEF TypeOK, Bar, Time
  <2> QED BY <1>4, <2>1, <2>2 DEF Table!Sweep, Retention, Disturb, Next
<1> QED
  BY <1>1, <1>2, <1>3, <1>4 DEF Table!TNext, Table!Write, Table!Sweep

\* Every step of a run ends it, begins another of its bounded rounds, or brings
\* the round closer to its end, whatever rivals do meanwhile: no answer of the
\* exchange and no state of the table can make a run go round in circles.
THEOREM RepairDescends == Spec => RunDescends
<1>1. IInv /\ [Next]_vars => [pc # "idle" => Descends \/ UNCHANGED runVars]_vars
  <2> SUFFICES ASSUME IInv, Next, pc # "idle"
               PROVE  Descends \/ UNCHANGED runVars
    BY DEF vars
  <2> USE DEF Descends
  <2>1. CASE Tick \/ OtherWrite \/ Retention
    BY <2>1 DEF Tick, OtherWrite, Retention, Disturb
  <2>2. CASE Exhausted \/ NothingMissing \/ Guardrail \/ Escalate \/ BreakOff \/ Fail
    BY <2>2 DEF Exhausted, NothingMissing, Guardrail, Escalate, BreakOff, Fail, End
  <2>3. CASE PlanChunk
    BY <2>3 DEF PlanChunk, IInv, TypeOK
  <2>4. CASE Detect \/ CountBefore \/ CountAfter \/ NextRound
    BY <2>4 DEF Detect, CountBefore, CountAfter, NextRound, Stage
  <2>5. CASE Fetch
    BY <2>5 DEF Fetch
  <2>6. CASE Write
    <3>1. CASE todo' = {}
      BY <2>6, <3>1 DEF Write, Stage
    <3>2. CASE todo' # {}
      <4>1. todo # {} /\ todo \in SUBSET Bar
        BY <2>6, <3>2 DEF Write, IInv, TypeOK
      <4>2. FirstTask(todo) # {}
        <5>1. PICK low \in todo : \A c \in todo : low <= c
          BY <4>1, OldestExists
        <5>2. low..low = {low}
          BY <4>1, RepairConstants DEF Bar
        <5> QED BY <5>1, <5>2 DEF FirstTask
      <4>3. FirstTask(todo) \subseteq todo
        BY DEF FirstTask
      <4> QED BY <2>6, <3>2, <4>2, <4>3 DEF Write, Stage
    <3> QED BY <3>1, <3>2
  <2>7. CASE Start
    BY <2>7 DEF Start
  <2> QED BY <2>1, <2>2, <2>3, <2>4, <2>5, <2>6, <2>7 DEF Next, RunStep
<1> QED BY <1>1, IInvHolds, PTL DEF Spec, RunDescends
=============================================================================
