------------------------- MODULE RecalcQueueProofs -------------------------
(***************************************************************************)
(* Proofs of the queue's invariants for every set of keys and every limit. *)
(***************************************************************************)
EXTENDS RecalcQueue, TLAPS

\* The run between two statements: it holds a row exactly while it works on
\* it, and nobody takes a request for a claimed row.
RunShape ==
  /\ pc \in {"idle", "next"} => cur = None
  /\ pc \in {"save", "mark"} => cur \in batch
  /\ pc = "idle" => batch = {}
  /\ pc = "mark" => result # "none"
  /\ pc = "save" => result # "none"
  /\ "request" \notin since
  /\ cur = None => since = {}

\* What a change after the read leaves behind.
ChangeSeen ==
  cur # None /\ "change" \in since => cur \in behind /\ cur \in pending \cup lost

\* What is known when the row in hand is about to be marked completed.
Earned ==
  pc = "mark" /\ result = "completed" =>
    /\ cur \notin owed
    /\ cur \in behind => cur \in pending \cup lost

IInv == TypeOK /\ RunShape /\ ChangeSeen /\ Earned /\ CompletedIsFresh
               /\ StaleIsExplained

LEMMA InitIInv == Init => IInv
<1> SUFFICES ASSUME Init PROVE IInv
  OBVIOUS
<1> USE DEF Init
<1>1. TypeOK
  BY DEF TypeOK, Status, Result
<1>2. RunShape /\ ChangeSeen /\ Earned
  BY DEF RunShape, ChangeSeen, Earned
<1>3. CompletedIsFresh /\ StaleIsExplained
  BY DEF CompletedIsFresh, StaleIsExplained
<1> QED BY <1>1, <1>2, <1>3 DEF IInv

LEMMA ChangeKeeps == ASSUME IInv, NEW k \in Keys, Change(k) PROVE IInv'
<1> USE QueueConstants DEF IInv, Change, queueVars
<1>1. TypeOK'
  BY DEF TypeOK, Status, Result
<1>2. RunShape' /\ ChangeSeen'
  BY DEF RunShape, ChangeSeen, TypeOK
<1>3. Earned' /\ CompletedIsFresh' /\ StaleIsExplained'
  BY DEF Earned, CompletedIsFresh, StaleIsExplained
<1> QED BY <1>1, <1>2, <1>3

\* A request that is taken finds a row that no run holds.
LEMMA TakenIsFree ==
  ASSUME IInv, NEW k \in Keys, Takes(k)
  PROVE  row[k] # "claimed" /\ k # cur /\ k \notin batch /\ k \notin expired
BY QueueConstants DEF IInv, TypeOK, RunShape, Takes, Status

LEMMA AskKeeps == ASSUME IInv, NEW k \in Keys, Ask(k) PROVE IInv'
<1> USE QueueConstants DEF Ask
<1>1. CASE Takes(k)
  <2> USE <1>1
  <2>0. /\ row[k] # "claimed" /\ k # cur /\ k \notin batch /\ k \notin expired
        /\ row' = [row EXCEPT ![k] = "queued"] /\ since' = since
        /\ owed' = owed \cup {k} /\ lost' = lost \ {k}
        /\ expired' = expired \ {k} /\ ahead' = ToTheEnd(k)
        /\ pending \ {k} \subseteq pending' /\ pending' \subseteq pending
    BY TakenIsFree
  <2>1. ahead' \subseteq Keys \X Keys
    BY <2>0 DEF IInv, TypeOK, ToTheEnd
  <2>2. TypeOK'
    BY <2>0, <2>1 DEF IInv, TypeOK, Status, Result
  <2>3. RunShape' /\ ChangeSeen' /\ Earned'
    BY <2>0 DEF IInv, TypeOK, RunShape, ChangeSeen, Earned
  <2>4. CompletedIsFresh' /\ StaleIsExplained'
    BY <2>0 DEF IInv, TypeOK, CompletedIsFresh, StaleIsExplained
  <2> QED BY <2>2, <2>3, <2>4 DEF IInv
<1>2. CASE ~Takes(k)
  <2> USE <1>2
  <2>0. /\ row' = row /\ ahead' = ahead /\ expired' = expired /\ owed' = owed
        /\ since' = since /\ lost \subseteq lost' /\ lost' \subseteq lost \cup {k}
        /\ k \in behind /\ row[k] # "queued" => k \in lost'
        /\ pending \ {k} \subseteq pending' /\ pending' \subseteq pending
    BY DEF queueVars
  <2>1. TypeOK'
    BY <2>0 DEF IInv, TypeOK, Status, Result
  <2>2. cur # None => row[cur] = "claimed"
    BY DEF IInv, TypeOK
  <2>3. RunShape' /\ ChangeSeen' /\ Earned'
    BY <2>0, <2>2 DEF IInv, RunShape, ChangeSeen, Earned, TypeOK
  <2>4. CompletedIsFresh' /\ StaleIsExplained'
    BY <2>0 DEF IInv, CompletedIsFresh, StaleIsExplained
  <2> QED BY <2>1, <2>3, <2>4 DEF IInv
<1> QED BY <1>1, <1>2

LEMMA GiveUpKeeps == ASSUME IInv, NEW k \in Keys, GiveUp(k) PROVE IInv'
<1> USE DEF IInv, GiveUp, queueVars, runVars
<1>1. TypeOK'
  BY DEF TypeOK, Status, Result
<1>2. RunShape' /\ ChangeSeen' /\ Earned'
  BY DEF RunShape, ChangeSeen, Earned
<1>3. CompletedIsFresh' /\ StaleIsExplained'
  BY DEF CompletedIsFresh, StaleIsExplained
<1> QED BY <1>1, <1>2, <1>3

LEMMA ClaimKeeps == ASSUME IInv, Claim PROVE IInv'
<1>1. PICK S \in SUBSET Claimable :
        /\ batch' = S
        /\ row' = [k \in Keys |-> IF k \in S THEN "claimed" ELSE row[k]]
        /\ expired' = expired \ S
  BY DEF Claim
<1> USE <1>1 DEF IInv, Claim
<1>2. S \subseteq Keys
  BY DEF Claimable
<1>3. TypeOK'
  BY <1>2 DEF TypeOK, RunShape, Status, Result
<1>4. RunShape' /\ ChangeSeen' /\ Earned'
  BY DEF RunShape, ChangeSeen, Earned
<1>5. CompletedIsFresh' /\ StaleIsExplained'
  BY DEF TypeOK, CompletedIsFresh, StaleIsExplained
<1> QED BY <1>3, <1>4, <1>5

LEMMA ReadKeeps == ASSUME IInv, NEW k \in Keys, Read(k) PROVE IInv'
<1> USE QueueConstants DEF IInv, Read, queueVars
<1>1. since' = {}
  BY DEF RunShape
<1>2. TypeOK'
  BY DEF TypeOK, Status, Result, Gate
<1>3. RunShape' /\ ChangeSeen' /\ Earned'
  BY <1>1 DEF TypeOK, RunShape, ChangeSeen, Earned, Gate, Result
<1>4. CompletedIsFresh' /\ StaleIsExplained'
  BY DEF CompletedIsFresh, StaleIsExplained
<1> QED BY <1>2, <1>3, <1>4

LEMMA SaveKeeps == ASSUME IInv, NEW k \in Keys, Save(k) PROVE IInv'
<1> USE QueueConstants DEF IInv, Save, queueVars
<1>1. TypeOK'
  BY DEF TypeOK, Status, Result
<1>2. row[k] = "claimed" /\ cur # None /\ "request" \notin since
  BY DEF TypeOK, RunShape
<1>3. RunShape' /\ ChangeSeen' /\ Earned'
  BY <1>2 DEF RunShape, ChangeSeen, Earned
<1>4. CompletedIsFresh' /\ StaleIsExplained'
  BY <1>2 DEF CompletedIsFresh, StaleIsExplained
<1> QED BY <1>1, <1>3, <1>4

LEMMA RaiseKeeps == ASSUME IInv, NEW k \in Keys, Raise(k) PROVE IInv'
<1> USE QueueConstants DEF IInv, Raise, queueVars
<1>1. TypeOK'
  BY DEF TypeOK, Status, Result
<1>2. RunShape' /\ ChangeSeen' /\ Earned'
  BY DEF RunShape, ChangeSeen, Earned
<1>3. CompletedIsFresh' /\ StaleIsExplained'
  BY DEF CompletedIsFresh, StaleIsExplained
<1> QED BY <1>1, <1>2, <1>3

LEMMA MarkKeeps == ASSUME IInv, NEW k \in Keys, Mark(k) PROVE IInv'
<1> USE DEF IInv, Mark
<1>1. TypeOK'
  BY DEF TypeOK, Status, Result
<1>2. RunShape' /\ ChangeSeen' /\ Earned'
  BY DEF RunShape, ChangeSeen, Earned
<1>3. \A j \in Keys : row'[j] = IF j = k THEN result ELSE row[j]
  BY DEF TypeOK
<1>4. CompletedIsFresh'
  BY <1>3 DEF CompletedIsFresh, Earned
<1>5. result # "none" /\ behind \subseteq Keys
  BY DEF TypeOK, RunShape
<1>6. StaleIsExplained'
  BY <1>3, <1>5 DEF StaleIsExplained, Earned
<1> QED BY <1>1, <1>2, <1>4, <1>6

LEMMA CrashKeeps == ASSUME IInv, Crash PROVE IInv'
<1> USE DEF IInv, Crash, queueVars
<1>1. TypeOK'
  BY DEF TypeOK, Status, Result
<1>2. RunShape' /\ ChangeSeen' /\ Earned'
  BY DEF RunShape, ChangeSeen, Earned
<1>3. CompletedIsFresh' /\ StaleIsExplained'
  BY DEF CompletedIsFresh, StaleIsExplained
<1> QED BY <1>1, <1>2, <1>3

LEMMA OutsideKeeps ==
  ASSUME IInv, NEW k \in Keys, Expire(k) \/ Grow(k) PROVE IInv'
<1> USE DEF IInv, Expire, Grow, queueVars, runVars
<1>1. TypeOK'
  BY DEF TypeOK, Status, Result
<1>2. RunShape' /\ ChangeSeen' /\ Earned'
  BY DEF RunShape, ChangeSeen, Earned
<1>3. CompletedIsFresh' /\ StaleIsExplained'
  BY DEF CompletedIsFresh, StaleIsExplained
<1> QED BY <1>1, <1>2, <1>3

LEMMA StutterKeeps == ASSUME IInv, UNCHANGED vars PROVE IInv'
BY DEF IInv, vars, queueVars, runVars, TypeOK, RunShape, ChangeSeen, Earned,
       CompletedIsFresh, StaleIsExplained, Takes, Status, Result

LEMMA IInvHolds == Spec => []IInv
<1>1. Init => IInv
  BY InitIInv
<1>2. IInv /\ [Next]_vars => IInv'
  <2> SUFFICES ASSUME IInv, [Next]_vars PROVE IInv'
    OBVIOUS
  <2>1. CASE UNCHANGED vars
    BY <2>1, StutterKeeps
  <2>2. CASE Next
    BY <2>2, ClaimKeeps, RaiseKeeps, CrashKeeps, ChangeKeeps, AskKeeps, GiveUpKeeps,
       ReadKeeps, SaveKeeps, MarkKeeps, OutsideKeeps DEF Next
  <2> QED BY <2>1, <2>2
<1> QED BY <1>1, <1>2, PTL DEF Spec

\* The statuses, the claimed rows of a run and the histories keep their types.
THEOREM QueueTypes == Spec => []TypeOK
<1>1. IInv => TypeOK
  BY DEF IInv
<1> QED BY <1>1, IInvHolds, PTL

\* A completed row was calculated from candles read after its last request.
THEOREM CompletedRowsFresh == Spec => []CompletedIsFresh
<1>1. IInv => CompletedIsFresh
  BY DEF IInv
<1> QED BY <1>1, IInvHolds, PTL

\* Stale features without a row that says so have one of the named causes.
THEOREM StaleRowsExplained == Spec => []StaleIsExplained
<1>1. IInv => StaleIsExplained
  BY DEF IInv
<1> QED BY <1>1, IInvHolds, PTL

-----------------------------------------------------------------------------
(* What closes for good.                                                   *)

\* A run touches the rows of its batch only, and those are claimed.
LEMMA HandClaimed ==
  ASSUME IInv, NEW k \in Keys, pc \in {"save", "mark"}, cur = k
  PROVE  row[k] = "claimed" /\ ~Abandoned(k)
BY DEF IInv, TypeOK, RunShape, Abandoned

\* Features that are behind in a closed row which takes no request stay behind:
\* no claim, no request and no change of the candles brings them back.
THEOREM AbandonedStays == Spec => AbandonedForGood
<1>1. ASSUME IInv, NEW k \in Keys, Abandoned(k), [Next]_vars
      PROVE  Abandoned(k)'
  <2> USE <1>1 DEF Abandoned
  <2>1. row[k] \notin {"none", "queued", "claimed"} /\ k \notin batch /\ k \notin expired
    BY DEF IInv, TypeOK
  <2>2. CASE Claim
    <3>1. PICK S \in SUBSET Claimable :
            row' = [j \in Keys |-> IF j \in S THEN "claimed" ELSE row[j]]
      BY <2>2 DEF Claim
    <3>2. k \notin S
      BY <2>1 DEF Claimable
    <3> QED BY <2>2, <3>1, <3>2 DEF Claim
  <2>3. ASSUME NEW j \in Keys, Ask(j) PROVE Abandoned(k)'
    <3>1. CASE Takes(j)
      <4>1. j # k
        BY <2>1, <3>1 DEF Takes
      <4> QED BY <2>3, <3>1, <4>1 DEF Ask, IInv, TypeOK
    <3>2. CASE ~Takes(j)
      BY <2>3, <3>2 DEF Ask, queueVars
    <3> QED BY <3>1, <3>2
  <2>4. ASSUME NEW j \in Keys, Save(j) \/ Mark(j) PROVE Abandoned(k)'
    <3>1. j # k
      BY <2>4, HandClaimed DEF Save, Mark
    <3> QED BY <2>4, <3>1 DEF Save, Mark, queueVars, IInv, TypeOK
  <2>5. ASSUME NEW j \in Keys,
               Change(j) \/ GiveUp(j) \/ Read(j) \/ Expire(j) \/ Grow(j)
        PROVE  Abandoned(k)'
    BY <2>5 DEF Change, GiveUp, Read, Expire, Grow, queueVars
  <2>6. CASE (\E j \in Keys : Raise(j)) \/ Crash \/ UNCHANGED vars
    BY <2>6 DEF Raise, Crash, queueVars, vars
  <2> QED BY <2>2, <2>3, <2>4, <2>5, <2>6 DEF Next
<1>2. IInv /\ [Next]_vars => [\A k \in Keys : Abandoned(k) => Abandoned(k)']_vars
  BY <1>1
<1> QED BY <1>2, IInvHolds, PTL DEF Spec, AbandonedForGood

-----------------------------------------------------------------------------
(* The ledger.                                                             *)

State == [k \in Keys |-> IF row[k] \in {"queued", "claimed"} THEN "open" ELSE row[k]]

LEMMA StateOf == \A k \in Keys : State[k] = IF row[k] \in {"queued", "claimed"}
                                           THEN "open" ELSE row[k]
BY DEF State

\* The queue keeps the ledger: every request that is taken gets one outcome, by
\* the run that holds it last, and no row opens again without a request.
THEOREM QueueIsLedger == Spec => LedgerSpec
<1>1. Init => Ledger!RInit
  BY DEF Init, Ledger!RInit
<1>2. ASSUME IInv, [Next]_vars PROVE [Ledger!RNext]_State
  <2> USE <1>2 DEF Ledger!RNext, Ledger!Outcomes
  <2>1. ASSUME UNCHANGED row PROVE UNCHANGED State
    BY <2>1 DEF State
  <2>2. CASE Claim
    <3>1. PICK S \in SUBSET Claimable :
            row' = [j \in Keys |-> IF j \in S THEN "claimed" ELSE row[j]]
      BY <2>2 DEF Claim
    <3>2. \A j \in S : row[j] \in {"queued", "claimed"}
      BY DEF Claimable, IInv, TypeOK
    <3>3. UNCHANGED State
      BY <3>1, <3>2 DEF State
    <3> QED BY <3>3
  <2>3. ASSUME NEW k \in Keys, Ask(k) PROVE Ledger!Request(k) \/ UNCHANGED State
    <3>1. CASE Takes(k)
      <4>1. row' = [row EXCEPT ![k] = "queued"]
        BY <2>3, <3>1 DEF Ask
      <4>2. State' = [State EXCEPT ![k] = "open"]
        BY <4>1 DEF State, IInv, TypeOK
      <4>3. State[k] = "none" \/ (k \notin Build /\ State[k] \in {"completed", "failed"})
        BY <3>1, StateOf DEF Takes
      <4> QED BY <4>2, <4>3 DEF Ledger!Request, State
    <3>2. CASE ~Takes(k)
      BY <2>1, <2>3, <3>2 DEF Ask, queueVars
    <3> QED BY <3>1, <3>2
  <2>4. ASSUME NEW k \in Keys, Mark(k) PROVE Ledger!Close(k)
    <3>1. row[k] = "claimed" /\ result \in {"completed", "blocked", "failed"}
      BY <2>4, HandClaimed DEF Mark, IInv, TypeOK, RunShape, Result
    <3>2. row' = [row EXCEPT ![k] = result]
      BY <2>4 DEF Mark
    <3>3. State' = [State EXCEPT ![k] = result]
      BY <3>1, <3>2 DEF State, IInv, TypeOK
    <3>4. State[k] = "open"
      BY <3>1, StateOf
    <3> QED BY <3>1, <3>3, <3>4 DEF Ledger!Close, State
  <2>5. ASSUME NEW k \in Keys,
               Change(k) \/ GiveUp(k) \/ Read(k) \/ Save(k) \/ Expire(k) \/ Grow(k)
        PROVE  UNCHANGED State
    BY <2>1, <2>5 DEF Change, GiveUp, Read, Save, Expire, Grow, queueVars
  <2>6. CASE (\E j \in Keys : Raise(j)) \/ Crash \/ UNCHANGED vars
    BY <2>1, <2>6 DEF Raise, Crash, queueVars, vars
  <2> QED BY <2>2, <2>3, <2>4, <2>5, <2>6 DEF Next
<1> QED BY <1>1, <1>2, IInvHolds, PTL DEF Spec, LedgerSpec, Ledger!RSpec, State
=============================================================================
