-------------------------- MODULE BootstrapProofs --------------------------
(***************************************************************************)
(* What holds of Bootstrap for every value of its constants: the types,    *)
(* the soundness of a completed row, of the checkpoint and of the final    *)
(* verification, the candle table it leaves to others, and its descent.    *)
(***************************************************************************)
EXTENDS Bootstrap, FiniteSetTheorems, TLAPS

LEMMA TargetWindowType ==
  ASSUME TypeOK
  PROVE  TargetWindow \in Window
BY ConstantsOK DEF TypeOK, TargetWindow, Window, Larger, Time

LEMMA BarsType ==
  ASSUME NEW w \in Window
  PROVE  Bars(w) \subseteq Bar
BY ConstantsOK DEF Window, Bars, Bar, Time

\* A chunk lies between the window's start and the checkpoint.
LEMMA ChunkType ==
  ASSUME TypeOK, ckpt > win.start
  PROVE  /\ ChunkStart \in Time
         /\ win.start <= ChunkStart
         /\ ChunkStart < ckpt
         /\ Chunk \subseteq Bar
BY ConstantsOK DEF TypeOK, ChunkStart, Chunk, Larger, Window, Time, Bar

\* Type correctness: every variable stays in its declared range; in
\* particular the stored checkpoint never leaves the clock's range and the
\* error streak stays below the circuit breaker's limit.
THEOREM TypeCorrect == Spec => []TypeOK
<1>1. Init => TypeOK
  <2> SUFFICES ASSUME Init PROVE TypeOK
    OBVIOUS
  <2>1. table \in [Bar -> {"none", "ok", "bad"}] /\ stray \subseteq Bar
    <3>1. PICK t \in [Bar -> {"none", "bad"}] : table = t
      BY DEF Init
    <3>2. QED
      BY <3>1, ConstantsOK DEF Init, Bar
  <2>2. [start |-> 0, end |-> 0] \in Window /\ 0 \in Time /\ 0 \in 0..(BreakAfter-1)
    BY ConstantsOK DEF Window, Time
  <2>3. row \in [status: Status, start: Nat, end: Time, ckpt: Time]
    BY <2>2 DEF Init, Status
  <2>4. QED
    BY <2>1, <2>2, <2>3 DEF Init, TypeOK, RunPC
<1>2. TypeOK /\ [Next]_vars => TypeOK'
  <2> SUFFICES ASSUME TypeOK, [Next]_vars PROVE TypeOK'
    OBVIOUS
  <2> USE DEF TypeOK, tableVars, runVars, recoVars
  <2>0. [start |-> 0, end |-> 0] \in Window /\ 0 \in Time /\ 0 \in 0..(BreakAfter-1)
    BY ConstantsOK DEF Window, Time
  <2>1. CASE Tick
    BY <2>1, ConstantsOK DEF Tick, Time
  <2>2. CASE StartDag
    BY <2>2, TargetWindowType, ConstantsOK DEF StartDag, Goto, RunPC
  <2>3. CASE DirectStart \/ RunStart
    <3>1. win' \in Window /\ ckpt' \in Time
      BY <2>3, TargetWindowType DEF DirectStart, RunStart, LoadState, Window
    <3>2. dry' \in BOOLEAN
      BY <2>3, ConstantsOK DEF DirectStart, RunStart
    <3>3. QED
      BY <2>3, <3>1, <3>2 DEF DirectStart, RunStart, LoadState, Goto, RunPC
  <2>4. CASE InitValid \/ InitRaw \/ RecValid \/ VerifyValid \/ VerifyRaw
    <3>1. ValidIn(win) \subseteq Bar
      BY BarsType DEF ValidIn
    <3>2. QED
      BY <2>4, <3>1 DEF InitValid, InitRaw, RecValid, VerifyValid, VerifyRaw,
                        Covered, Goto, RunPC
  <2>5. CASE InitSkip
    <3>1. row' \in [status: Status, start: Nat, end: Time, ckpt: Time]
      <4>1. CASE UNCHANGED row
        BY <4>1
      <4>2. CASE Bars(win) # {} /\ Upsert("completed", win, win.start)
        <5>1. PICK b : b \in win.start .. (win.end - 1)
          BY <4>2 DEF Bars
        <5>2. win.start \in Time
          BY <5>1, ConstantsOK DEF Window, Time
        <5>3. QED
          BY <4>2, <5>2 DEF Upsert, Window, Status
      <4>3. QED
        BY <2>5, <4>1, <4>2 DEF InitSkip
    <3>2. QED
      BY <2>5, <2>0, <3>1 DEF InitSkip, Leave, RunPC
  <2>6. CASE InitPending \/ RecPut \/ Begin
    BY <2>6, <2>0 DEF InitPending, RecPut, Begin, Upsert, Goto, RunPC, Window, Status
  <2>7. CASE DryStop \/ RecRaw \/ Crash
    BY <2>7, <2>0 DEF DryStop, RecRaw, Crash, Leave, Goto, RunPC
  <2>8. CASE FetchOk
    <3>1. page' \subseteq Bar /\ asked' \subseteq Bar
      BY <2>8, ChunkType DEF FetchOk
    <3>2. pc' \in RunPC /\ (pc' \in {"write", "save"} => ckpt' > win'.start)
      BY <2>8 DEF FetchOk, Goto, RunPC
    <3>3. /\ streak' = 0
          /\ UNCHANGED <<now, tableVars, row, win, ckpt, dry, was, seen, verdict,
                         recoVars, spc>>
      BY <2>8 DEF FetchOk
    <3>4. QED
      BY <2>0, <3>1, <3>2, <3>3
  <2>9. CASE FetchFail
    <3>1. CASE streak + 1 >= BreakAfter
      <4>1. /\ Upsert("stuck", win, ckpt) /\ Leave
            /\ UNCHANGED <<now, tableVars, recoVars, spc, asked>>
        BY <2>9, <3>1 DEF FetchFail
      <4>2. QED
        BY <2>0, <4>1 DEF Upsert, Leave, RunPC, Window, Status
    <3>2. CASE ~(streak + 1 >= BreakAfter)
      <4>1. streak' \in 0..(BreakAfter-1)
        BY <2>9, <3>2, ConstantsOK DEF FetchFail
      <4>2. QED
        BY <2>9, <3>2, <4>1 DEF FetchFail
    <3>3. QED
      BY <3>1, <3>2
  <2>10. CASE WritePage
    BY <2>10, ChunkType DEF WritePage, Goto, RunPC
  <2>11. CASE Save
    BY <2>11, ChunkType DEF Save, Upsert, Goto, RunPC, Window, Status
  <2>12. CASE Finish
    BY <2>12, <2>0 DEF Finish, Upsert, Leave, RunPC, Window, Status
  <2>13. CASE RecoStart \/ RecoValid \/ RecoRaw \/ RecoPut
    <3>1. ValidIn(rwin) \subseteq Bar
      BY BarsType DEF ValidIn
    <3>2. QED
      BY <2>13, <3>1, TargetWindowType
         DEF RecoStart, RecoValid, RecoRaw, RecoPut, Upsert, Window, Status
  <2>14. CASE SweepCheck \/ SweepDelete \/ CliCleanup \/ OtherWrite
    BY <2>14 DEF SweepCheck, SweepDelete, CliCleanup, OtherWrite, DeleteOld
  <2>15. CASE UNCHANGED vars
    BY <2>15 DEF vars
  <2>16. QED
    BY <2>1, <2>2, <2>3, <2>4, <2>5, <2>6, <2>7, <2>8, <2>9, <2>10, <2>11,
       <2>12, <2>13, <2>14, <2>15 DEF Next, RunStep
<1>3. QED
  BY <1>1, <1>2, PTL DEF Spec

-----------------------------------------------------------------------------
(***************************************************************************)
(* A completed row.  What the two reads of count_valid_candles saw may be  *)
(* deleted before the row is written, so the invariant is about bars that  *)
(* are stored or were stored; that fact no step ever undoes.               *)
(***************************************************************************)

CompletedInv ==
  /\ CompletedNeverSkips
  /\ \A b \in seen : Kept(b)
  /\ pc \in {"init_put", "finish"} /\ verdict => \A b \in Bars(win) : Kept(b)

LEMMA KeptForever ==
  ASSUME TypeOK, [Next]_vars, NEW b \in Bar, Kept(b)
  PROVE  Kept(b)'
<1> USE DEF Kept
<1>1. CASE WritePage
  BY <1>1 DEF WritePage
<1>2. CASE SweepDelete \/ CliCleanup
  BY <1>2 DEF SweepDelete, CliCleanup, DeleteOld
<1>3. CASE OtherWrite
  BY <1>3 DEF OtherWrite, TypeOK
<1>4. CASE UNCHANGED tableVars
  BY <1>4 DEF tableVars
<1>5. CASE UNCHANGED vars
  BY <1>4, <1>5 DEF vars
<1>6. QED
  BY <1>1, <1>2, <1>3, <1>4, <1>5
     DEF Next, RunStep, Tick, StartDag, DirectStart, RunStart, LoadState, Crash,
         InitValid, InitRaw, InitSkip, InitPending, DryStop, RecValid, RecRaw,
         RecPut, Begin, FetchOk, FetchFail, Save, VerifyValid, VerifyRaw, Finish,
         RecoStart, RecoValid, RecoRaw, RecoPut, SweepCheck, tableVars

\* A bar missing from the window of a completed row was deleted after it had
\* been stored, for every instrument, window, page size and clock, and with
\* every tool an operator may run beside the DAG.
THEOREM CompletedSound == Spec => []CompletedNeverSkips
<1>1. Init => CompletedInv
  BY DEF Init, CompletedInv, CompletedNeverSkips
<1>2. TypeOK /\ CompletedInv /\ [Next]_vars => CompletedInv'
  <2> SUFFICES ASSUME TypeOK, CompletedInv, [Next]_vars PROVE CompletedInv'
    OBVIOUS
  <2>1. Bars(win) \subseteq Bar /\ Bars(row) \subseteq Bar
    BY BarsType, ConstantsOK DEF TypeOK, Window, Bars, Bar, Time
  <2>2. \A b \in Bar : Kept(b) => Kept(b)'
    BY KeptForever
  <2>3. (\A b \in seen' : Kept(b)')
    <3>1. seen' \subseteq seen \/ seen' = ValidIn(win)
      BY DEF Next, RunStep, Tick, StartDag, DirectStart, RunStart, LoadState,
         Crash, InitValid, InitRaw, InitSkip, InitPending, DryStop, RecValid,
         RecRaw, RecPut, Begin, FetchOk, FetchFail, WritePage, Save,
         VerifyValid, VerifyRaw, Finish, RecoStart, RecoValid, RecoRaw, RecoPut,
         SweepCheck, SweepDelete, CliCleanup, OtherWrite, Leave, vars, runVars
    <3>2. \A b \in ValidIn(win) : b \in Bar /\ Kept(b)
      BY <2>1 DEF ValidIn, Kept
    <3>3. QED
      BY <2>2, <3>1, <3>2 DEF TypeOK, CompletedInv
  <2>4. CompletedNeverSkips'
    <3>1. CASE UNCHANGED row
      BY <2>1, <2>2, <3>1 DEF CompletedInv, CompletedNeverSkips, Bars
    <3>2. CASE row'.status # "completed"
      BY <3>2 DEF CompletedNeverSkips
    <3>3. CASE /\ pc \in {"init_put", "finish"} /\ verdict
               /\ row'.start = win.start /\ row'.end = win.end
      BY <2>1, <2>2, <3>3 DEF CompletedInv, CompletedNeverSkips, Bars
    <3>4. CASE InitSkip \/ Finish
      BY <3>1, <3>2, <3>3, <3>4 DEF InitSkip, Finish, Upsert
    <3>5. QED
      BY <3>1, <3>2, <3>4
         DEF Next, RunStep, Tick, StartDag, DirectStart, RunStart, LoadState,
         Crash, InitValid, InitRaw, InitPending, DryStop, RecValid, RecRaw,
         RecPut, Begin, FetchOk, FetchFail, WritePage, Save, VerifyValid,
         VerifyRaw, RecoStart, RecoValid, RecoRaw, RecoPut, SweepCheck,
         SweepDelete, CliCleanup, OtherWrite, Upsert, vars
  <2>5. (pc' \in {"init_put", "finish"} /\ verdict') => \A b \in Bars(win') : Kept(b)'
    <3>1. CASE InitRaw \/ VerifyRaw
      BY <2>1, <2>2, <3>1 DEF InitRaw, VerifyRaw, Covered, CompletedInv, TypeOK
    <3>2. CASE UNCHANGED <<pc, win, verdict>>
      BY <2>1, <2>2, <3>2 DEF CompletedInv
    <3>3. CASE pc' \notin {"init_put", "finish"}
      BY <3>3
    <3>4. QED
      BY <3>1, <3>2, <3>3
         DEF Next, RunStep, Tick, StartDag, DirectStart, RunStart, LoadState,
         Crash, InitValid, InitSkip, InitPending, DryStop, RecValid, RecRaw,
         RecPut, Begin, FetchOk, FetchFail, WritePage, Save, VerifyValid,
         Finish, RecoStart, RecoValid, RecoRaw, RecoPut, SweepCheck,
         SweepDelete, CliCleanup, OtherWrite, Leave, Goto, vars, runVars
  <2>6. QED
    BY <2>3, <2>4, <2>5 DEF CompletedInv, Bars, Kept
<1>3. CompletedInv => CompletedNeverSkips
  BY DEF CompletedInv
<1>4. QED
  BY <1>1, <1>2, <1>3, TypeCorrect, PTL DEF Spec

-----------------------------------------------------------------------------
(***************************************************************************)
(* The stored checkpoint.  The row is written from the run's memory, so    *)
(* the invariant carries the claim from the row into the run when it       *)
(* resumes, through the loop, and back into the row at every save.  It     *)
(* holds of the runs the DAG makes: run_bootstrap called by hand with      *)
(* dry_run moves the checkpoint over chunks it does not write.             *)
(***************************************************************************)

RowEarned ==
  row.status \in Resumable => \A b \in row.ckpt .. (row.end - 1) : b \in asked

RunEarned ==
  /\ pc \in {"rec_valid", "rec_raw", "rec_put"} => ckpt = win.end
  /\ pc = "begin" => \/ ckpt = win.end
                     \/ \A b \in ckpt .. (win.end - 1) : b \in asked
  /\ pc \in {"loop", "write", "save", "verify_raw", "finish"} =>
       \A b \in ckpt .. (win.end - 1) : b \in asked
  /\ pc = "save" => Chunk \subseteq asked

\* The pool's task never runs dry, and starts on a row init left unfinished.
RunIsWet ==
  /\ pc \in PoolPC => ~dry
  /\ pc = "queued" => row.status \in {"pending", "incomplete"}

CheckpointInv == RowEarned /\ RunEarned /\ RunIsWet

\* The chunk and the bars above it are the bars above the next checkpoint.
LEMMA ChunkJoins ==
  ASSUME TypeOK, ckpt > win.start,
         NEW b \in ChunkStart .. (win.end - 1)
  PROVE  b \in Chunk \/ b \in ckpt .. (win.end - 1)
BY ChunkType DEF Chunk, TypeOK, Window, Time

\* The stored checkpoint is never ahead of the data: every bar between it and
\* the window's end belongs to a chunk whose answer is in the table.
THEOREM CheckpointSound ==
  ASSUME OperatorTools = FALSE
  PROVE  Spec => []CheckpointEarned
<1>1. Init => CheckpointInv
  BY DEF Init, CheckpointInv, RowEarned, RunEarned, RunIsWet, Resumable, PoolPC
<1>2. TypeOK /\ CheckpointInv /\ [Next]_vars => CheckpointInv'
  <2> SUFFICES ASSUME TypeOK, CheckpointInv, [Next]_vars PROVE CheckpointInv'
    OBVIOUS
  <2> USE DEF CheckpointInv, PoolPC, RunPC
  <2>1. CASE UNCHANGED <<row, pc, win, ckpt, dry, asked>>
    BY <2>1 DEF RowEarned, RunEarned, RunIsWet, Chunk, ChunkStart
  <2>2. CASE Tick \/ OtherWrite \/ SweepCheck \/ SweepDelete
             \/ RecoStart \/ RecoValid \/ RecoRaw
    BY <2>1, <2>2 DEF Tick, OtherWrite, SweepCheck, SweepDelete, RecoStart,
                      RecoValid, RecoRaw, runVars
  <2>3. CASE StartDag \/ InitValid \/ InitRaw \/ DryStop \/ Crash
    BY <2>3 DEF StartDag, InitValid, InitRaw, DryStop, Crash, Leave, Goto,
                RowEarned, RunEarned, RunIsWet
  <2>4. CASE InitSkip
    BY <2>4 DEF InitSkip, Upsert, Leave, Resumable, RowEarned, RunEarned, RunIsWet
  <2>5. CASE InitPending
    BY <2>5 DEF InitPending, Upsert, Goto, TypeOK, Window, Time,
                RowEarned, RunEarned, RunIsWet
  <2>6. CASE RunStart
    <3>1. row.status \in Resumable /\ ~dry
      BY <2>6 DEF RunStart, RunIsWet, Resumable
    <3>2. /\ pc' = "begin" /\ UNCHANGED <<row, asked, dry>>
          /\ \/ ckpt' = win'.end
             \/ ckpt' = row.ckpt /\ win'.end = row.end
      BY <2>6, <3>1 DEF RunStart, LoadState, Reinitialize, Goto, Resumable
    <3>3. QED
      BY <3>1, <3>2 DEF RowEarned, RunEarned, RunIsWet
  <2>7. CASE RecValid \/ RecRaw
    BY <2>7 DEF RecValid, RecRaw, Leave, Goto, RowEarned, RunEarned, RunIsWet
  <2>8. CASE RecPut
    BY <2>8 DEF RecPut, Upsert, Goto, TypeOK, Window, Time,
                RowEarned, RunEarned, RunIsWet
  <2>9. CASE Begin
    <3>1. \A b \in ckpt .. (win.end - 1) : b \in asked'
      BY <2>9 DEF Begin, RunEarned, TypeOK, Window, Time
    <3>2. QED
      BY <2>9, <3>1 DEF Begin, Upsert, Goto, RowEarned, RunEarned, RunIsWet
  <2>10. CASE FetchOk
    BY <2>10 DEF FetchOk, Goto, Chunk, ChunkStart, RowEarned, RunEarned, RunIsWet
  <2>11. CASE FetchFail
    BY <2>11 DEF FetchFail, Upsert, Leave, Resumable, RowEarned, RunEarned, RunIsWet
  <2>12. CASE WritePage
    BY <2>12 DEF WritePage, Goto, Chunk, ChunkStart, RowEarned, RunEarned, RunIsWet
  <2>13. CASE Save
    <3>1. \A b \in ChunkStart .. (win.end - 1) : b \in asked
      BY <2>13, ChunkJoins DEF Save, RunEarned, TypeOK
    <3>2. QED
      BY <2>13, <3>1 DEF Save, Upsert, Goto, RowEarned, RunEarned, RunIsWet
  <2>14. CASE VerifyValid \/ VerifyRaw
    BY <2>14 DEF VerifyValid, VerifyRaw, Goto, RowEarned, RunEarned, RunIsWet
  <2>15. CASE Finish
    BY <2>15 DEF Finish, Upsert, Leave, Resumable, RowEarned, RunEarned, RunIsWet
  <2>16. CASE RecoPut
    BY <2>16 DEF RecoPut, Upsert, runVars, TypeOK, Window, Time, Chunk, ChunkStart,
                 RowEarned, RunEarned, RunIsWet
  <2>17. CASE UNCHANGED vars
    BY <2>1, <2>17 DEF vars, runVars
  <2>18. QED
    BY <2>2, <2>3, <2>4, <2>5, <2>6, <2>7, <2>8, <2>9, <2>10, <2>11, <2>12,
       <2>13, <2>14, <2>15, <2>16, <2>17
       DEF Next, RunStep, DirectStart, CliCleanup
<1>3. CheckpointInv => CheckpointEarned
  BY DEF CheckpointInv, RowEarned, CheckpointEarned
<1>4. QED
  BY <1>1, <1>2, <1>3, TypeCorrect, PTL DEF Spec

-----------------------------------------------------------------------------
(***************************************************************************)
(* Completion declared in the pool.  While the run holds the only slot no  *)
(* sweep is past its check, so what the verifying reads found stored stays *)
(* stored until the row is written.                                        *)
(***************************************************************************)

FreshInv ==
  /\ pc \in PoolPC => spc = "idle"
  /\ pc \in {"loop", "write", "save", "verify_raw", "finish"} =>
       row.status # "completed"
  /\ pc = "verify_raw" => \A b \in seen : table[b] = "ok"
  /\ pc = "finish" /\ verdict => \A b \in Bars(win) : table[b] = "ok"

\* In the pool nothing but the run's own page and other writers' candles
\* changes the table.
LEMMA StoredStays ==
  ASSUME OperatorTools = FALSE, TypeOK, FreshInv, [Next]_vars,
         pc \in {"verify_raw", "finish"},
         NEW b \in Bar, table[b] = "ok"
  PROVE  table'[b] = "ok"
<1>1. spc = "idle"
  BY DEF FreshInv, PoolPC, RunPC
<1>2. CASE OtherWrite
  BY <1>2 DEF OtherWrite, TypeOK
<1>3. CASE UNCHANGED table
  BY <1>3
<1>4. QED
  BY <1>1, <1>2, <1>3
     DEF Next, RunStep, Tick, StartDag, DirectStart, RunStart, LoadState, Crash,
         InitValid, InitRaw, InitSkip, InitPending, DryStop, RecValid, RecRaw,
         RecPut, Begin, FetchOk, FetchFail, WritePage, Save, VerifyValid,
         VerifyRaw, Finish, RecoStart, RecoValid, RecoRaw, RecoPut, SweepCheck,
         SweepDelete, CliCleanup, tableVars, vars

LEMMA FreshHolds ==
  ASSUME OperatorTools = FALSE, Pooled = TRUE
  PROVE  Spec => [](TypeOK /\ FreshInv)
<1>1. Init => FreshInv
  BY DEF Init, FreshInv, PoolPC
<1>2. TypeOK /\ FreshInv /\ [Next]_vars => FreshInv'
  <2> SUFFICES ASSUME TypeOK, FreshInv, [Next]_vars PROVE FreshInv'
    OBVIOUS
  <2> USE DEF PoolPC, RunPC
  <2>1. Bars(win) \subseteq Bar /\ seen \subseteq Bar
    BY BarsType DEF TypeOK
  <2>2. CASE VerifyValid \/ VerifyRaw
    BY <2>1, <2>2 DEF VerifyValid, VerifyRaw, Goto, ValidIn, Covered, FreshInv,
                      tableVars, TypeOK
  <2>3. CASE /\ pc' \in {"verify_raw", "finish"}
             /\ UNCHANGED <<pc, win, seen, verdict>>
    <3>1. /\ pc' = "verify_raw" => \A b \in seen' : table'[b] = "ok"
          /\ pc' = "finish" /\ verdict' => \A b \in Bars(win') : table'[b] = "ok"
      BY <2>1, <2>3, StoredStays DEF FreshInv
    <3>2. spc' = "idle" /\ row'.status # "completed"
      BY <2>3
         DEF FreshInv, Next, RunStep, Tick, StartDag, DirectStart, RunStart,
         LoadState, Crash, InitValid, InitRaw, InitSkip, InitPending, DryStop,
         RecValid, RecRaw, RecPut, Begin, FetchOk, FetchFail, WritePage, Save,
         VerifyValid, VerifyRaw, Finish, RecoStart, RecoValid, RecoRaw, RecoPut,
         SweepCheck, SweepDelete, CliCleanup, OtherWrite, Upsert, Leave, PoolFree,
         Goto, vars
    <3>3. QED
      BY <2>3, <3>1, <3>2 DEF FreshInv
  <2>4. CASE /\ pc' \notin {"verify_raw", "finish"}
             /\ pc' \in PoolPC => spc' = "idle"
             /\ pc' \in {"loop", "write", "save"} => row'.status # "completed"
    BY <2>4 DEF FreshInv
  <2>5. CASE RunStep \/ StartDag \/ Crash
    BY <2>2, <2>3, <2>4, <2>5
       DEF FreshInv, RunStep, StartDag, RunStart, LoadState, Crash, InitValid,
       InitRaw, InitSkip, InitPending, DryStop, RecValid, RecRaw, RecPut, Begin,
       FetchOk, FetchFail, WritePage, Save, Finish, Upsert, Leave, PoolFree, Goto,
       runVars
  <2>6. CASE UNCHANGED runVars
    BY <2>3, <2>4, <2>6
       DEF FreshInv, runVars, vars, Next, RunStep, Tick, StartDag, DirectStart,
       RunStart, LoadState, Crash, InitValid, InitRaw, InitSkip, InitPending,
       DryStop, RecValid, RecRaw, RecPut, Begin, FetchOk, FetchFail, WritePage,
       Save, VerifyValid, VerifyRaw, Finish, RecoStart, RecoValid, RecoRaw,
       RecoPut, SweepCheck, SweepDelete, CliCleanup, OtherWrite, Upsert, Leave,
       Goto, PoolFree, TypeOK
  <2>7. QED
    BY <2>5, <2>6
       DEF Next, Tick, DirectStart, RecoStart, RecoValid, RecoRaw, RecoPut,
           SweepCheck, SweepDelete, CliCleanup, OtherWrite, vars
<1>3. QED
  BY <1>1, <1>2, TypeCorrect, PTL DEF Spec

\* Completion is declared by the step Finish on a positive verdict.
LEMMA DeclaredByFinish ==
  ASSUME FreshInv, Next, pc = "finish", row'.status = "completed"
  PROVE  verdict
<1>1. row' # row
  BY DEF FreshInv
<1>2. QED
  BY <1>1 DEF Next, RunStep, Tick, StartDag, DirectStart, RunStart, LoadState,
     Crash, InitValid, InitRaw, InitSkip, InitPending, DryStop, RecValid, RecRaw,
     RecPut, Begin, FetchOk, FetchFail, WritePage, Save, VerifyValid, VerifyRaw,
     Finish, RecoStart, RecoValid, RecoRaw, RecoPut, SweepCheck, SweepDelete,
     CliCleanup, OtherWrite, Upsert

\* When the run declares completion every bar of its window is stored at that
\* very moment, provided the bootstrap task and the sweep share a one-slot pool
\* and nobody runs the tools beside it.
THEOREM FinishFresh ==
  ASSUME OperatorTools = FALSE, Pooled = TRUE
  PROVE  Spec => FinishIsFresh
<1>1. FreshInv /\ [Next]_vars =>
        [(pc = "finish" /\ row'.status = "completed")
           => \A b \in Bars(win) : table[b] = "ok"]_vars
  BY DeclaredByFinish DEF FreshInv
<1>2. QED
  BY <1>1, FreshHolds, PTL DEF Spec, FinishIsFresh

-----------------------------------------------------------------------------
(***************************************************************************)
(* The two counts.  In the pool no valid row is lost between them, so that *)
(* equal counts leave no room for a misaligned row.                        *)
(***************************************************************************)

CleanInv ==
  /\ pc = "verify_raw" => seen \subseteq Bars(win)
  /\ pc = "finish" /\ verdict => Bars(win) \cap stray = {}

\* Misaligned rows are only ever deleted.
LEMMA StraysShrink ==
  ASSUME TypeOK, [Next]_vars
  PROVE  stray' \subseteq stray
BY DEF Next, RunStep, Tick, StartDag, DirectStart, RunStart, LoadState, Crash,
       InitValid, InitRaw, InitSkip, InitPending, DryStop, RecValid, RecRaw,
       RecPut, Begin, FetchOk, FetchFail, WritePage, Save, VerifyValid,
       VerifyRaw, Finish, RecoStart, RecoValid, RecoRaw, RecoPut, SweepCheck,
       SweepDelete, CliCleanup, OtherWrite, DeleteOld, tableVars, vars

\* If what was seen is still stored and there are not more rows than that, no
\* row is misaligned.
LEMMA NoRoomForStrays ==
  ASSUME TypeOK, FreshInv, CleanInv, pc = "verify_raw", Covered(win, seen)
  PROVE  Bars(win) \cap stray = {}
<1> DEFINE R == {b \in Bars(win) : table[b] # "none"}
           S == stray \cap Bars(win)
<1>1. Bars(win) \subseteq Bar /\ IsFiniteSet(Bar)
  BY BarsType, ConstantsOK, FS_Interval DEF TypeOK, Bar
<1>2. seen \in SUBSET R
  BY DEF FreshInv, CleanInv
<1>3. R \in SUBSET Bar /\ S \in SUBSET Bar
  BY <1>1
<1>4. /\ IsFiniteSet(R) /\ IsFiniteSet(S)
      /\ Cardinality(R) \in Nat /\ Cardinality(S) \in Nat
  <2> HIDE DEF R, S
  <2> QED BY <1>1, <1>3, FS_Subset, FS_CardinalityType
<1>5. Cardinality(seen) <= Cardinality(R) /\ Cardinality(seen) \in Nat
  <2> HIDE DEF R
  <2> QED BY <1>2, <1>4, FS_Subset, FS_CardinalityType
<1>6. Cardinality(R) + Cardinality(S) <= Cardinality(seen)
  BY DEF Covered, RawCount
<1>7. Cardinality(S) = 0
  <2> HIDE DEF R, S
  <2> QED BY <1>4, <1>5, <1>6
<1>8. QED
  BY <1>4, <1>7, FS_EmptySet

\* Nor is a misaligned row in the window when the run declares completion.
THEOREM FinishClean ==
  ASSUME OperatorTools = FALSE, Pooled = TRUE
  PROVE  Spec => FinishIsClean
<1>1. Init => CleanInv
  BY DEF Init, CleanInv
<1>2. (TypeOK /\ FreshInv) /\ CleanInv /\ [Next]_vars => CleanInv'
  <2> SUFFICES ASSUME TypeOK, FreshInv, CleanInv, [Next]_vars PROVE CleanInv'
    OBVIOUS
  <2>1. stray' \subseteq stray
    BY StraysShrink
  <2>2. CASE VerifyValid
    BY <2>2 DEF VerifyValid, Goto, ValidIn, CleanInv
  <2>3. CASE VerifyRaw
    BY <2>1, <2>3, NoRoomForStrays DEF VerifyRaw, Goto, CleanInv
  <2>4. CASE UNCHANGED <<pc, win, seen, verdict>>
    BY <2>1, <2>4 DEF CleanInv
  <2>5. CASE pc' \notin {"verify_raw", "finish"}
    BY <2>5 DEF CleanInv
  <2>6. QED
    BY <2>2, <2>3, <2>4, <2>5
       DEF Next, RunStep, Tick, StartDag, DirectStart, RunStart, LoadState, Crash,
       InitValid, InitRaw, InitSkip, InitPending, DryStop, RecValid, RecRaw, RecPut,
       Begin, FetchOk, FetchFail, WritePage, Save, Finish, RecoStart, RecoValid,
       RecoRaw, RecoPut, SweepCheck, SweepDelete, CliCleanup, OtherWrite, Leave,
       Goto, runVars, vars
<1>3. FreshInv /\ CleanInv /\ [Next]_vars =>
        [(pc = "finish" /\ row'.status = "completed") => Bars(win) \cap stray = {}]_vars
  BY DeclaredByFinish DEF CleanInv
<1>4. QED
  BY <1>1, <1>2, <1>3, FreshHolds, PTL DEF Spec, FinishIsClean
-----------------------------------------------------------------------------
(***************************************************************************)
(* The candle table.  No window ends after the bar that is open, neither   *)
(* the run's nor the row's nor the reconcile step's, so no page holds it.  *)
(***************************************************************************)

Clocked ==
  /\ win.end <= now /\ row.end <= now /\ rwin.end <= now
  /\ ckpt <= now /\ row.ckpt <= now
  /\ \A b \in page : b < now

LEMMA ClockedNext ==
  ASSUME TypeOK, Clocked, [Next]_vars
  PROVE  Clocked'
<1> USE DEF TypeOK, Clocked, tableVars, runVars, recoVars, Window, Time
<1>0. 0 <= now /\ TargetWindow.end = now
  BY DEF TargetWindow
<1>1. CASE Tick
  BY <1>1, ConstantsOK DEF Tick, Bar
<1>2. CASE StartDag \/ RecoStart
  BY <1>0, <1>2 DEF StartDag, RecoStart
<1>3. CASE RunStart \/ DirectStart
  BY <1>0, <1>3 DEF RunStart, DirectStart, LoadState
<1>4. CASE InitSkip
  <2>1. CASE UNCHANGED row
    BY <1>0, <1>4, <2>1 DEF InitSkip, Leave
  <2>2. CASE Bars(win) # {} /\ Upsert("completed", win, win.start)
    <3>1. PICK b : b \in win.start .. (win.end - 1)
      BY <2>2 DEF Bars
    <3>2. win.start <= now
      BY <3>1, ConstantsOK
    <3>3. QED
      BY <1>0, <1>4, <2>2, <3>2 DEF InitSkip, Upsert, Leave
  <2>3. QED
    BY <1>4, <2>1, <2>2 DEF InitSkip
<1>5. CASE InitPending \/ RecPut \/ Begin \/ RecoPut
  BY <1>5 DEF InitPending, RecPut, Begin, RecoPut, Upsert
<1>6. CASE DryStop \/ RecRaw \/ Crash
  BY <1>0, <1>6 DEF DryStop, RecRaw, Crash, Leave
<1>7. CASE FetchOk
  <2>1. \A b \in Chunk : b < now
    BY <1>7, ChunkType, ConstantsOK DEF FetchOk, Chunk
  <2>2. QED
    BY <1>7, <2>1 DEF FetchOk
<1>8. CASE FetchFail
  <2>1. CASE streak + 1 >= BreakAfter
    BY <1>0, <1>8, <2>1 DEF FetchFail, Upsert, Leave
  <2>2. CASE ~(streak + 1 >= BreakAfter)
    BY <1>8, <2>2 DEF FetchFail
  <2>3. QED
    BY <2>1, <2>2
<1>9. CASE Save
  <2>1. ChunkStart <= now
    BY <1>9, ChunkType, ConstantsOK DEF Save
  <2>2. QED
    BY <1>9, <2>1 DEF Save, Upsert
<1>10. CASE Finish
  BY <1>0, <1>10 DEF Finish, Upsert, Leave
<1>11. CASE InitValid \/ InitRaw \/ RecValid \/ WritePage \/ VerifyValid \/ VerifyRaw
             \/ RecoValid \/ RecoRaw \/ SweepCheck \/ SweepDelete \/ CliCleanup
             \/ OtherWrite \/ UNCHANGED vars
  BY <1>11 DEF InitValid, InitRaw, RecValid, WritePage, VerifyValid, VerifyRaw,
               RecoValid, RecoRaw, SweepCheck, SweepDelete, CliCleanup, OtherWrite, vars
<1>12. QED
  BY <1>1, <1>2, <1>3, <1>4, <1>5, <1>6, <1>7, <1>8, <1>9, <1>10, <1>11
     DEF Next, RunStep

LEMMA ClockedHolds == Spec => []Clocked
<1>1. Init => Clocked
  BY ConstantsOK DEF Init, Clocked, Time
<1>2. QED
  BY <1>1, ClockedNext, TypeCorrect, PTL DEF Spec

Valid == {b \in Bar : table[b] = "ok"}

\* The backfill keeps what the table's other users rely on: whatever window it
\* resumes and however stale its checkpoint is, it adds candles of closed bars
\* only, and only the sweep takes any away, the old ones.
THEOREM BootstrapKeepsTable == Spec => TableSpec
<1>1. Init => Table!TInit
  <2> SUFFICES ASSUME Init PROVE Table!TInit
    OBVIOUS
  <2>1. PICK t \in [Bar -> {"none", "bad"}] : table = t
    BY DEF Init
  <2>2. Valid = {}
    BY <2>1 DEF Valid
  <2>3. QED
    BY <2>2 DEF Init, Table!TInit, Time, Valid
<1>2. TypeOK /\ Clocked /\ [Next]_vars => [Table!TNext]_<<now, Valid>>
  <2> SUFFICES ASSUME TypeOK, Clocked, [Next]_vars
               PROVE  Table!TNext \/ UNCHANGED <<now, Valid>>
    OBVIOUS
  <2> USE DEF Table!TNext, Table!Closed, Table!TBar, Valid
  <2>1. CASE Tick
    BY <2>1 DEF Tick, Table!Clock, tableVars
  <2>2. CASE WritePage
    <3>1. page \subseteq {b \in Bar : b < now}
      BY DEF TypeOK, Clocked
    <3>2. Valid' = Valid \cup page /\ now' = now
      BY <2>2, <3>1 DEF WritePage
    <3>3. QED
      BY <3>1, <3>2 DEF Table!Write, Bar
  <2>3. CASE OtherWrite
    <3>1. PICK some \in SUBSET {b \in Bar : b < now /\ table[b] # "ok"} :
             table' = [b \in Bar |-> IF b \in some THEN "ok" ELSE table[b]]
      BY <2>3 DEF OtherWrite
    <3>2. Valid' = Valid \cup some /\ now' = now
      BY <2>3, <3>1 DEF OtherWrite
    <3>3. QED
      BY <3>1, <3>2 DEF Table!Write, Bar
  <2>4. CASE SweepDelete \/ CliCleanup
    <3>1. DeleteOld /\ now' = now
      BY <2>4 DEF SweepDelete, CliCleanup
    <3>2. \A b \in Bar : ~(b < now - Keep) <=> now - Keep <= b
      BY ConstantsOK DEF TypeOK, Time, Bar
    <3>3. Valid' = {b \in Valid : now - Keep <= b}
      BY <3>1, <3>2 DEF DeleteOld
    <3>4. QED
      BY <3>1, <3>3 DEF Table!Sweep
  <2>5. CASE UNCHANGED <<now, table>>
    BY <2>5
  <2>6. QED
    BY <2>1, <2>2, <2>3, <2>4, <2>5
       DEF Next, RunStep, StartDag, DirectStart, RunStart, LoadState, Crash,
       InitValid, InitRaw, InitSkip, InitPending, DryStop, RecValid, RecRaw,
       RecPut, Begin, FetchOk, FetchFail, Save, VerifyValid, VerifyRaw, Finish,
       RecoStart, RecoValid, RecoRaw, RecoPut, SweepCheck, tableVars, vars
<1>3. QED
  BY <1>1, <1>2, TypeCorrect, ClockedHolds, PTL
     DEF Spec, TableSpec, Table!TSpec, Valid

\* The other writers of the model are as free as the table lets them be: any
\* transaction of the table, outside the backfill's turn in the pool, is a step of
\* the model, so what is proved of the backfill holds beside any such writers.
THEOREM WritersAreFree ==
  ASSUME TypeOK, PoolFree, Table!Clock \/ Table!Write,
         table' = [b \in Bar |-> IF b \in Valid' \ Valid THEN "ok" ELSE table[b]],
         lost' = lost \ (Valid' \ Valid),
         UNCHANGED <<stray, row, runVars, recoVars, spc, asked>>
  PROVE  [Next]_vars
<1> DEFINE some == Valid' \ Valid
<1>1. CASE some = {}
  <2>1. UNCHANGED <<table, lost>>
    BY <1>1 DEF TypeOK
  <2>2. CASE Table!Clock
    BY <2>1, <2>2 DEF Table!Clock, Next, Tick, tableVars
  <2>3. CASE Table!Write
    BY <2>1, <2>3 DEF Table!Write, vars, tableVars
  <2>4. QED
    BY <2>2, <2>3
<1>2. CASE some # {}
  <2>1. Table!Write
    BY <1>2 DEF Table!Clock, Valid
  <2>2. now' = now /\ Valid' \subseteq Valid \cup {b \in Bar : b < now}
    BY <2>1 DEF Table!Write, Table!Closed, Table!TBar, Bar, Valid
  <2>3. some \in SUBSET {b \in Bar : b < now /\ table[b] # "ok"}
    BY <2>2 DEF Valid
  <2>4. QED
    BY <1>2, <2>2, <2>3 DEF OtherWrite, Next
<1>3. QED
  BY <1>1, <1>2

-----------------------------------------------------------------------------
(* The descent.                                                            *)

\* Every step of a run ends it or brings it nearer to its end, in an order that
\* has no infinite descent: later stages first, then the bars left below the
\* checkpoint, then the parts of a chunk and the failures the breaker allows.
\* An empty page, a short page or a fetch that fails cannot keep it going.
THEOREM BootstrapDescends == Spec => RunDescends
<1>1. TypeOK /\ [Next]_vars => [pc # "idle" => Descends \/ UNCHANGED runVars]_vars
  <2> SUFFICES ASSUME TypeOK, Next, pc # "idle"
               PROVE  Descends \/ UNCHANGED runVars
    BY DEF vars
  <2> USE DEF Descends, Stage, Part, Goto
  <2>1. CASE InitValid \/ InitRaw \/ InitPending \/ RecValid \/ RecPut \/ Begin
    BY <2>1 DEF InitValid, InitRaw, InitPending, RecValid, RecPut, Begin
  <2>2. CASE InitSkip \/ DryStop \/ Finish \/ Crash
    BY <2>2 DEF InitSkip, DryStop, Finish, Crash, Leave
  <2>3. CASE RunStart
    BY <2>3 DEF RunStart, LoadState
  <2>4. CASE RecRaw
    BY <2>4 DEF RecRaw, Leave
  <2>5. CASE FetchOk
    BY <2>5 DEF FetchOk
  <2>6. CASE FetchFail
    <3>1. CASE streak + 1 >= BreakAfter
      BY <2>6, <3>1 DEF FetchFail, Leave
    <3>2. CASE ~(streak + 1 >= BreakAfter)
      BY <2>6, <3>2, ConstantsOK DEF FetchFail, TypeOK
    <3>3. QED
      BY <3>1, <3>2
  <2>7. CASE WritePage
    BY <2>7 DEF WritePage
  <2>8. CASE Save
    BY <2>8, ChunkType DEF Save, TypeOK
  <2>9. CASE VerifyValid \/ VerifyRaw
    BY <2>9 DEF VerifyValid, VerifyRaw
  <2>10. CASE Tick \/ RecoStart \/ RecoValid \/ RecoRaw \/ RecoPut \/ SweepCheck
               \/ SweepDelete \/ CliCleanup \/ OtherWrite
    BY <2>10 DEF Tick, RecoStart, RecoValid, RecoRaw, RecoPut, SweepCheck,
                 SweepDelete, CliCleanup, OtherWrite
  <2>11. CASE StartDag \/ DirectStart
    BY <2>11 DEF StartDag, DirectStart
  <2>12. QED
    BY <2>1, <2>2, <2>3, <2>4, <2>5, <2>6, <2>7, <2>8, <2>9, <2>10, <2>11
       DEF Next, RunStep
<1>2. QED
  BY <1>1, TypeCorrect, PTL DEF Spec, RunDescends
=============================================================================
