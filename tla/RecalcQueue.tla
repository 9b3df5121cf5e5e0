---------------------------- MODULE RecalcQueue ----------------------------
(***************************************************************************)
(* ops.indicator_recalc_queue: producers that change candles ask for a     *)
(* recalculation of the features over a range, and the indicators_recalc   *)
(* DAG drains the requests.  A key is one row of the table: a (symbol,     *)
(* timeframe, range).  The DAG has one active run, which claims a batch,   *)
(* recalculates row by row in transactions of their own and marks each row *)
(* in another one.  A killed run leaves its rows claimed.                  *)
(***************************************************************************)
EXTENDS Integers, FiniteSets

CONSTANTS
  Keys,    \* the rows that can exist
  Build,   \* those an identity build asks for: full-series ranges
  Limits,  \* rows a run may claim: its conf's "limit"
  None     \* no row in hand

ASSUME QueueConstants ==
  /\ Build \subseteq Keys
  /\ Limits \subseteq Nat \ {0}
  /\ None \notin Keys

VARIABLES
  row,      \* status of the row, "none" before its first request
  ahead,    \* <<j, k>>: j's enqueued_at is before k's
  expired,  \* claimed rows with claimed_at older than stale_after_minutes
  thin,     \* keys whose stored candles do not pass the coverage gate
  pending,  \* keys whose producer has changed candles and is yet to ask
  pc, batch, cur, result,  \* the run: where it is, its rows, the row in hand
  since,    \* history: what happened to that row since its candles were read
  behind,   \* history: candles changed after the read the features rest on
  owed,     \* history: a request was taken after that read
  lost      \* history: a change for which no request was taken

queueVars == <<row, ahead, expired>>
runVars   == <<pc, batch, cur, result, since>>
vars == <<queueVars, thin, pending, runVars, behind, owed, lost>>

Status == {"none", "queued", "claimed", "completed", "blocked", "failed"}
Result == {"none", "completed", "blocked", "failed"}

TypeOK ==
  /\ row \in [Keys -> Status]
  /\ ahead \subseteq Keys \X Keys
  /\ expired \subseteq {k \in Keys : row[k] = "claimed"}
  /\ thin \subseteq Keys /\ pending \subseteq Keys
  /\ pc \in {"idle", "next", "save", "mark"}
  /\ batch \subseteq {k \in Keys : row[k] = "claimed"}
  /\ cur \in batch \cup {None}
  /\ result \in Result /\ since \subseteq {"change", "request"}
  /\ behind \subseteq Keys /\ owed \subseteq Keys /\ lost \subseteq Keys

Init ==
  /\ row = [k \in Keys |-> "none"] /\ ahead = {} /\ expired = {}
  /\ thin \in SUBSET Keys /\ pending = {}
  /\ pc = "idle" /\ batch = {} /\ cur = None /\ result = "none" /\ since = {}
  /\ behind = {} /\ owed = {} /\ lost = {}

-----------------------------------------------------------------------------
(* Producers: the last-N repair guard, the bootstrap, the identity build.  *)

\* A repair, a bootstrap or a build has committed new candles of the range.
Change(k) ==
  /\ behind' = behind \cup {k}
  /\ pending' = pending \cup {k}
  /\ since' = IF cur = k THEN since \cup {"change"} ELSE since
  /\ UNCHANGED <<queueVars, thin, pc, batch, cur, result, owed, lost>>

\* Mutated form: the conflict clause requeues whatever the status is.
TakesAny(k) == row[k] = "none" \/ k \notin Build

\* ON CONFLICT: DO NOTHING of the build, DO UPDATE of the other producers.
Takes(k) ==
  \/ row[k] = "none"
  \/ k \notin Build /\ row[k] \in {"completed", "failed"}

\* enqueued_at = now()
ToTheEnd(k) ==
  {p \in ahead : k \notin {p[1], p[2]}}
    \cup {<<j, k>> : j \in {i \in Keys \ {k} : row[i] # "none"}}

\* The caller is told "queued" in either case.  Its task may be run again.
Ask(k) ==
  /\ k \in pending
  /\ \/ pending' = pending
     \/ pending' = pending \ {k}
  /\ IF Takes(k)
       THEN /\ row' = [row EXCEPT ![k] = "queued"]
            /\ ahead' = ToTheEnd(k)
            /\ expired' = expired \ {k}
            /\ owed' = owed \cup {k}
            /\ lost' = lost \ {k}
            /\ since' = IF cur = k THEN since \cup {"request"} ELSE since
       ELSE /\ lost' = IF k \in behind /\ row[k] # "queued"
                         THEN lost \cup {k} ELSE lost
            /\ UNCHANGED <<queueVars, owed, since>>
  /\ UNCHANGED <<thin, pc, batch, cur, result, behind>>

\* The producer dies before it asks, or its failure to ask is only logged.
GiveUp(k) ==
  /\ k \in pending
  /\ pending' = pending \ {k}
  /\ lost' = IF k \in behind THEN lost \cup {k} ELSE lost
  /\ UNCHANGED <<queueVars, thin, runVars, behind, owed>>

-----------------------------------------------------------------------------
(* The run.                                                                *)

\* Mutated form: only rows that nobody has claimed.
ClaimableQueued ==
  {k \in Keys : row[k] = "queued"}

Claimable ==
  {k \in Keys : row[k] = "queued" \/ k \in expired}

\* ORDER BY enqueued_at LIMIT :limit
Oldest(S) ==
  /\ S \subseteq Claimable
  /\ \E n \in Limits : Cardinality(S) = n \/ (Cardinality(S) < n /\ S = Claimable)
  /\ \A k \in S, j \in Claimable \ S : <<k, j>> \in ahead

Claim ==
  /\ pc = "idle" /\ Claimable # {}
  /\ \E S \in SUBSET Claimable :
       /\ Oldest(S)
       /\ batch' = S
       /\ row' = [k \in Keys |-> IF k \in S THEN "claimed" ELSE row[k]]
       /\ expired' = expired \ S
  /\ pc' = "next"
  /\ UNCHANGED <<ahead, thin, pending, cur, result, since, behind, owed, lost>>

\* Mutated form: the outcome of the coverage gate is not looked at.
GateIgnored(k) == "completed"

Gate(k) == IF k \in thin THEN "blocked" ELSE "completed"

\* The rows come back from UPDATE ... RETURNING in no particular order.
Read(k) ==
  /\ pc = "next" /\ k \in batch
  /\ cur' = k
  /\ result' = Gate(k)
  /\ pc' = IF k \in thin THEN "mark" ELSE "save"
  /\ UNCHANGED <<queueVars, thin, pending, batch, since, behind, owed, lost>>

Save(k) ==
  /\ pc = "save" /\ cur = k
  /\ behind' = IF "change" \in since THEN behind ELSE behind \ {k}
  /\ owed' = IF "request" \in since THEN owed ELSE owed \ {k}
  /\ lost' = IF "change" \in since THEN lost ELSE lost \ {k}
  /\ pc' = "mark"
  /\ UNCHANGED <<queueVars, thin, pending, batch, cur, result, since>>

\* Anything that is raised while the row is processed, before its candles are
\* looked at or after; its session rolls back.
Raise(k) ==
  /\ \/ pc = "next" /\ k \in batch
     \/ pc = "save" /\ cur = k
  /\ cur' = k /\ result' = "failed" /\ pc' = "mark"
  /\ UNCHANGED <<queueVars, thin, pending, batch, since, behind, owed, lost>>

\* Mutated form: the mark leaves the row among the claimed ones that age.
MarkInPlace(k) ==
  /\ pc = "mark" /\ cur = k
  /\ row' = [row EXCEPT ![k] = result]
  /\ batch' = batch \ {k}
  /\ cur' = None /\ result' = "none" /\ since' = {}
  /\ pc' = IF batch' = {} THEN "idle" ELSE "next"
  /\ UNCHANGED <<ahead, expired, thin, pending, behind, owed, lost>>

\* By the row's id, whatever its status is by now.
Mark(k) ==
  /\ pc = "mark" /\ cur = k
  /\ row' = [row EXCEPT ![k] = result]
  /\ expired' = expired \ {k}
  /\ batch' = batch \ {k}
  /\ cur' = None /\ result' = "none" /\ since' = {}
  /\ pc' = IF batch' = {} THEN "idle" ELSE "next"
  /\ UNCHANGED <<ahead, thin, pending, behind, owed, lost>>

\* Killed, timed out, or the mark itself failed: the rows stay claimed.
Crash ==
  /\ pc # "idle"
  /\ pc' = "idle" /\ batch' = {} /\ cur' = None /\ result' = "none" /\ since' = {}
  /\ UNCHANGED <<queueVars, thin, pending, behind, owed, lost>>

-----------------------------------------------------------------------------
Expire(k) ==
  /\ row[k] = "claimed" /\ k \notin expired
  /\ expired' = expired \cup {k}
  /\ UNCHANGED <<row, ahead, thin, pending, runVars, behind, owed, lost>>

\* Candles that complete the warm-up window are stored.
Grow(k) ==
  /\ k \in thin
  /\ thin' = thin \ {k}
  /\ UNCHANGED <<queueVars, pending, runVars, behind, owed, lost>>

Next ==
  \/ Claim \/ Crash
  \/ \E k \in Keys : \/ Change(k) \/ Ask(k) \/ GiveUp(k)
                     \/ Read(k) \/ Save(k) \/ Raise(k) \/ Mark(k)
                     \/ Expire(k) \/ Grow(k)

Spec == Init /\ [][Next]_vars

\* The DAG is scheduled again and again, claims age, and no row makes every run
\* fail that takes it.
FairSpec ==
  /\ Spec
  /\ WF_vars(Claim)
  /\ \A k \in Keys : /\ WF_vars(Expire(k)) /\ SF_vars(Read(k))
                     /\ SF_vars(Save(k)) /\ SF_vars(Mark(k))

-----------------------------------------------------------------------------
(* Properties.                                                             *)

\* A row says completed only when the features were calculated from candles
\* read after the last request that the row took.
CompletedIsFresh == \A k \in Keys : row[k] = "completed" => k \notin owed

\* Features that lag behind their candles, with no row that says so (queued,
\* claimed, or failed and blocked for the monitoring), come from nothing but a
\* request still to come, one the table did not take, or one never made.
StaleIsExplained ==
  \A k \in behind : row[k] \in {"none", "completed"} => k \in pending \cup lost

\* Features that no later run repairs: they are behind, and the row's status is
\* one that neither a claim nor a request for the row leaves.
Abandoned(k) ==
  /\ k \in behind
  /\ row[k] = "blocked" \/ (k \in Build /\ row[k] \in {"completed", "failed"})

\* A blocked row, and any closed row of an identity build, is final: whatever is
\* asked for afterwards, and whatever candles come, its features stay behind.
AbandonedForGood == [][\A k \in Keys : Abandoned(k) => Abandoned(k)']_vars

\* The queue as its producers see it: batches, kills, and claims that age and are
\* taken over do not show.
Ledger == INSTANCE RequestLedger
            WITH state <- [k \in Keys |-> IF row[k] \in {"queued", "claimed"}
                                         THEN "open" ELSE row[k]],
                 Once <- Build
LedgerSpec == Ledger!RSpec

\* A request that was taken is served, or the row says that it could not be,
\* although runs are killed while they hold it.
RequestServed ==
  \A k \in Keys : k \in owed ~> (k \notin owed \/ row[k] \in {"blocked", "failed"})
=============================================================================
