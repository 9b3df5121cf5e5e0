---------------------------- MODULE RequestLedger ----------------------------
(***************************************************************************)
(* What the recalculation queue promises to those who ask: a request that  *)
(* is taken stays open until it gets one outcome, and only a request opens *)
(* it again.  Runs, batches, claims and their ages are nobody's business.  *)
(***************************************************************************)
CONSTANTS
  Keys,  \* what can be asked for
  Once   \* what can be asked for only once

VARIABLE state

Outcomes == {"completed", "blocked", "failed"}

RInit == state = [k \in Keys |-> "none"]

\* A blocked request is not repeated: whoever asks again gets no answer.
Request(k) ==
  /\ \/ state[k] = "none"
     \/ k \notin Once /\ state[k] \in Outcomes \ {"blocked"}
  /\ state' = [state EXCEPT ![k] = "open"]

Close(k) ==
  /\ state[k] = "open"
  /\ \E o \in Outcomes : state' = [state EXCEPT ![k] = o]

RNext == \E k \in Keys : Request(k) \/ Close(k)

RSpec == RInit /\ [][RNext]_state
=============================================================================
