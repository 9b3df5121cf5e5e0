----------------------------- MODULE CandleTable -----------------------------
(***************************************************************************)
(* What the writers of swap_ohlcv_p promise each other for one (symbol,    *)
(* timeframe) pair: a candle appears only after its bar has closed, and    *)
(* one that is stored goes only when the retention sweep finds it too old. *)
(***************************************************************************)
EXTENDS Integers

CONSTANTS
  First, Horizon,   \* bounds on the clock, in bars
  Retained          \* newest bars the retention sweep leaves alone

VARIABLES now, candles

TBar   == First..(Horizon-1)
Closed == {b \in TBar : b < now}

TInit == now \in First..Horizon /\ candles \in SUBSET Closed

Clock ==
  /\ now < Horizon
  /\ now' = now + 1
  /\ UNCHANGED candles

\* One transaction of a writer: the sync, the backfill, the repair, the guard.
Write ==
  /\ candles \subseteq candles' /\ candles' \subseteq candles \cup Closed
  /\ UNCHANGED now

Sweep ==
  /\ candles' = {b \in candles : now - Retained <= b}
  /\ UNCHANGED now

TNext == Clock \/ Write \/ Sweep

TSpec == TInit /\ [][TNext]_<<now, candles>>
=============================================================================
