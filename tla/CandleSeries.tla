---------------------------- MODULE CandleSeries ----------------------------
(***************************************************************************)
(* What a reader of swap_ohlcv_p may rely on for one (symbol, timeframe)   *)
(* pair: from the oldest bar of the first load on, the stored bars are one *)
(* run without holes, which only ever grows at its new end.                *)
(***************************************************************************)
EXTENDS Integers

CONSTANT Horizon   \* bound on the clock, in bars

VARIABLE series    \* the stored bars, from the first load's oldest bar on

SBar == 0..(Horizon-1)

SInit == series = {}

FirstLoad ==
  /\ series = {}
  /\ \E lo, hi \in SBar : lo <= hi /\ series' = lo..hi

Grow ==
  \E lo, hi, top \in SBar :
    /\ lo <= hi /\ hi < top
    /\ series = lo..hi /\ series' = lo..top

SNext == FirstLoad \/ Grow

SSpec == SInit /\ [][SNext]_series
=============================================================================
