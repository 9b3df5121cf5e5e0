-------------------------------- MODULE Lease --------------------------------
(***************************************************************************)
(* What a slot promises that one of several processes holds at a time: it  *)
(* is taken when it is free, and it is free again before the next one has  *)
(* it.  No other module says how the holders agree on that.                *)
(***************************************************************************)
CONSTANTS
  Holders,  \* those who may hold it
  Nobody    \* what holder is when nobody has it

VARIABLE holder

LInit == holder = Nobody

Acquire ==
  /\ holder = Nobody
  /\ holder' \in Holders

Release ==
  /\ holder \in Holders
  /\ holder' = Nobody

LNext == Acquire \/ Release

LSpec == LInit /\ [][LNext]_holder
=============================================================================
