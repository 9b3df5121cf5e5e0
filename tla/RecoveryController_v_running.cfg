CONSTANTS
  Pairs = {p1}
  Cooldown = 2
  MaxRetries = 1
  MaxLosses = 1
  MaxByHand = 0
  WorkersDie = TRUE
SPECIFICATION Spec
INVARIANT RunningIsRun
