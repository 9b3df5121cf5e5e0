CONSTANTS
  Pairs = {p1, p2}
  Cooldown = 0
  MaxRetries = 1
  MaxLosses = 1
  MaxByHand = 1
  WorkersDie = TRUE
SPECIFICATION Spec
SYMMETRY Interchangeable
INVARIANT TypeOK
PROPERTY RecoverySpec
PROPERTY EarlyIsUnmarked
