CONSTANTS
  Pairs = {p1, p2}
  Cooldown = 1
  MaxRetries = 1
  MaxLosses = 1
  MaxByHand = 0
  WorkersDie = FALSE
SPECIFICATION FairSpec
PROPERTY CooldownKept
PROPERTY Recovers
