SPECIFICATION Spec
CONSTANTS
  Runners = {dag, cli}
  Scheduled = {dag}
  Symbols = {a, b, c}
  TopN = 2
  SoftMin = 2
  MinHistory = 2
  Window = 1
  Keep = 1
  Horizon = 2
SYMMETRY Interchangeable
INVARIANT TypeOK
INVARIANT PublishedIsWhole
INVARIANT NoEmptyUniverse
INVARIANT OnlyTheListed
PROPERTY StarvedForGood
