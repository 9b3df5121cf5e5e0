CONSTANTS
  Listing = 1
  Lookback = 3
  ChunkBars = 2
  BreakAfter = 2
  Keep = 2
  Horizon = 4
  Junk = {2}
  DryConf = {TRUE, FALSE}
  OperatorTools = FALSE
  Pooled = TRUE
SPECIFICATION Spec
INVARIANT TypeOK
INVARIANT CheckpointEarned
PROPERTY FinishIsFresh
PROPERTY FinishIsClean
PROPERTY TableSpec
