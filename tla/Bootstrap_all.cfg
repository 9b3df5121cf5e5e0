CONSTANTS
  Listing = 0
  Lookback = 3
  ChunkBars = 2
  BreakAfter = 2
  Keep = 1
  Horizon = 3
  Junk = {}
  DryConf = {FALSE}
  OperatorTools = TRUE
  Pooled = FALSE
SPECIFICATION FairSpec
INVARIANT CompletedNeverSkips
PROPERTY RunTerminates
