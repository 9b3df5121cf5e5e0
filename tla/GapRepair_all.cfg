CONSTANTS
  Listing = 0
  RangeBars = 3
  ChunkBars = 3
  IterationLimit = 2
  MaxTasks = 1
  Threshold = 2
  Critical = TRUE
  Keep = 3
  Horizon = 4
SPECIFICATION FairSpec
INVARIANT TypeOK
INVARIANT AlarmNeedsRivals
PROPERTY VerifiedIsClosed
PROPERTY NewestFirst
PROPERTY AbsentBlocksOlder
PROPERTY TableSpec
PROPERTY RunDescends
PROPERTY GapsClose
