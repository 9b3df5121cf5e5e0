CONSTANTS
  Workers = {w1, w2}
  Scheduled = {w1}
  Limit = 3
  PageSizes = {1, 3}
  MaxRetries = 1
  MaxLag = 3
  Horizon = 5
SPECIFICATION FairSpec
INVARIANT TypeOK
PROPERTY SeriesSpec
PROPERTY TableSpec
PROPERTY LeftForGood
PROPERTY CatchesUp
