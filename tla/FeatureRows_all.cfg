SPECIFICATION FairSpec
CONSTANTS
  Warmup = 3
  Required = 2
  Trim = 1
  RowLimit = 7
  Guarded = 2
  Outages = {1,4,5}
  Horizon = 8
INVARIANT TypeOK
INVARIANT NewestRowGood
PROPERTY RecentRowsHeal
PROPERTY GoodRowsStay
PROPERTY RowsArrive
