SPECIFICATION FairSpec
CONSTANTS
  Keys = {r, b}
  Build = {b}
  Limits = {1, 2}
  None = None
INVARIANT CompletedIsFresh
INVARIANT StaleIsExplained
PROPERTY RequestServed
PROPERTY AbandonedForGood
PROPERTY LedgerSpec
