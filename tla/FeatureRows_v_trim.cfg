SPECIFICATION Spec
CONSTANTS
  Warmup = 3
  Required = 2
  Trim = 1
  RowLimit = 7
  Guarded = 2
  Outages = {1, 3, 4}
  Horizon = 8
PROPERTY CompletedIsRecalculated
