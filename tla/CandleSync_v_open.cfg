CONSTANTS
  Workers = {w1}
  Scheduled = {w1}
  Limit = 3
  PageSizes = {3}
  MaxRetries = 1
  MaxLag = 3
  Horizon = 4
SPECIFICATION Spec
INVARIANT ClosedOnly
