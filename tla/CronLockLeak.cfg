SPECIFICATION Spec
CONSTANTS
  Instances = {i1, i2}
  Slots = {a}
  PoolSize = 2
  StatementsFail = FALSE
  MaxDepth = 3
INVARIANT ReleasedMeansFree
CHECK_DEADLOCK FALSE
