SPECIFICATION PoolSpec
CONSTANTS
  Sessions = {s1}
  NoSession = NoSession
  MaxNodes = 0
  Size = 3
  MaxOps = 2
INVARIANTS
  PoolConsistent
  NoEarlyReturn
PROPERTIES
  StopReturns
CHECK_DEADLOCK FALSE
