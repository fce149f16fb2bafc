SPECIFICATION FairSpec
CONSTANTS
  Msgs = {m1, m2, m3, m4}
  MAX_SENDQUE_SIZE = 2
  Partial = TRUE
INVARIANTS
  Consistent
  OneWriteInFlight
  InOrder
PROPERTIES
  SilentAfterError
  EventuallyWritten
  ImplementsChannel
CHECK_DEADLOCK FALSE
