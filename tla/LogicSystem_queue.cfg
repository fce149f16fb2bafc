SPECIFICATION FairSpec
CONSTANTS
  Posters = {io1, io2}
  Nodes = {n1, n2, n3, n4}
  Registered = {n1, n2, n4}
  Throwing = {n4}
INVARIANTS
  Consistent
  NoLostWakeup
  StopDrains
PROPERTIES
  Processed
  BusyStopExits
  ImplementsChannel
CHECK_DEADLOCK FALSE
