SPECIFICATION FairSpec
CONSTANTS
  Size = 2
PROPERTIES
  GracefulExit
CHECK_DEADLOCK FALSE
