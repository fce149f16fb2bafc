SPECIFICATION FairSpec
CONSTANTS
  Posters = {io1}
  Nodes = {n1, n2}
  Registered = {n1, n2}
  Throwing = {}
PROPERTIES
  GracefulExit
CHECK_DEADLOCK FALSE
