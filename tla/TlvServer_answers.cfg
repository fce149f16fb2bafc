SPECIFICATION FairSpec
CONSTANTS
  Frames <- MCFrames
  MaxFrames = 3
  RegisteredIds = {1, 4}
  Malformed <- MCMalformed
  MAX_LENGTH = 4
  MAX_SENDQUE_SIZE = 1
  Partial = FALSE
  Main = main
INVARIANTS
  PartsFit
  Reassembled
PROPERTIES
  Answered
  ImplementsEcho
CHECK_DEADLOCK FALSE
