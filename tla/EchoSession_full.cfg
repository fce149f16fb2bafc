SPECIFICATION EchoFairSpec
CONSTANTS
  Frames = {}
  RegisteredIds = {}
  Malformed = {}
  MAX_SENDQUE_SIZE = 0
  Main = main
  Messages <- MCMessages
  Garbage <- MCGarbage
  Hellos <- MCHellos
  Prefix <- MCPrefix
  MAX_LENGTH = 5
  MaxFrames = 3
  InitHeadParse = {TRUE, FALSE}
  MAX_QUESIZE = 1
  Partial = FALSE
INVARIANTS
  EchoPartsFit
PROPERTIES
  Echoed
  EchoImplements
CHECK_DEADLOCK FALSE
