SPECIFICATION EchoSpec
CONSTANTS
  Frames = {}
  RegisteredIds = {}
  Malformed = {}
  MAX_SENDQUE_SIZE = 0
  Main = main
  Messages <- MCMessages
  Garbage <- MCGarbage
  Hellos <- MCHellos
  Prefix <- MCPrefix
  MAX_LENGTH = 5
  MaxFrames = 1
  InitHeadParse = {TRUE, FALSE}
  MAX_QUESIZE = 1
  Partial = FALSE
INVARIANTS
  HeadFirst
CHECK_DEADLOCK FALSE
