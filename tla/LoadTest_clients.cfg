SPECIFICATION FairSpec
CONSTANTS
  Clients = {c1, c2}
  Rounds = 2
  HeadLen = 2
  BodyLen = 1
  MaxLength = 1
  MAX_SENDQUE_SIZE = 1
INVARIANTS
  Consistent
  OwnAnswers
PROPERTIES
  AllFinish
CHECK_DEADLOCK FALSE
