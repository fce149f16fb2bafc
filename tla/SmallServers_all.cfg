SPECIFICATION MCSpec
CONSTANTS
  Sessions = {s1, s2}
  max_length = 2
  MaxBytes = 3
  Clients = {c1, c2}
  MAX_LENGTH = 3
  Frames <- MCFrames
  MaxFrames = 4
  MAX_QUESIZE = 2
  Partial = FALSE
  Callers = {p1, p2}
  Names <- MCNames
  prefix <- MCPrefix
  Error = Error
INVARIANTS
  AllConsistent
  EchoInOrder
  SyncConsistent
  SyncOwnEcho
PROPERTIES
  Deleted
  SyncServed
  JsonEchoed
  JsonImplementsEcho
  Greeted
CHECK_DEADLOCK FALSE
