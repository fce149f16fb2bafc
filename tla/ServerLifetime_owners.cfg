SPECIFICATION FairSpec
CONSTANTS
  Sessions = {s1, s2, s3}
  NoSession = NoSession
  MaxNodes = 3
INVARIANTS
  Consistent
  NoUseAfterRelease
PROPERTIES
  Released
CHECK_DEADLOCK FALSE
