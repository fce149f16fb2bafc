SPECIFICATION FairSpec
CONSTANTS
  Conns = {c1, c2}
  NoRequest = NoRequest
  Requests <- MCRequests
INVARIANTS
  Consistent
PROPERTIES
  Released
  ImplementsExchanges
CHECK_DEADLOCK FALSE
