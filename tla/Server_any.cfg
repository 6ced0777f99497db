SPECIFICATION FairSpec
CONSTANTS
  c1 = c1
  c2 = c2
  c3 = c3
  Conns <- TwoConns
  Requests = {"good", "garbled", "malformed"}
  DbLimit = 2
  Schemas = {TRUE, FALSE}
INVARIANTS
  TypeOK
  NeverWithoutDeadline
PROPERTIES
  HeldUntilDeadline
  AcceptedOrEnded
  ConnectionsEnd
