SPECIFICATION FairSpec
CONSTANTS
  c1 = c1
  c2 = c2
  c3 = c3
  Conns <- ThreeConns
  Requests = {"good"}
  DbLimit = 2
  Schemas = {TRUE}
PROPERTY AcceptsForever
