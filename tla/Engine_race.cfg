SPECIFICATION EngineSpec
CONSTANTS
  Hosts <- MCHosts
  NoHost = ""
  TornHost = "torn"
  Targets <- MCTargets
  NoTarget = ""
  Extend <- MCExtend
  Junk = Junk
  Answers <- MCWeb
  StartUrl <- Front
  MaxDepth = 2
  Cores = 2
  w1 = w1
  w2 = w2
  c1 = c1
  Words <- MCWords
  Contents <- MCContents
  NoPage = NoPage
  NoWord = NoWord
  MaxVisits = 9
  MaxCrashes = 1
  Conns = {c1}
  Requests = {"good"}
  DbLimit = 2
  Queries <- MCQueries
  DbMayFail = TRUE
  ConfigFails = TRUE
INVARIANT VisitHasItsWorker
