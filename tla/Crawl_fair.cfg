SPECIFICATION FairSpec
CONSTANTS
  Hosts <- MCHosts
  NoHost = ""
  TornHost = "torn"
  Targets <- MCTargets
  NoTarget = ""
  Extend <- MCExtend
  Junk = Junk
  Answers <- MCStallWeb
  StartUrl <- MCStart
  MaxDepth = 2
  Cores = 3
PROPERTIES
  CrawlEnds
  StallIsForever
CHECK_DEADLOCK FALSE
