SPECIFICATION Spec
CONSTANTS
  Hosts <- MCHosts
  NoHost = ""
  TornHost = "torn"
  Targets <- MCTargets
  NoTarget = ""
  Extend <- MCExtend
  Junk = Junk
  Answers <- MCWeb
  StartUrl <- MCStart
  MaxDepth = 3
  Cores = 3
INVARIANTS
  TypeOK
  FrontExists
  LockDiscipline
  HostOfThisBatch
  LoneWorkerKeepsHost
PROPERTY
  LevelByLevel
