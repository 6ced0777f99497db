SPECIFICATION FairSpec
CONSTANTS
  Hosts <- MCHosts
  NoHost = ""
  Targets <- MCTargets
  NoTarget = ""
  Schemes <- MCSchemes
  NoScheme = ""
  Ports <- MCPorts
  Malformed = Malformed
  Entries <- MCEntries
  Answers <- MCWeb
  Patience = 4
INVARIANTS
  TlsOnPort443
  HttpsStaysOnTls
  TransportCatchesUp
PROPERTY UpgradeIsReached
