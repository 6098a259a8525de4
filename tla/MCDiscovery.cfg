SPECIFICATION Spec
CONSTANTS
  a = a
  b = b
  ca = ca
  cb = cb
  Clients = {ca, cb}
  Ids = {a, b}
  HoldersOf <- MCHoldersOf
  IpOf <- MCIpOf
  PortOf <- MCPortOf
  IpLen <- MCIpLen
  StaleAfter = 0
  MaxCalls = 3
  MaxExtra <- MCMaxExtra
  MaxTime = 1
INVARIANTS
  TypeOK
  BehindByExtras
  AnswersOwnCall
  FoundPeerIsTarget
PROPERTY
  RemovedPeersWereSilent
