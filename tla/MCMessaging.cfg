SPECIFICATION Spec
CONSTANTS
  n1 = n1
  n2 = n2
  c1 = c1
  c2 = c2
  a1 = a1
  a2 = a2
  a3 = a3
  a4 = a4
  a5 = a5
  t1 = t1
  t2 = t2
  t3 = t3
  Nodes = {n1, n2}
  Clients = {c1, c2}
  Addresses = {a1, a2, a3, a4, a5}
  Names = {n2, a1}
  RelayAt = RelayAt
  Nowhere = Nowhere
  JoinedFirst = {c1, c2}
  RelayUsers = {n1}
  PeersFirst <- MCPeersFirst
  HandlersFirst <- MCHandlersFirst
  IdLength <- MCIdLength
  FirstByte <- MCFirstByte
  LaunchPlace <- MCPlace
  Types = {52}
  Threads <- MCThreads
  SeqMod = 2
  Punches = 2
  MaxLost = 1
  MaxMoves = 2
  MaxCalls = 3
  MaxEvents = 4
SYMMETRY MCSymmetry
INVARIANTS
  TypeOK
  RoutesAgree
  RelayedBetweenHomes
  HolePunchSucceeds
  DirectPeersLetIn
  DecodedWentStraight
  SameSeqFarApart
CHECK_DEADLOCK FALSE
