SPECIFICATION Spec
CONSTANTS
  ann = ann
  bob = bob
  eve = eve
  w1 = w1
  w2 = w2
  r1 = r1
  r2 = r2
  c1 = c1
  None = None
  Entity <- MCEntity
  Worker <- MCWorker
  RequestId <- MCRequestId
  ConvId <- MCConvId
  Peers <- MCPeers
  Receives <- MCReceives
  Open <- MCOpen
  MaxFaults = 1
SYMMETRY Symmetric
CHECK_DEADLOCK FALSE
INVARIANTS
  TypeOK
  Consented
  ResolverMatches
  AcceptedBefriends
  TalkNeedsFriends
