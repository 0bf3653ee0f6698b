SPECIFICATION FairSpec
CONSTANTS
  p1 = p1
  p2 = p2
  Self = Self
  Peer <- MCPeer
  Suspicion = 1
  StaleAfter = 3
  Interval = 1
  SendBound = 1
INVARIANTS
  QuorumFresh
PROPERTIES
  RemovalDelayed
  LostIsRemoved
  SeenIsMember
