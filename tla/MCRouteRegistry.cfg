SPECIFICATION Spec
CONSTANTS
  self = self
  p1 = p1
  p2 = p2
  near = near
  far = far
  r1 = r1
  r2 = r2
  none = none
  Self <- self
  Peer <- MCPeer
  Session <- MCSession
  LocalSession <- MCLocal
  Route <- MCRoute
  MaxDescriptors = 2
  Lease = 1
  Skew = 1
  NoNode <- none
SYMMETRY MCSymmetry
INVARIANTS
  TypeOK
  CountExact
  Capped
  CachedIsBound
  LocalStaysLocal
