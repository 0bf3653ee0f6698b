SPECIFICATION Spec
CONSTANTS
  h = h
  p1 = p1
  p2 = p2
  r1 = r1
  t1 = t1
  Home <- h
  Node <- MCNode
  Route <- MCRoute
  Pass <- MCPass
  Weight <- MCWeight
  Replicas = 2
  Lease = 2
  Skew = 1
  Drift = 1
  Room = 1
  Offset <- MCOffset
  PassBound = 1
  Lossy = TRUE
INVARIANTS
  GhostBound
  DepartedBound
  RenewalCovers
  FoundFromNearViews
