SPECIFICATION NodeSpec
CONSTANTS
  h = h
  p1 = p1
  p2 = p2
  r1 = r1
  t1 = t1
  Home <- h
  Node <- MCNode
  Route <- MCRoute
  Pass <- MCPass
  Weight <- MCWeight
  Replicas = 2
  Lease = 3
  Skew = 1
  Drift = 0
  Room = 1
  Offset <- MCOffset
  PassBound = 1
  Lossy = FALSE
  Suspicion = 1
  StaleAfter = 3
  Interval = 1
  SendBound = 1
INVARIANTS
  FailoverRegisters
