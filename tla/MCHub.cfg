SPECIFICATION FairSpec
CONSTANTS
  a1 = a1
  b1 = b1
  r1 = r1
  r2 = r2
  V1 <- MCV1
  V2 <- MCV2
  Route <- MCRoutes
  MaxConcurrency = 2
  MaxV1Routes = 1
  MaxV2Routes = 2
  RouteLease = 2
  SessionStale = 2
  ProofDeadline = 1
  CleanupInterval = 2
INVARIANTS
  IndexAgreement
  LeaseLag
  ReapBound
  ResourceCaps
PROPERTIES
  ProofInTime
  ProofOrClose
