SPECIFICATION FairSpec
CONSTANTS
  g1 = g1
  g2 = g2
  q1 = q1
  Signal <- MCSignal
  Query <- MCQuery
  MaxPending = 2
CHECK_DEADLOCK FALSE
INVARIANTS
  PendingBound
  PendingExact
PROPERTIES
  OperationEnds
  DeliverySpec
