SPECIFICATION LinkFairSpec
CONSTANTS
  k1 = k1
  k2 = k2
  k3 = k3
  None = None
  Socket <- MCSocket
  Skew <- MCSkew
  TTL = 7
  Margin = 2
  MaxDelay = 2
INVARIANTS
  ClaimedIsReceived
PROPERTIES
  OneSidedEnds
  LinkHeals
