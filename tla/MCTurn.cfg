SPECIFICATION TurnSpec
CONSTANTS
  c1 = c1
  c2 = c2
  c3 = c3
  k1 = k1
  k2 = k2
  k3 = k3
  Client <- MCClient
  Burst = 3
  Rate = 1
  GlobalBurst = 7
  GlobalRate = 3
  Cost = 2
  MaxClients = 2
  MaxTime = 3
  Secret <- MCSecret
  Legacy = Legacy
  Activates <- MCActivates
  Expires <- MCExpires
  TurnTTL = 2
  AdmissionTTL = 1
  MaxReading = 1
SYMMETRY MCSymmetry
INVARIANTS
  GlobalRateHolds
  ClientRateHolds
  CredentialsCovered
PROPERTIES
  EvictsLeastRecent
