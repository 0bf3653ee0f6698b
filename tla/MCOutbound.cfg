SPECIFICATION FairSpec
CONSTANTS
  s1 = s1
  f1 = f1
  f2 = f2
  f3 = f3
  f4 = f4
  Session <- MCSession
  Frame <- MCFrame
  SizeOf <- MCSizeOf
  MaxFrames = 2
  MaxBytes = 3
  Rest = 2
CHECK_DEADLOCK FALSE
INVARIANTS
  QueueBounded
  LockMatches
  ExactAccounts
  StrandedOnlyIfBroken
PROPERTIES
  FramesDrain
  LockReturns
  BrokenAreRemoved
