SPECIFICATION Spec
CONSTANTS
  m1 = m1
  m2 = m2
  n1 = n1
  s1 = s1
  Content <- MCContent
  NodeMessage <- MCNodeMessage
  Session <- MCSession
  MaxSequence = 2
  MaxEntries = 3
  Window = 3
INVARIANTS
  OncePerWindow
  SignalsOnce
  RefusalsJustified
