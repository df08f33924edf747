SPECIFICATION Spec
CONSTANTS
  c1 = c1
  c2 = c2
  c3 = c3
  s1 = s1
  s2 = s2
  NULL = NULL
  Callers <- MCThreeCallers
  Streams <- MCOneStream
  MaxRequests = 2
  MaxPieces = 2
CHECK_DEADLOCK FALSE
INVARIANT TypeOK
INVARIANT WaitingHaveATask
INVARIANT IInv
PROPERTY KeepsThePromise
SYMMETRY Symmetry
