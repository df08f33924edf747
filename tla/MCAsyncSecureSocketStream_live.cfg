SPECIFICATION FairSpec
CONSTANTS
  c1 = c1
  c2 = c2
  c3 = c3
  s1 = s1
  s2 = s2
  NULL = NULL
  Callers <- MCCallers
  Streams <- MCOneStream
  MaxRequests = 2
  MaxPieces = 2
PROPERTY EveryCallReturns
CHECK_DEADLOCK FALSE
