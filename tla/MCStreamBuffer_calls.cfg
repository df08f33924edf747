SPECIFICATION Spec
CONSTANTS
  t1 = t1
  t2 = t2
  b1 = b1
  Threads <- MCThreads
  Buffers <- MCBuffers
  Word = 8
  Wide = 64
  Sizes <- MCSizes
  Offsets <- MCOffsets
  Lengths <- MCLengths
  MaxVars = 2
INVARIANT TypeOK
INVARIANT TransfersStayInside
INVARIANT RefusedDoesNotFit
INVARIANT LengthArrivesUnchanged
INVARIANT IInv
INVARIANT NoReferenceIsLost
