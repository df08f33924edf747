SPECIFICATION FairSpec
CONSTANTS
  ChunkSize = 3
  MaxBytes = 4
  UIntRange = 16
  Data <- MCData
INVARIANT TypeOK
INVARIANT Inv
INVARIANT OutIsWhatThePeerSent
INVARIANT OvershootsByLessThanAChunk
PROPERTY ImplementsBoundedDrain
PROPERTY CapEndsTheDrain
CHECK_DEADLOCK FALSE
