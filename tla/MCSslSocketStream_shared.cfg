SPECIFICATION FairSpec
CONSTANTS
  s1 = s1
  t1 = t1
  t2 = t2
  t3 = t3
  named = named
  empty = empty
  NULL = NULL
  Streams <- MCStreams
  Threads <- MCThreads
  HostNames <- MCHostNames
  EmptyName = empty
  MaxVars = 3
INVARIANT TypeOK
INVARIANT NoUseAfterRelease
INVARIANT NoBadFree
INVARIANT DeadHoldsNothing
INVARIANT UsableMeansVerified
INVARIANT IInv
PROPERTY ImplementsStreamLife
PROPERTY DroppedIsReleased
CHECK_DEADLOCK FALSE
