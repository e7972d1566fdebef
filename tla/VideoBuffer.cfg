CONSTANTS
  ChanCap = 1
  MaxGen = 1
  MaxQuiet = 1
  MaxLen = 1
  Size <- EnoughSize
SPECIFICATION FairSpec
INVARIANT BoxesAreIntact
PROPERTY ImplementsBuffer
PROPERTY StopReleases
CHECK_DEADLOCK FALSE
