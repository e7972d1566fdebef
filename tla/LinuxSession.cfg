SPECIFICATION FairSpec
CONSTANTS
  GiveUp = 2
  AcceptWait = 4
INVARIANT TypeOK
INVARIANT RegisteredIsListed
INVARIANT ExitIsClean
PROPERTY BaseStopsLast
PROPERTY StartReturns
PROPERTY RecorderEnds
CHECK_DEADLOCK FALSE
