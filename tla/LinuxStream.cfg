SPECIFICATION Spec
CONSTANTS
  GiveUp = 2
  AcceptWait = 4
INVARIANT StreamLasts
CHECK_DEADLOCK FALSE
