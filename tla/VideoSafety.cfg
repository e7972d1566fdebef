CONSTANTS
  ChanCap = 1
  MaxGen = 2
  MaxQuiet = 1
  MaxLen = 1
  Size = 1
SPECIFICATION Spec
INVARIANT ParametersBelongTogether
CHECK_DEADLOCK FALSE
