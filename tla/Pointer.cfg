CONSTANTS
  Backends <- BothBackends
  OtherButtons <- RightButton
  WheelStep = 3
  Steps = {1}
  MaxMotion = 1
  MaxInFlight = 2
SPECIFICATION Spec
INVARIANT MotionConserved
INVARIANT ClickInPlace
INVARIANT ButtonsSettle
