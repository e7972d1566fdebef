SPECIFICATION Spec
CONSTANTS
  Scenarios <- MCScenarios
  ChanCap = 1
  WireCap = 1
  PipeCap = 3
  MaxEvents = 3
  Frame = 2
  Drift = 6
  RtpWrap = 21
  AudioCap = 1
  MaxTime = 26
  MaxWaiting = 4
INVARIANT NalsAreWhole
INVARIANT BoxesDecodable
INVARIANT PicturesOutlast
INVARIANT ReaderInStep
INVARIANT KeyboardFollows
INVARIANT AudioRegular
CHECK_DEADLOCK FALSE
