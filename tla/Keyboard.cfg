CONSTANTS
  a = a
  b = b
  f1 = f1
  ctrl = ctrl
  Letters = {a, b, f1}
  Modifiers = {ctrl}
  HidOnly = {f1}
  ReportKeys = 2
  MaxInFlight = 3
SPECIFICATION Spec
SYMMETRY Symmetry
INVARIANT HidDeviceFollows
INVARIANT InputHasDevice
INVARIANT BlurReleases
INVARIANT WhatIsHeldIsDown
