CONSTANTS
  c1 = c1
  c2 = c2
  c3 = c3
  d1 = d1
  None = None
  Clients = {c1, c2, c3}
  Devices = {d1}
  DeviceOf <- OneDevice
  MaxClients = 4
  IceMayFail = TRUE
SPECIFICATION Spec
SYMMETRY Symmetry
INVARIANT ClosedAgentServesNobody
CHECK_DEADLOCK FALSE
