CONSTANTS
  c1 = c1
  c2 = c2
  c3 = c3
  d1 = d1
  None = None
  Clients = {c1, c2}
  Devices = {d1}
  DeviceOf <- OneDevice
  MaxClients = 2
  IceMayFail = TRUE
SPECIFICATION FairSpec
PROPERTY ImplementsSharing
PROPERTY HandshakeEnds
PROPERTY DeadConnectionLeaves
CHECK_DEADLOCK FALSE
