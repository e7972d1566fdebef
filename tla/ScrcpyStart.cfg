CONSTANTS
  phone = phone
  tablet = tablet
  Devices <- MCDevices
  MaxStarts = 2
  MaxRestarts = 1
SPECIFICATION Spec
INVARIANT LateServerShutOut
INVARIANT RolesMatch
INVARIANT TunnelsFollowDrivers
INVARIANT PortIsTheStarters
PROPERTY StartEnds
CHECK_DEADLOCK FALSE
