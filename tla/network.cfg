SPECIFICATION FairSpec
CONSTANTS
  MaxChannels = 2
  MaxPorts = 3
  Foreign = {2}
  MaxTries = 2
  MaxInits = 2
  MaxHandshakes = 2
  None = None
CHECK_DEADLOCK FALSE
INVARIANTS PortsExact KeysInTime
PROPERTIES KeysGoOn TasksEnd
