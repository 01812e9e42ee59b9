SPECIFICATION Spec
CONSTANTS
  Channel = {a, b, c}
  Narrow = {pcma}
  Wideband = g722
  Unknown = Unknown
  MaxTicks = 2
  MaxCommands = 1
  None = None
SYMMETRY Symmetry
CHECK_DEADLOCK FALSE
INVARIANTS TypeOK Sends OneFrame Takes
