SPECIFICATION FairSpec
CONSTANTS
  SnCount = 12
  BufferCount = 3
  WaterLevel = 2
  Skew = 2
  Drift = 8
  Lifetime = 3
  MaxPos = 13
  Empty = Empty
CHECK_DEADLOCK FALSE
PROPERTIES
  InOrder
  LateAccepted
  NoneStuck
