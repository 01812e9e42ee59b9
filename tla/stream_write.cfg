SPECIFICATION WritersFairSpec
CONSTANTS
  MaxWriters = 2
  Chunks = {1, 3}
  MaxSamples = 4
  Frame = 2
  QueueDepth = 1
  CmdDepth = 2
  None = None
CHECK_DEADLOCK FALSE
INVARIANTS PlaysInOrder EndTold
PROPERTIES StreamsGoOn
