SPECIFICATION WritersSpec
CONSTANTS
  MaxWriters = 1
  Chunks = {1, 3}
  MaxSamples = 4
  Frame = 2
  QueueDepth = 1
  CmdDepth = 2
  None = None
CHECK_DEADLOCK FALSE
INVARIANTS Flushed
