SPECIFICATION ReadersFairSpec
CONSTANTS
  MaxReaders = 2
  MaxTicks = 3
  FrameDepth = 1
  CmdDepth = 2
CHECK_DEADLOCK FALSE
INVARIANTS FramesCounted EndIsLast
PROPERTIES StreamsEnd
