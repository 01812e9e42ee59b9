SPECIFICATION FairSpec
CONSTANTS
  MaxChannels = 2
  MaxConns = 3
  MaxLives = 2
  MaxBreaks = 1
  None = None
CHECK_DEADLOCK FALSE
INVARIANTS PromisesTrue NodeIsThere ConnectionKept
PROPERTIES GoesOn
