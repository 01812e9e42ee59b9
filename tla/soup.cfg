SPECIFICATION FairSpec
CONSTANTS
  Lengths = {0, 3}
  Ratios = {1, 2}
  Starts = {0, 1}
  Stops = {Nothing, 2}
  Loops = {1, 2, Forever}
  Overall = {1, 2, Forever}
  Forever = Forever
  MaxFiles = 2
  SamplesWanted = 2
  MaxReads = 3
  MaxFaults = 1
  Nothing = Nothing
CHECK_DEADLOCK FALSE
INVARIANTS TypeOK PlaysAsAsked
PROPERTIES EveryReadEnds
