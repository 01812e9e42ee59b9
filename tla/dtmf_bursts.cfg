SPECIFICATION Spec
CONSTANTS
  Digits = {d1, d2}
  Body = 2
  End = 1
  Gap = 2
  NewBurst = 4
  SnCount = 6
  MaxQuiet = 2
  MaxDialled = 3
  MaxTicks = 8
  MaxMoves = 2
  None = None
CHECK_DEADLOCK FALSE
INVARIANTS OncePerPress NoneMissed
