SPECIFICATION Spec
CONSTANTS
  Files = {f, g}
  MaxRequests = 4
  None = None
CHECK_DEADLOCK FALSE
INVARIANTS PromptOwns PlayTold RecordTold
