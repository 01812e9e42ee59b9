SPECIFICATION FairSpec
CONSTANTS
  Channel = {a, b}
  MixId = {m1}
  MailDepth = 2
  CmdDepth = 2
  MaxCalls = 3
  MaxErrors = 0
  NoMix = NoMix
  NoChannel = NoChannel
CHECK_DEADLOCK FALSE
PROPERTIES
  CloseCompletes
  RequestsEnd
  MixersEnd
