SPECIFICATION Spec
CONSTANTS
  Channel = {a, b}
  MixId = {m1, m2}
  MailDepth = 2
  CmdDepth = 2
  MaxCalls = 3
  MaxErrors = 1
  NoMix = NoMix
  NoChannel = NoChannel
SYMMETRY Symmetry
CHECK_DEADLOCK FALSE
INVARIANTS
  Custody
  CloseAfterUnregister
  StatsBalance
  MixingIsTrue
  SlotAgreement
  CommandsConserved
PROPERTIES
  SilentAfterClose
  LifeSpec
