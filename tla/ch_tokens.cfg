SPECIFICATION Spec
CONSTANTS
  Configs <- Usual
  Lifetime = 4
  RenewAfter = 3
  MaxToken = 4
INVARIANTS
  ChannelKept
PROPERTIES
  ReadsEnd
CHECK_DEADLOCK FALSE
