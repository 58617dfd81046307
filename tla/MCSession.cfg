SPECIFICATION Spec
CONSTANTS
  KeepAliveInterval = 1
  KeepAliveTimeout = 2
  MaxRetries = 1
  MaxPackets = 6
  MaxQueue = 2
  NULL = NULL
CHECK_DEADLOCK FALSE
INVARIANTS
  TypeOK
  Balanced
  PromptNotKicked
  OneAfterDisconnect
PROPERTIES
  OnlyItsAnswer
  SilentEnds
