SPECIFICATION Spec
CONSTANTS
  InitSize = 4
  Fields <- MCFields
  PacketIds = {2, 38}
  MaxFields = 1
  MaxPackets = 1
  MaxBytes = 2147483642
  Cuts = {1}
  MaxLevels = 4
  NULL = NULL
CHECK_DEADLOCK FALSE
INVARIANTS
  UuidReadBack
