SPECIFICATION Spec
CONSTANTS
  InitSize = 4
  Fields <- MCFields
  PacketIds = {2, 38}
  MaxFields = 2
  MaxPackets = 2
  MaxBytes = 2147483642
  Cuts = {1}
  MaxLevels = 4
  NULL = NULL
CHECK_DEADLOCK FALSE
INVARIANTS
  TypeOK
  Fits
  ReadBack
