CONSTANTS
  OVB_SIZE = 100
  OVT_SIZE = 3
  Msb = 128
  OvbLayers = 3
  PtrEntries = 4
  EntryBytes = 2
  Sizes = {1, 3, 16}
  Position <- MCPosition
  BlockArg = {1, 256}
  WordBits = 8
  ChunkBits = 1
  NULL = NULL
SPECIFICATION Spec
INVARIANTS TypeOK OctreeSound
PROPERTIES StoredUnlessFull ImplementsMap
