SPECIFICATION ReadSpec
CONSTANTS
  None = None
  Sizes = {0, 1, 3, 5}
  ChunkSizes = {1, 2, 3}
  MaxU = 6
INVARIANTS ReadTypeOK ReadExact NoChunkInVain
