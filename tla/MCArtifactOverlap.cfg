SPECIFICATION Spec
CONSTANTS
  Documents <- LongLines
  ChunkBytes = 256
  OverlapBytes = 200
  MinChunkBytes = 256
INVARIANTS
  ChunksAdvance
CHECK_DEADLOCK FALSE
