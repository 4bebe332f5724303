SPECIFICATION ReadSpec
CONSTANTS
  Documents <- AllDocuments
  ChunkBytes = 12
  OverlapBytes = 3
  MinChunkBytes = 12
  MaxCount = 3
  MaxBytes = 9
INVARIANTS
  RangesReadBack
  PhrasesAreSearchable
  CitationsHoldTheHit
  PiecesAreBoundedText
  PagingReadsEverything
PROPERTIES
  PagingEnds
CHECK_DEADLOCK FALSE
