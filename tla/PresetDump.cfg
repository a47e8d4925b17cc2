SPECIFICATION Spec
CONSTANTS
  Length <- MessageLength
  Calls = {c1, c2}
  CHUNKS_PER_PRESET = 2
  ChunkLength = 3
  BufferSize = 2
  CutAtF7 = TRUE
  MaxLosses = 2
  MaxDumps = 2
  MaxEdits = 1
INVARIANTS
  TypeOK
  LossIsContained
  DumpIsOnePiece
  DumpShowsKnownEdits
CHECK_DEADLOCK TRUE
