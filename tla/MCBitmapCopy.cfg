SPECIFICATION Spec
CONSTANTS
  Geometries <- MCGeometries
  MiB = 3
  ChunkBits = 4
  Granule = 2
  Buffer = 2
INVARIANTS
  WholeCopy
  NoShortRead
  SpansApart
CHECK_DEADLOCK FALSE
