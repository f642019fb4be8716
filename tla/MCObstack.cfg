CONSTANTS
  ArenaSize = 76
  ChunkSize = 12
  Sizes = {0, 5, 12}
  Steps = {5}
  MaxObjects = 4
  MaxEnd = 140

SPECIFICATION Spec

INVARIANTS
  ChunksAreStacked
PROPERTIES
  ImplementsStack

CHECK_DEADLOCK FALSE
