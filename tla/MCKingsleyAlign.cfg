CONSTANTS
  NumBins = 4
  ChunkSize = 10
  ArenaAddrs = {8, 22}
  MemTop = 42
  HalfRange = 64
  Requests = {1, 3, 64}
  Alignments = {2, 4}
  ElemSize = 2
  PageSize = 4
  Arrays <- const_Arrays
  Strings = {1}
  NewAligned <- const_NewAligned
  Data = {d1}
  Magic = Magic
  MmapMayFail = FALSE
  ReallocAligned = FALSE
  MaxObjects = 2

SPECIFICATION Spec


INVARIANT AlignedAsAsked
