CONSTANTS
  Threads = {t1, t2}
  NoThread <- const_NoThread
  MaxSpin = 1
  ObjSize = 2
  ChunkSize = 5
  ChunkAddrs <- const_ChunkAddrs
  MmapMayFail = TRUE
  Junk = Junk
  MaxObjects = 3
  MaxDropped = 1

SPECIFICATION Spec

INVARIANTS
  BlocksAreMapped
