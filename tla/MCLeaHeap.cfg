CONSTANTS
  ClassMax <- MCClassMax
  ClassOf <- MCClassOf
  IntBits = 2
  LongBits = 4
  ThresholdSize = 4
  ChunkSize = 11
  PageSize = 7
  MapAddrs = {2, 17, 25}
  MemTop = 32
  HalfRange = 16
  Requests = {1, 4, 5, 16}
  Data = {5}
  MaxObjects = 4

SPECIFICATION Spec

INVARIANTS
  TagsAreTrue
  BinsAreIntact
  EndIsOurs
  ContentsKept

PROPERTIES
  BinsFirst
  ImplementsContract


CHECK_DEADLOCK FALSE
