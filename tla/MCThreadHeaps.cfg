CONSTANTS
  Threads <- const_Threads
  NoThread = 0
  Id <- const_Id
  NumHeaps = 2
  NumObjects = 2
  Mortal = {3}
  Junk = Junk
  MaxObjects = 3

SPECIFICATION FairSpec

INVARIANTS
  CachesAreIntact
  StatsAddUp

PROPERTIES
  ImplementsContract
  SomeCallReturns

CHECK_DEADLOCK FALSE
