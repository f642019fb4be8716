CONSTANTS
  Threads <- const_Threads
  NoThread <- const_NoThread
  MaxSpin = 2

SPECIFICATION FairLockSpec

INVARIANTS
  LockTypeOK

PROPERTIES
  ImplementsMutex
  SomeoneGetsIn
