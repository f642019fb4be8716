CONSTANTS
  Threads <- const_Threads
  NoThread <- const_NoThread
  PthreadSelf <- const_PthreadSelf
  MaxSpin = 1
  IntRange = 32
  PageSize = 4
  MaxDepth = 2

SPECIFICATION FairSpec

INVARIANTS
  RecTypeOK
  NeverAborts
  DepthMatchesNesting
  OwnIdMeansHeld

PROPERTIES
  ImplementsMutexRec
  LockReturns
