CONSTANTS
  Threads = {t1, t2}
  NoThread <- const_NoThread
  Pages = {1, 2, 3}
  PageSize = 2
  Sizes = {1, 3, 15}
  SizeRange = 16
  MaxObjects = 3

SPECIFICATION FairSpec

INVARIANTS
  TypeOK
  EntryIsTrue
  PagesAccounted

PROPERTIES
  ImplementsContract
  SomeCallReturns
