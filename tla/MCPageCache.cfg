\* Four cached pages, two of them written back at a time, of a file of five:
\* calls of four pages, which overlap in part, and of five, which go past the
\* cache.  Calls begin as long as no more than one page is lost.
CONSTANTS
  CACHE_SIZE = 4
  PAGES = 5
  Lengths = {4, 5}
  Val = {"new"}
  Blank = "old"
  NULL = NULL
  MaxLost = 1
SPECIFICATION FairSpec
CHECK_DEADLOCK FALSE
INVARIANTS
  TypeOK
  HashFindsPages
  FreeListHolds
PROPERTIES
  CallsAdvance
  EveryCallReturns
  ActsAsStore
