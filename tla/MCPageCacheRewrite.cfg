\* A page is written again while it is cached, as app.c does.
CONSTANTS
  CACHE_SIZE = 2
  PAGES = 4
  Lengths = {1, 2, 3}
  Val = {"new"}
  Blank = "old"
  NULL = NULL
  MaxLost = 0
SPECIFICATION Spec
CHECK_DEADLOCK FALSE
INVARIANTS
  HashedMeansInUse
