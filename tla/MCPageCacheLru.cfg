\* A cached page that is not the head of the list is read, and then the page
\* that was the head before.
CONSTANTS
  CACHE_SIZE = 3
  PAGES = 4
  Lengths = {1, 4}
  Val = {"new"}
  Blank = "old"
  NULL = NULL
  MaxLost = 0
SPECIFICATION Spec
CHECK_DEADLOCK FALSE
INVARIANTS
  ReadPageIsHead
