\* A demotion, followed by a use of block 0 before the trim is carried out
\* or a demotion of block 1 while block 0 is in use.
CONSTANTS
  NoKey = NoKey
  Key = {k1, k2, k3}
  PrefixMatch <- MCExactMatch
  MAX_WORKQUEUE_SIZE = 2
  CACHE_BLOCK_NUMBER = 2
  INDEXER_NULL = NULL
  UINT_MAX = 7
  User = {u1}
  Ops = {"READ", "WRITE", "OVERWRITE"}
  Val = {a, b}
  Blank = Blank
  MaxRaces = 0
SPECIFICATION SsdSpec
SYMMETRY Alike
CHECK_DEADLOCK FALSE
INVARIANT TrimmedIsFree
