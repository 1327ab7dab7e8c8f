\* Three keys for one block and one queue place: promotions, writebacks and
\* demotions all occur, and the block is taken again and again, while two users
\* read, write and discard.  A behaviour stops at the first key that has raced.
CONSTANTS
  NoKey = NoKey
  Key = {k1, k2, k3}
  PrefixMatch <- MCExactMatch
  MAX_WORKQUEUE_SIZE = 2
  CACHE_BLOCK_NUMBER = 1
  INDEXER_NULL = NULL
  UINT_MAX = 7
  User = {u1, u2}
  Ops = {"READ", "WRITE", "OVERWRITE", "DISCARD"}
  Val = {a, b}
  Blank = Blank
  MaxRaces = 0
SPECIFICATION SsdSpec
SYMMETRY Alike
CHECK_DEADLOCK FALSE
INVARIANTS
  SsdTypeOK
  LastWriteIsKept
  CleanIsSaved
  ReadsSeeWrites
