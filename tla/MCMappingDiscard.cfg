\* One user, three cache blocks and four keys: a DISCARD of the block that the
\* worker is writing back or demoting.
CONSTANTS
  k1 = k1
  k2 = k2
  NoKey = NoKey
  Key = {k1, k2, k3, k4}
  PrefixMatch <- MCExactMatch
  MAX_WORKQUEUE_SIZE = 3
  CACHE_BLOCK_NUMBER = 3
  INDEXER_NULL = NULL
  UINT_MAX = 7
  User = {u1}
  Ops = {"READ", "WRITE", "OVERWRITE", "DISCARD"}
SPECIFICATION Spec
SYMMETRY Alike
INVARIANT MovingBlockState
