\* Two users and the worker, two cache blocks and three keys, one the prefix of
\* another, two queue places: a cache and a queue that fill, blocks taken again,
\* blocks written, moved and discarded at the same time.
CONSTANTS
  k1 = k1
  k2 = k2
  NoKey = NoKey
  Key = {k1, k2, k3}
  PrefixMatch <- MCPrefixMatch
  MAX_WORKQUEUE_SIZE = 3
  CACHE_BLOCK_NUMBER = 2
  INDEXER_NULL = NULL
  UINT_MAX = 7
  User = {u1, u2}
  Ops = {"READ", "WRITE", "OVERWRITE", "DISCARD"}
SPECIFICATION FairSpec
INVARIANTS
  TypeOK
  ListsMatchBits
  OnlyDiscardDisturbs
  OneBlockPerKey
  EveryBlockCounted
  NoWorkWithoutMigration
PROPERTIES EveryRequestLeaves
