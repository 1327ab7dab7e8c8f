\* Chains of up to three entries: one that is searched has a middle, and
\* another is next to it.
CONSTANTS
  k1 = k1
  k2 = k2
  k3 = k3
  k4 = k4
  NoKey = NoKey
  Key = {k1, k2, k3, k4}
  CACHE_BLOCK_NUMBER = 3
  INDEXER_NULL = NULL
  Bucket = {"a", "b"}
  hash_32 <- MCHash
SPECIFICATION FairSpec
INVARIANTS TypeOK ChainsHold
PROPERTIES ActsAsSet SearchEnds
