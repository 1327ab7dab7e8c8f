\* Four keys, four slots (three usable): the indices wrap and the queue fills.
CONSTANTS
  k1 = k1
  k2 = k2
  NoKey = NoKey
  Key = {k1, k2, k3, k4}
  PrefixMatch <- MCPrefixMatch
  MAX_WORKQUEUE_SIZE = 4
SPECIFICATION FairSpec
INVARIANTS TypeOK LoopsSeeEveryWork NoDuplicateWork FrontIsHeld
PROPERTIES RefinesFifo EveryWorkIsTaken

