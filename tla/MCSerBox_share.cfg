SPECIFICATION FairSpec
CONSTANTS
  k1 = k1
  k2 = k2
  Sharer = Sharer
  Consumers = {k1, k2}
  Overlap = FALSE
  MaxShares = 3
INVARIANTS TypeOK DroppedOnce NoLeak
CHECK_DEADLOCK FALSE
PROPERTY ConsumerWakes
