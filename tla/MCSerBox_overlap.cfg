SPECIFICATION Spec
CONSTANTS
  k1 = k1
  k2 = k2
  Sharer = Sharer
  Consumers = {k1, k2}
  Overlap = TRUE
  MaxShares = 1
CHECK_DEADLOCK FALSE
INVARIANT DroppedOnce
