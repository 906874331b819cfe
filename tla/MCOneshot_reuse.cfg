SPECIFICATION FairSpec
CONSTANTS
  t1 = t1
  t2 = t2
  Txs = {t1, t2}
  Rx = Rx
  MaxSends = 3
INVARIANTS TypeOK CellExclusive FreshValue ActiveIsHeld
CHECK_DEADLOCK FALSE
PROPERTIES ClosedIsFinal SenderReturns SendWakes
