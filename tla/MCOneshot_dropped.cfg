SPECIFICATION FairSpec
CONSTANTS
  t1 = t1
  t2 = t2
  Txs = {t1, t2}
  Rx = Rx
  MaxSends = 1
CHECK_DEADLOCK FALSE
PROPERTY RecvLearns
