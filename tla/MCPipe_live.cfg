SPECIFICATION FairSpec
CONSTANTS
  s1 = s1
  s2 = s2
  Root = Root
  Rx = Rx
  Senders = {s1, s2}
  MAX_CAPACITY = 2
  capacity = 1
  PosMod = 64
  Impatient = {}
  Hesitant = {}
  ErrorClosers = {}
  MaxMsgs = 2
CHECK_DEADLOCK FALSE
PROPERTIES Delivered WaiterWakes RxLearns
