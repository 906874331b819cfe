SPECIFICATION Spec
CONSTANTS
  s1 = s1
  s2 = s2
  Root = Root
  Rx = Rx
  Senders = {s1}
  MAX_CAPACITY = 64
  capacity = 1
  PosMod = 1024
  Impatient = {}
  Hesitant = {}
  ErrorClosers = {}
  MaxMsgs = 1025
CHECK_DEADLOCK FALSE
INVARIANT NothingStranded
