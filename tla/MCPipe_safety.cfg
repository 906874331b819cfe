SPECIFICATION Spec
CONSTANTS
  s1 = s1
  s2 = s2
  Root = Root
  Rx = Rx
  Senders = {s1, s2}
  MAX_CAPACITY = 2
  capacity = 2
  PosMod = 6
  Impatient = {s1, s2}
  Hesitant = {s1, s2}
  ErrorClosers = {s1, s2, Rx}
  MaxMsgs = 2
INVARIANTS TypeOK IndexOwnership NoPanic NextInOrder NothingStranded WaiterHasWaker DisconnectedIsFinal ReasonIsTrue NothingLeft
CHECK_DEADLOCK FALSE
SYMMETRY SenderSymmetry
PROPERTY ImplementsChannel
