SPECIFICATION Spec
CONSTANTS
  A = A
  B = B
  c1 = c1
  SoloMsgs = 3
  Clients = {c1, c2, c3}
  BClients = {}
  Peers <- MCPeers
  Home <- MCHome
  Talkers <- ClientEnds
  Droppers <- AllEnds
  Closers = {}
  Cancellers = {}
  Failing = {}
  Garbled = {}
  MaxMsgs = 1
  ChanCap = 1
  WireCap = 2
  CAPACITY = 2
  IdMax = 4
CHECK_DEADLOCK FALSE
INVARIANT NoCrossTalk
