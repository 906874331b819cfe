SPECIFICATION LiveSpec
CONSTANTS
  A = A
  B = B
  c1 = c1
  SoloMsgs = 3
  Clients = {c1, c2, c3}
  BClients = {c3}
  Peers <- MCPeers
  Home <- MCHome
  Talkers <- LiveTalkers
  Droppers <- AllEnds
  Closers <- ServerEnds
  Cancellers = {c1}
  Failing = {}
  Garbled = {3}
  MaxMsgs = 3
  ChanCap = 1
  WireCap = 2
  CAPACITY = 2
  IdMax = 4
CHECK_DEADLOCK FALSE
PROPERTIES ConnectResolves CloseConverges DataArrives
