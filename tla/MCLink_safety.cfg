SPECIFICATION Spec
CONSTANTS
  A = A
  B = B
  c1 = c1
  SoloMsgs = 3
  Clients = {c1, c2}
  BClients = {c2}
  Peers <- MCPeers
  Home <- MCHome
  Talkers <- AClientEnds
  Droppers <- AllEnds
  Closers <- AServerEnds
  Cancellers = {c1}
  Failing = {"CONNECT", "ACK", "REJECT", "RESET"}
  Garbled = {}
  MaxMsgs = 2
  ChanCap = 1
  WireCap = 2
  CAPACITY = 2
  IdMax = 4
CHECK_DEADLOCK FALSE
INVARIANTS TypeOK TablesOK InsertsAreSafe InOrder NoCrossTalk
PROPERTY StreamsInOrder
