SPECIFICATION FairSpec
CONSTANTS
  Conn = {c1, c2}
  Fd = {1, 2, 3, 4}
  Backend = "kqueue"
  Mode = "so"
  Block = 2
  FileSizes = {2, 3}
  Scripts <- Mixed
  Departures = {"fin", "gone"}
INVARIANTS SocketOwned DupOwned
PROPERTIES KeepsPromise RequestsSettle DeletedConnEnds
CHECK_DEADLOCK FALSE
