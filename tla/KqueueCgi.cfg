SPECIFICATION Spec
CONSTANTS
  Conn = {c1, c2}
  Fd = {1, 2, 3}
  Backend = "kqueue"
  Mode = "cgi"
  Block = 2
  FileSizes = {0, 2, 3}
  Scripts <- Headers
  Departures = {"fin", "gone"}
INVARIANT TypeOK
INVARIANT SocketOwned
INVARIANT FinishedDrains
INVARIANT StaysUp
INVARIANT OpenFileAccounted
PROPERTY KeepsPromise
SYMMETRY Clients
CHECK_DEADLOCK FALSE
