SPECIFICATION Spec
CONSTANTS
  Conn = {c1, c2}
  Fd = {1, 2, 3, 4}
  Backend = "kqueue"
  Mode = "cgi"
  Block = 2
  FileSizes = {3}
  Scripts <- Pipelined
  Departures = {"gone"}
INVARIANT WatchSound
INVARIANT EventsOwned
INVARIANT FaultNeedsSecondLoad
SYMMETRY Clients
CHECK_DEADLOCK FALSE
