SPECIFICATION FairSpec
CONSTANTS
  Conn = {c1, c2}
  Fd = {1, 2}
  Backend = "epoll"
  Mode = "cgi"
  Block = 2
  FileSizes = {1}
  Scripts <- Segmented
  Departures = {"fin", "gone"}
INVARIANT LiveConnPolled
PROPERTIES DropsAccounted RequestsSettle DeletedConnEnds BacklogServed
CHECK_DEADLOCK FALSE
