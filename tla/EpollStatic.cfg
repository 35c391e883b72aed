SPECIFICATION FairSpec
CONSTANTS
  Conn = {c1}
  Fd = {1, 2}
  Backend = "epoll"
  Mode = "cgi"
  Block = 2
  FileSizes = {3}
  Scripts <- OneStatic
  Departures = {}
PROPERTY RequestsEnd

CHECK_DEADLOCK FALSE
