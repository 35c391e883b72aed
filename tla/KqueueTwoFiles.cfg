SPECIFICATION FairSpec
CONSTANTS
  Conn = {c1, c2}
  Fd = {1, 2, 3, 4}
  Backend = "kqueue"
  Mode = "cgi"
  Block = 2
  FileSizes = {3}
  Scripts <- OneStatic
  Departures = {}
PROPERTY RequestsEnd

CHECK_DEADLOCK FALSE
