SPECIFICATION FairSpec
CONSTANTS
  Conn = {c1}
  Fd = {1, 2}
  Backend = "kqueue"
  Mode = "cgi"
  Block = 2
  FileSizes = {4}
  Scripts <- OneStatic
  Departures = {}
PROPERTY RequestsEnd

CHECK_DEADLOCK FALSE
