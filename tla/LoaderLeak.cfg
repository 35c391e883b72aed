SPECIFICATION Spec
CONSTANTS
  Conn = {c1}
  Fd = {1, 2}
  Backend = "kqueue"
  Mode = "cgi"
  Block = 2
  FileSizes = {3}
  Scripts <- OneStatic
  Departures = {"fin"}
INVARIANT LoaderClosesFile
SYMMETRY Clients
CHECK_DEADLOCK FALSE
