SPECIFICATION Spec
CONSTANTS
  Dir = {d1}
  Request = {r1,r2}
  Conn = {c1}
  NoConn = NoConn
  NoDir = NoDir
  MaxRequests = 4
  MaxErrors = 0
  MaxDrops = 0
  Overlap = TRUE
SYMMETRY Symmetry
PROPERTIES RemovedAsRead
CHECK_DEADLOCK FALSE
