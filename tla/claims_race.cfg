SPECIFICATION Spec
CONSTANTS
  Dir = {d1, d2}
  Request = {r1,r2}
  Conn = {c1}
  NoConn = NoConn
  NoDir = NoDir
  MaxRequests = 3
  MaxErrors = 0
  MaxDrops = 0
  Overlap = TRUE
INVARIANTS WorkerAgrees
CHECK_DEADLOCK FALSE
