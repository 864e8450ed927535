SPECIFICATION Spec
CONSTANTS
  Dir = {d1, d2}
  Request = {r1}
  Conn = {c1, c2}
  NoConn = NoConn
  NoDir = NoDir
  MaxRequests = 2
  MaxErrors = 0
  MaxDrops = 1
  Overlap = FALSE
INVARIANTS FinalStatePushed
CHECK_DEADLOCK FALSE
