SPECIFICATION FairSpec
CONSTANTS
  Dir = {d1, d2}
  Request = {r1}
  Conn = {c1, c2}
  NoConn = NoConn
  NoDir = NoDir
  MaxRequests = 3
  MaxErrors = 1
  MaxDrops = 2
  Overlap = FALSE
INVARIANTS TypeOK RestartKeepsClaims WorkerAgrees TreeAgrees
PROPERTIES Converges ImplementsReplica
CHECK_DEADLOCK FALSE
