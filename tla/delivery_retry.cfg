SPECIFICATION Spec
CONSTANTS
  NumDirs = 3
  NumFiles = 2
  ParentIdx <- MCParentIdx
  DirIdx <- MCDirIdx
  FileStart <- MCFileStart
  FileEnd <- MCFileEnd
  Conn = {c1, c2}
  NoConn = NoConn
  Version = {1, 2}
  WireCap = 1
  MaxFaults = 1
  Prompt = FALSE
SYMMETRY Symmetry
INVARIANTS TypeOK AckedStored NoReportLost
PROPERTIES CoverageKept DeliversAtLeastOnce
