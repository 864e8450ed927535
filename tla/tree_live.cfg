SPECIFICATION Spec
CONSTANTS
  NumDirs = 3
  NumFiles = 2
  ParentIdx <- MCParentIdx
  DirIdx <- MCDirIdx
  FileStart <- MCFileStart
  FileEnd <- MCFileEnd
  Worker = {w1, w2}
  Handler = {h1, h2}
  SHA1 = {a, b}
  Anon = Anon
  NoSHA1 = NoSHA1
  Absent = Absent
  NoHandler = NoHandler
  Idle = Idle
  NoRow = NoRow
  LegacyRows <- DownloadedRows
  Overlap = FALSE
  CountWidth = 256
SYMMETRY Symmetry
INVARIANTS TypeOK AggregatesMatch ConflictFlagExact RestartInvisible StoredConflictSeen
