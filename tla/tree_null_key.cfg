SPECIFICATION Spec
CONSTANTS
  NumDirs = 2
  NumFiles = 1
  ParentIdx <- OneParentIdx
  DirIdx <- OneDirIdx
  FileStart <- OneFileStart
  FileEnd <- OneFileEnd
  Worker = {w1, w2}
  Handler = {h1, h2}
  SHA1 = {a, b}
  Anon = Anon
  NoSHA1 = NoSHA1
  Absent = Absent
  NoHandler = NoHandler
  Idle = Idle
  NoRow = NoRow
  LegacyRows <- NullKeyRows
  Overlap = FALSE
  CountWidth = 256
SYMMETRY Symmetry
INVARIANTS StoredConflictSeen
