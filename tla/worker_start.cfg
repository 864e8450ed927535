SPECIFICATION FairSpec
CONSTANTS
  NumDirs = 3
  NumFiles = 2
  ParentIdx <- MCParentIdx
  DirIdx <- MCDirIdx
  FileStart <- MCFileStart
  FileEnd <- MCFileEnd
  Copies = 3
  EvCap = 4
  Lists <- MCLists
  Cached <- MCCached
  Remains <- MCRemains
  Absolute = FALSE
  TaskCap = 1
  MaxReplaces = 0
  MaxMishaps = 0
PROPERTY StartsUp
CHECK_DEADLOCK FALSE
