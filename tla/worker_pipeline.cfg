SPECIFICATION Spec
CONSTANTS
  NumDirs = 3
  NumFiles = 2
  ParentIdx <- MCParentIdx
  DirIdx <- MCDirIdx
  FileStart <- MCFileStart
  FileEnd <- MCFileEnd
  Copies = 3
  EvCap = 4
  Lists <- MCLists
  Cached <- MCCached
  Remains <- MCRemains
  Absolute = TRUE
  TaskCap = 2
  MaxReplaces = 1
  MaxMishaps = 2
INVARIANTS TypeOK ListsAgree QueuedOnce MapsInverse FlagOwned OnlyClaimedQueued ClaimedInHand ConfirmedOnDisk OneReader ReadyMoves NoStandstill
CHECK_DEADLOCK FALSE
