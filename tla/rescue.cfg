SPECIFICATION FairSpec
CONSTANTS
  w = w
  v = v
  Path <- MCPath
  Root = 0
  Up <- MCUp
  Size <- MCSize
  Shown <- MCShown
  FormatRoughSize <- MCFormat
  BaseDirs <- MCBaseDirs
  BaseFiles <- MCBaseFiles
  BaseSize <- MCBaseSize
  Remotes <- MCRemotes
  Concurrency = 2
  MaxFaults = 1
  Name <- MCName
  Claims <- MCClaims
  Statuses <- MCStatuses
  Archives <- MCArchives
INVARIANTS TypeOK BaselineKept NumbersKept NumbersGrow CrawlIsOver ReportExact SizesExact RowsFollowTheTree OnlyOrderBlocks RangesHold
PROPERTY CrawlEnds
CHECK_DEADLOCK FALSE
