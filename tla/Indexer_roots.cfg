SPECIFICATION Spec
CONSTANTS
  Names <- MCNames
  Dirs <- MCDirs
  Files <- MCTwins
  Broken <- NoFile
  Damaged <- NoFile
  FirstDirs <- MCOneDir
  FirstFiles <- MCTwins
  MaxVersion = 2
  MaxRemovals = 1
  MaxEdits = 2
  WatcherFirst = TRUE
CHECK_DEADLOCK FALSE
INVARIANTS
  WritesReachIndex
  ScanLeavesNoGap
  IndexedUnderRoots
  ConfigurationApplied
