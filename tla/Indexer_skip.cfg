SPECIFICATION Spec
CONSTANTS
  Names <- MCNames
  Dirs <- MCDirs
  Files <- MCFiles
  Broken <- NoFile
  Damaged <- NoFile
  FirstDirs <- MCOneDir
  FirstFiles <- MCFiles
  MaxVersion = 2
  MaxRemovals = 1
  MaxEdits = 0
  WatcherFirst = TRUE
CHECK_DEADLOCK FALSE
PROPERTY ScanSkipsOnlyTheFile
