SPECIFICATION FairSpec
CONSTANTS
  Names <- MCNames
  Dirs <- MCDirs
  Files <- MCFiles
  Broken <- MCBroken
  Damaged <- MCDamaged
  FirstDirs <- MCOneDir
  FirstFiles <- MCFiles
  MaxVersion = 2
  MaxRemovals = 1
  MaxEdits = 1
  WatcherFirst = FALSE
CHECK_DEADLOCK FALSE
INVARIANTS
  TypeOK
PROPERTY Settles
