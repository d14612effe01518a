SPECIFICATION Spec
CONSTANTS
  Names <- MCNames
  Dirs <- MCDirs
  Files <- MCFiles
  Words <- MCWords
  Queries <- NoQuery
  Like <- MCLike
  CacheSize = 1
  MaxRootId = 2
  MaxFileId = 2
  MaxWordId = 2
  StorageFaults = FALSE
INVARIANT NextWordIdFree
