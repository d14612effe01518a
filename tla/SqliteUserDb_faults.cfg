SPECIFICATION Spec
CONSTANTS
  Names <- MCNames
  Dirs <- MCDirs
  Files <- MCFiles
  Words <- MCWords
  Queries <- MCQueries
  Like <- MCLike
  CacheSize = 2
  MaxRootId = 2
  MaxFileId = 2
  MaxWordId = 3
  StorageFaults = TRUE
INVARIANTS
  TypeOK
  CacheCoherent
  IdsNeverClash
  TablesSound
