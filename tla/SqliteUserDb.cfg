SPECIFICATION Spec
CONSTANTS
  Names <- MCNames
  Dirs <- MCDirs
  Files <- MCMoreFiles
  Words <- MCWords
  Queries <- NoQuery
  Like <- MCLike
  CacheSize = 1
  MaxRootId = 2
  MaxFileId = 3
  MaxWordId = 2
  StorageFaults = FALSE
INVARIANT RootsInSync
PROPERTIES RowKeepsItsWords ImplementsUserDb
