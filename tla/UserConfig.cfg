SPECIFICATION FairSpec
CONSTANTS
  Dirs <- MCDirs
  Valid <- MCValid
  Documents <- MCDocuments
  Clients <- MCClients
  Written <- MCWritten
  MaxEdits = 3
  MaxCrashes = 1
INVARIANTS TypeOK RootsDisjoint Converged EditsStand
PROPERTY ComesToRest
CHECK_DEADLOCK FALSE
