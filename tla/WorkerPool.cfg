SPECIFICATION FairSpec
CONSTANTS
  Workers <- MCWorkers
  Clients <- MCClients
  Tasks <- MCTasks
INVARIANTS
  TypeOK
  NoIdleBacklog
  OnePlace
  ClosedIsQuiet
PROPERTIES
  TasksRun
  DestructorReturns
