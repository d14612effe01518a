SPECIFICATION FairSpec
CONSTANTS
  Daemons <- MCDaemons
  Clients <- MCClients
  FirstPort = 1
  Retries = 1
  Occupied <- MCOccupied
  MaxStarts = 2
  MaxCrashes = 1
  MaxQuestions = 1
  MaxSessions = 1
INVARIANTS TypeOK FileIsTrue
PROPERTIES ClientsGetOn QuestionsEnd SignalEnds
CHECK_DEADLOCK FALSE
