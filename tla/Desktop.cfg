SPECIFICATION FairSpec
CONSTANTS
  Nodes <- MCNodes
  Order <- MCOrder
  Values <- MCValues
  Default <- MCDefault
  Actionable <- MCExclusions
  Persistent <- MCExclusions
  Limit = 2
  Absent = Absent
  Texts <- MCTexts
  Replies <- MCReplies
  Outputs <- MCOutputs
  Unset = Unset
  Budgets <- MCBudgets
  DaemonFirst = TRUE
CHECK_DEADLOCK FALSE
INVARIANTS
  TypeOK
  SettingsMirror
  HistoryLinked
  ResultsAgree
  ShownIsCurrent
PROPERTIES
  StatusReached
  Quits
