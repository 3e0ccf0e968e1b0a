SPECIFICATION CallsSpec
CONSTANTS
  MaxReconnects = 2
  MaxCalls = 2
  SendRejects = TRUE
  MaxTasks = 2
CHECK_DEADLOCK FALSE
INVARIANTS CallsTypeOK IdleIsQuiet ConnectedByConsent
PROPERTY WaitingEnds
