SPECIFICATION CallsSpec
CONSTANTS
  MaxReconnects = 3
  MaxCalls = 1
  MaxTasks = 3
  SendRejects = FALSE
CHECK_DEADLOCK FALSE
PROPERTY ReconnectingEnds
