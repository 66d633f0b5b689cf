SPECIFICATION Spec
CONSTANTS
  MaxReaders = 1
  DataSize = 2
  MaxIndex = 2
  MaxWrite = 2
  MaxCalls = 3
  None = None
  Policies <- MCPolicies
INVARIANTS
  NoMissedNotification
CHECK_DEADLOCK FALSE
