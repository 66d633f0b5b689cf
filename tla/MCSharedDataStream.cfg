SPECIFICATION Spec
CONSTANTS
  MaxReaders = 2
  DataSize = 2
  MaxIndex = 3
  MaxWrite = 2
  MaxCalls = 4
  None = None
  Policies <- MCPolicies
INVARIANTS
  BarrierHolds
  ReadsAreIntact
  WriterSleepsWhenFull
  NobodySleepsAfterClose
CHECK_DEADLOCK FALSE
