SPECIFICATION FairSpec
CONSTANTS
  m1 = m1
  m2 = m2
  m3 = m3
  Messages <- MCMessages
  NoRequest = NoRequest
  HardLimit = 2
  MaxClears = 1
  MaxRestarts = 1
INVARIANTS
  OpenIsQueuedAndStored
PROPERTIES
  SentInOrder
  DestroyReturns
  QueueDrains
CHECK_DEADLOCK FALSE
