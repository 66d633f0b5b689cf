SPECIFICATION FairSpec
CONSTANTS
  r1 = r1
  r2 = r2
  Requests <- MCRequests
  Event = Event
  Downchannel = Downchannel
  MaxStreams = 2
INVARIANTS
  AnsweredOnce
  ConnectNeverBlocks
  FirstFetchIsInProgress
PROPERTIES
  ImplementsLife
  QueueServed
  ShutdownReturns
CHECK_DEADLOCK FALSE
