SPECIFICATION FairSpec
CONSTANTS
  c1 = c1
  c2 = c2
  Clients <- MCClients
  NoTransport = NoTransport
  MaxTransports = 3
  MaxCalls = 3
INVARIANTS
  DisabledIsDown
  TransportsAreHeld
PROPERTIES
  TransportsKeepLife
  CallsReturn
CHECK_DEADLOCK FALSE
