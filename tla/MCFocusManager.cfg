SPECIFICATION FairSpec
CONSTANTS
  dialog = dialog
  alerts = alerts
  content = content
  a1 = a1
  a2 = a2
  a3 = a3
  a4 = a4
  o1 = o1
  o2 = o2
  o3 = o3
  NoActivity = NoActivity
  NoChannel = NoChannel
  MaxQueue = 2
  Channels <- MCChannels
  Priority <- MCPriority
  Activities <- MCActivities
  ChannelOf <- MCChannelOf
  ObserverOf <- MCObserverOf
  InterfaceOf <- MCInterfaceOf
INVARIANTS
  OneForeground
  FocusByPriority
  ToldIsTrue
PROPERTIES
  AcquireServed
CHECK_DEADLOCK FALSE
