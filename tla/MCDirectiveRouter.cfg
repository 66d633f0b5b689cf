SPECIFICATION Spec
CONSTANTS
  h1 = h1
  h2 = h2
  h3 = h3
  n1 = n1
  n2 = n2
  n3 = n3
  t1 = t1
  t2 = t2
  t3 = t3
  t4 = t4
  NoHandler = NoHandler
  NoThread = NoThread
  Handlers <- MCHandlers
  Names <- MCNames
  NamesOf <- MCNamesOf
  Threads <- MCThreads
SYMMETRY MCSymmetry
INVARIANTS
  CountsAreUses
  AllOrNothing
  RemovedIsTold
  ShutdownLeavesNoHandler
CHECK_DEADLOCK FALSE
