SPECIFICATION FairSpec
CONSTANTS
  n1 = n1
  n2 = n2
  r1 = r1
  r2 = r2
  NoName = NoName
  Names <- MCNames
  Requesters <- MCRequesters
  MaxInserts = 2
  TokenRange = 65536
INVARIANTS
  ContextIsFresh
PROPERTIES
  RequestersAnswered
CHECK_DEADLOCK FALSE
