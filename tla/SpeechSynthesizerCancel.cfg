SPECIFICATION SpeechSpec
CONSTANTS
  d1 = d1
  d2 = d2
  None = None
  Directives <- MCDirectives
  MaxEvents = 0
INVARIANTS
  AwaitedIsUnderWay
CHECK_DEADLOCK FALSE
