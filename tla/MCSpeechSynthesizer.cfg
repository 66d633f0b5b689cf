SPECIFICATION FairSpeechSpec
CONSTANTS
  d1 = d1
  d2 = d2
  None = None
  Directives <- MCDirectives
  MaxEvents = 1
INVARIANTS
  FrontIsCurrent
  SilentWithoutFocus
PROPERTIES
  HandledIsAnswered
CHECK_DEADLOCK FALSE
