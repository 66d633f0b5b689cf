SPECIFICATION ReportingSeqSpec
CONSTANTS
  d1 = d1
  d2 = d2
  dialogA = dialogA
  NoDialog = NoDialog
  NoDirective = NoDirective
  Directives <- MCDirectives
  Dialogs <- MCDialogs
  DialogOf <- MCDialogOf
INVARIANTS
  OneAnswer
PROPERTIES
  EveryDirectiveAnswered
  QueueServed
  SeqShutdownReturns
CHECK_DEADLOCK FALSE
