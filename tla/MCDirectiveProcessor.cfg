SPECIFICATION Spec
CONSTANTS
  d1 = d1
  d2 = d2
  d3 = d3
  dialogA = dialogA
  dialogB = dialogB
  NoDialog = NoDialog
  NoDirective = NoDirective
  Directives <- MCDirectives
  Dialogs <- MCDialogs
  DialogOf <- MCDialogOf
SYMMETRY MCSymmetry
INVARIANTS
  BlockingHoldsQueue
  FailedDialogsStayEnded
  NothingForgotten
PROPERTIES
  HandledInOrder
  ImplementsLifecycle
CHECK_DEADLOCK FALSE
