SPECIFICATION Spec
CONSTANTS
  External = External
  Nil = Nil
  Programs <- CatchPrograms
  Roots = {"main"}
PROPERTY HandlerEntered
CHECK_DEADLOCK FALSE
