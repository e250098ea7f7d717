SPECIFICATION Spec
CONSTANTS
  External = External
  Nil = Nil
  Programs <- PassingPrograms
  Roots = {"main", "search", "deep"}
INVARIANTS TypeOK BlocksAreLexical HandlersAreLexical
PROPERTIES StackRestored NearestHandler
CHECK_DEADLOCK FALSE
