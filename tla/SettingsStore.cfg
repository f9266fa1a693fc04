SPECIFICATION FairSpec
CONSTANTS
  Procs = {p, q}
  Fields = {theme, model}
  User = User
  Nil = Nil
  Dead = Dead
  Faults = {"edit", "reload", "crash"}
  MaxSets = 3
INVARIANTS NothingForgotten
PROPERTIES OthersChangesKept FlushReturns
CHECK_DEADLOCK FALSE
