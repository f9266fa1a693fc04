SPECIFICATION Spec
CONSTANTS
  Ids = {a, b, c, d}
  Null = Null
  MaxAt = 4
  ForkAcrossLabels = FALSE
SYMMETRY Symmetry
INVARIANTS IndexMatchesLog 
  
CHECK_DEADLOCK FALSE
