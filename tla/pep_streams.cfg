CONSTANTS
  Clients     = {p1}
  Conns       = {c1, c2}
  MaxID       = 2
  MaxConnects = 2
  MaxLosses   = 0
  Duplicates  = TRUE

SPECIFICATION RunSpec
SYMMETRY Symmetry

INVARIANTS
  RegisteredHasRoom
  
  ConnectedIsDialled

\* A session may end, and nothing more happens.
CHECK_DEADLOCK FALSE
