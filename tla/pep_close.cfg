CONSTANTS
  Clients     = {p1}
  Conns       = {c1}
  MaxID       = 1
  MaxConnects = 1
  MaxLosses   = 1
  Duplicates  = FALSE

SPECIFICATION FairSpec

INVARIANTS
  TypeOK

PROPERTIES
  OneEndCloses
  ClosedIsRemoved

\* A session may end, and nothing more happens.
CHECK_DEADLOCK FALSE
