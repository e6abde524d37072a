CONSTANTS
  Clients     = {p1}
  Conns       = {c1}
  MaxID       = 1
  MaxConnects = 2
  MaxLosses   = 0
  Duplicates  = FALSE

SPECIFICATION Spec

PROPERTIES
  ReplacedIsStale

\* A session may end, and nothing more happens.
CHECK_DEADLOCK FALSE
