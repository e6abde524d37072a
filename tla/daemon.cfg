SPECIFICATION FairSpec
CONSTANTS
  Conns = {c1}
  Dsts <- MCDsts
  AddrOf <- MCAddrOf
  Files = {"f1", "f2", "bad"}
  Routes <- MCRoutes
  NoFile = NoFile
  Messages <- MCMessages
  NoRoute = NoRoute
  StreamIDs = {4095}
  Shards = 32
  MTU = 37
  BufSize = 9
  MaxAddr = 2
  Edits = 2
INVARIANTS Intact DialsAsked RoutedByTable 
 
\* A daemon may have nothing to do.
CHECK_DEADLOCK FALSE
