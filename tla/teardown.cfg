SPECIFICATION FairSpec
CONSTANT MaxBlocks = 2
INVARIANT NoMissedWakeup
PROPERTIES BothClosedCloses GoroutinesEnd WriterEnds
\* A session may end, and nothing more happens.
CHECK_DEADLOCK FALSE
