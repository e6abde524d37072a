SPECIFICATION FairSpec
CONSTANTS
  FEC_K = 2
  FEC_M = 1
  QueueLimit = 1
  LqrWait = 1
  Milli = 1
  PktTimes = {0, 1}
  MaxInputs = 3
INVARIANTS LinkNotOverrun QueueBounded CloseIsLast
PROPERTIES Fifo EverySent RunEnds CloseIsSent
\* A session may end, and nothing more happens.
CHECK_DEADLOCK FALSE
