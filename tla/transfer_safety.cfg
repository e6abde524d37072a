CONSTANTS
  FEC_K          = 2
  FEC_M          = 1
  OkRun          = 1
  Half           = 3
  SeqSpace       = 4
  TxKeep         = 0
  TxStale        = 3
  MaxReads       = 2
  MaxLosses      = 0
  WholeBlockLoss = TRUE
  Duplicates     = TRUE

SPECIFICATION Spec

INVARIANTS
  TypeOK
  LossesInRange
  OutIsPrefix
  PendingHasTimer
  NakFindsShard
  TxBlocksRecent
  OnlyFirstBehindWriter

PROPERTIES
  StreamSpec
  SeenIsWritten
  ReportedHasArrived

\* A session may end, and nothing more happens.
CHECK_DEADLOCK FALSE
