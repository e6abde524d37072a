CONSTANTS
  FEC_K          = 1
  FEC_M          = 1
  OkRun          = 1
  Half           = 3
  SeqSpace       = 4
  TxKeep         = 0
  TxStale        = 3
  MaxReads       = 2
  MaxLosses      = 2
  WholeBlockLoss = FALSE
  Duplicates     = FALSE

SPECIFICATION OpenSpec

PROPERTIES
  Delivered

\* A session may end, and nothing more happens.
CHECK_DEADLOCK FALSE
