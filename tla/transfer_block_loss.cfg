CONSTANTS
  FEC_K          = 1
  FEC_M          = 0
  OkRun          = 1
  Half           = 3
  SeqSpace       = 4
  TxKeep         = 0
  TxStale        = 3
  MaxReads       = 2
  MaxLosses      = 1
  WholeBlockLoss = TRUE
  Duplicates     = FALSE

SPECIFICATION OpenSpec

PROPERTIES
  Delivered

\* A session may end, and nothing more happens.
CHECK_DEADLOCK FALSE
