\* Two equal reads, a transaction queued between them.
CONSTANTS
  Listener = {list, point}
  Point = {point}
  PointRows = {w}
  Writer = {w}
  TxWrite = {t1}
  Tx = tx
  Closer = closer
  MaxFaults = 0
SPECIFICATION FairSpec
INVARIANTS
  ReadsFollowTransactions
CHECK_DEADLOCK FALSE
