\* A transaction is called while crsql_finalize is pending, and a write after it.
CONSTANTS
  Listener = {list, point}
  Point = {point}
  PointRows = {w}
  Writer = {w}
  TxWrite = {t1}
  Tx = tx
  Closer = closer
  MaxFaults = 0
SPECIFICATION FairSpec
INVARIANTS
  ClosingKeepsWrites
CHECK_DEADLOCK FALSE
