\* Two listeners, one write, one transaction, and close.
\* It stops when every call has been made and answered.
CONSTANTS
  Listener = {list, point}
  Point = {point}
  PointRows = {t1}
  Writer = {w}
  TxWrite = {t1}
  Tx = tx
  Closer = closer
  MaxFaults = 1
SPECIFICATION FairSpec
INVARIANTS
  SeesEarlierWrites
  NoDirtyReads
  ResolvedWritesLast
  ViewIsFresh
  OtherTabIsFresh
PROPERTIES
  EveryCallSettles
CHECK_DEADLOCK FALSE
