\* Two tabs, two hooks each.  It stops when every start has been made.
CONSTANTS
  Tab = {t1, t2}
  MaxHooks = 2
  MaxStarts = 2
  MaxFaults = 1
SPECIFICATION FairLockSpec
INVARIANTS
  OneTabSyncs
PROPERTIES
  SomebodySyncs
CHECK_DEADLOCK FALSE
