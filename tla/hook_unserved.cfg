\* Two hooks of one tab: the first to go stops the sync of the other.
CONSTANTS
  Tab = {t1}
  MaxHooks = 2
  MaxStarts = 2
  MaxFaults = 0
SPECIFICATION LockSpec
INVARIANTS
  MountedIsServed
CHECK_DEADLOCK FALSE
