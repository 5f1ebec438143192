CONSTANTS
  MaxVersion = 4
  MaxSources = 3
  MaxBreaks = 2
  MaxFaults = 0
SPECIFICATION Spec
INVARIANTS
  StaysContiguous
CHECK_DEADLOCK FALSE
