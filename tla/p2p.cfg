CONSTANTS
  Site = {a, b}
  MaxWrites = 2
  MaxConns = 2
  MaxFaults = 1
SPECIFICATION Spec
INVARIANTS
  TracksOnlyWhatItHolds
  QuietMeansInSync
PROPERTIES
  PeersGoForward
SYMMETRY Symmetry
CHECK_DEADLOCK FALSE
