CONSTANTS
  MaxVersion = 4
  MaxSources = 3
  MaxBreaks = 2
  MaxFaults = 1
SPECIFICATION FairSpec
INVARIANTS
  ClientHoldsWhatItTracks
  QuietMeansInSync
PROPERTIES
  CatchesUp
CHECK_DEADLOCK FALSE
