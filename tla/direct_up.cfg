CONSTANTS
  Port = {p, q}
  MaxSyncs = 2
  MaxWrites = 3
  MaxFaults = 1
  MaxTicks = 1
SPECIFICATION Spec
SYMMETRY Symmetry
INVARIANTS
  ServerHoldsWhatItTracks
  SentIsHeld
  QuietMeansSent
PROPERTIES
  SeenGoesForward
CHECK_DEADLOCK FALSE
