\* One socket that never breaks; a transaction of the client may fail.
CONSTANTS
  ClientChange = {}
  ServerChange = {s1, s2}
  MaxSockets = 1
  MaxPulls = 1
  SocketsMayDrop = FALSE
  ClientMayRestart = FALSE
  ClientApplyMayFail = TRUE
  ServerApplyMayFail = FALSE
SPECIFICATION Spec
INVARIANTS
  ClientHoldsWhatItTracks
CHECK_DEADLOCK FALSE
