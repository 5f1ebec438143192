\* A connection that breaks with a message lost: the next one is out of order.
CONSTANTS
  ClientChange = {c1, c2}
  ServerChange = {s1}
  MaxSockets = 2
  MaxPulls = 2
  SocketsMayDrop = TRUE
  ClientMayRestart = FALSE
  ClientApplyMayFail = FALSE
  ServerApplyMayFail = FALSE
SPECIFICATION Spec
INVARIANTS
  ServerHoldsWhatItTracks
CHECK_DEADLOCK FALSE
