\* Server to client under every fault but a failed client transaction.
\* The system may stop: everything is synced, or the last socket is closed.
CONSTANTS
  ClientChange = {c1}
  ServerChange = {s1, s2}
  MaxSockets = 2
  MaxPulls = 1
  SocketsMayDrop = TRUE
  ClientMayRestart = TRUE
  ClientApplyMayFail = FALSE
  ServerApplyMayFail = TRUE
SPECIFICATION Spec
SYMMETRY Symmetry
INVARIANTS
  TypeOK
  ClientHoldsWhatItTracks
PROPERTIES
  ServerToClientIsInOrder
CHECK_DEADLOCK FALSE
