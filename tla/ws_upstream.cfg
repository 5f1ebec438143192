\* Client to server over sockets that close only when an end closes them.
\* The system may stop: everything is synced, or the last socket is closed.
CONSTANTS
  ClientChange = {c1, c2}
  ServerChange = {s1, s2}
  MaxSockets = 2
  MaxPulls = 2
  SocketsMayDrop = FALSE
  ClientMayRestart = TRUE
  ClientApplyMayFail = TRUE
  ServerApplyMayFail = FALSE
SPECIFICATION Spec
SYMMETRY Symmetry
INVARIANTS
  ServerHoldsWhatItTracks
  SentIsOnTheWayOrThere
PROPERTIES
  ClientToServerIsInOrder
CHECK_DEADLOCK FALSE
