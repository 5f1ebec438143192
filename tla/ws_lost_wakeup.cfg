\* One socket that never breaks, no failure of any kind.
CONSTANTS
  ClientChange = {c1, c2}
  ServerChange = {s1}
  MaxSockets = 1
  MaxPulls = 2
  SocketsMayDrop = FALSE
  ClientMayRestart = FALSE
  ClientApplyMayFail = FALSE
  ServerApplyMayFail = FALSE
SPECIFICATION FairSpec
PROPERTIES
  ClientChangesReachServer
CHECK_DEADLOCK FALSE
