\* Every server change arrives, however often the network breaks.
\* The system may stop once everything is synced.
CONSTANTS
  ClientChange = {}
  ServerChange = {s1, s2}
  MaxSockets = 2
  MaxPulls = 1
  SocketsMayDrop = TRUE
  ClientMayRestart = TRUE
  ClientApplyMayFail = FALSE
  ServerApplyMayFail = FALSE
SPECIFICATION FairSpec
PROPERTIES
  ServerChangesReachClient
CHECK_DEADLOCK FALSE
