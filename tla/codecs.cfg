\* One data event: one message of each kind, or two that TCP has joined.
CONSTANTS
  WsMessage <- SampleWs
  DirectMessage <- SampleDirect
SPECIFICATION Spec
INVARIANTS
  FirstMessageArrives
  JsonKeepsSqlValues
CHECK_DEADLOCK FALSE
