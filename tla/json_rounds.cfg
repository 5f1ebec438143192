\* The same messages: an integer below the safe ones is rounded.
CONSTANTS
  WsMessage <- SampleWs
  DirectMessage <- SampleDirect
SPECIFICATION Spec
INVARIANTS
  NoIntegerIsRounded
CHECK_DEADLOCK FALSE
