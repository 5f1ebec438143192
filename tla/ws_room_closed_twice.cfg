\* A message whose handling throws, then its WebSocket's close.
CONSTANTS
  Conn = {k1, k2, k3}
  Schema = {a, b}
  MaxCloses = 2
SPECIFICATION Spec
SYMMETRY Symmetry
INVARIANTS
  UsersHaveTheirDb
CHECK_DEADLOCK FALSE
