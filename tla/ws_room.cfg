\* Connections that come, fail and go.  It stops when every socket is closed.
CONSTANTS
  Conn = {k1, k2, k3}
  Schema = {a, b}
  MaxCloses = 2
SPECIFICATION Spec
SYMMETRY Symmetry
INVARIANTS
  UsersHaveTheirDbIfClosedOnce
  RefsCountUsers
  OneOpenDb
CHECK_DEADLOCK FALSE
