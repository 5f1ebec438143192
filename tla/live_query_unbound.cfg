\* One change of the query and one write, nothing fails.
CONSTANTS
  MaxQueries = 2
  MaxBindings = 1
  MaxCommits = 1
  PrepareMayFail = FALSE
  ReadMayFail = FALSE
SPECIFICATION Spec
INVARIANTS
  DataHasItsBindings
CHECK_DEADLOCK FALSE
