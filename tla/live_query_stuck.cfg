\* One change of the query, nothing fails.
CONSTANTS
  MaxQueries = 2
  MaxBindings = 1
  MaxCommits = 1
  PrepareMayFail = FALSE
  ReadMayFail = FALSE
SPECIFICATION FairSpec
PROPERTIES
  Settles
CHECK_DEADLOCK FALSE
