\* A live query under changes of the query, the bindings and the table.
\* It comes to rest once nothing changes any more.
CONSTANTS
  MaxQueries = 3
  MaxBindings = 3
  MaxCommits = 2
  PrepareMayFail = TRUE
  ReadMayFail = TRUE
SPECIFICATION FairSpec
INVARIANTS
  OneReadAtATime
  DataIsFresh
  BindingsAreNotStale
PROPERTIES
  SettlesUnlessInterrupted
CHECK_DEADLOCK FALSE
