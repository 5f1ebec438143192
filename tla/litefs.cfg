\* One node among three, through two moves of the primary and a broken
\* connection.  It stops when every write has been sent and answered.
CONSTANTS
  Peer = {p, q}
  Here = here
  FirstOnes = {here, p}
  MaxWrites = 2
  MaxMoves = 2
  MaxFaults = 1
SPECIFICATION FairSpec
INVARIANTS
  AckedInOrder
  GapOnlyAfterFailure
  NoCopyIsWritten
  SteadyPrimaryServes
PROPERTIES
  FollowsUnlessExcused
  RequestsSettle
CHECK_DEADLOCK FALSE
