\* A primary that comes back after this node had been the primary.
CONSTANTS
  Peer = {p}
  Here = here
  FirstOnes = {here, p}
  MaxWrites = 0
  MaxMoves = 2
  MaxFaults = 0
SPECIFICATION FairSpec
PROPERTIES
  FollowsThePrimary
CHECK_DEADLOCK FALSE
