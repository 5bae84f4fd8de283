\* Two connections of one session, the first of which ends within a response.
SPECIFICATION FairSpec
CONSTANTS
  MaxConns = 2
  MaxRequests = 2
  Choosy = {}
INVARIANTS
  ResponseIsTheHosts
CHECK_DEADLOCK FALSE
