\* One connection, and two requests the parser of the first of which may refuse
\* its response.
SPECIFICATION FairSpec
CONSTANTS
  MaxConns = 1
  MaxRequests = 2
  Choosy = {1}
INVARIANTS
  ResponseIsTheHosts
CHECK_DEADLOCK FALSE
