\* Three connections and four requests on one session, the parser of the second
\* of which may refuse its response.
SPECIFICATION FairSpec
CONSTANTS
  MaxConns = 3
  MaxRequests = 4
  Choosy = {2}
INVARIANTS
  TypeOK
  AnswersItsRequest
PROPERTIES
  AnswerIsDelivered
  RequestEnds
CHECK_DEADLOCK FALSE
