\* Two connections on their way through three objects each, and one SSL session.
SPECIFICATION FairSpec
CONSTANTS
  Conns = {c1, c2}
  Clients = {s1}
  Hops = 3
  Head = Head
  NoConn = NoConn
  Nobody = Nobody
INVARIANTS
  TypeOK
  OwnedOnce
  LoopKeepsAccepting
  ReachedUnlessMoved
PROPERTIES
  HandedOver
CHECK_DEADLOCK FALSE
