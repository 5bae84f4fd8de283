\* Two calls on an SSL session, two threads, one strand.
SPECIFICATION FairSpec
CONSTANTS
  Ops = {o1, o2}
  Threads = {t1, t2}
  Strands = {s1}
  Plain = Plain
  Idle = Idle
  User = User
  Ssl = TRUE
INVARIANTS
  TypeOK
  FaithfulOutcome
  StreamNotShared
  StateOutlivesOperations
PROPERTIES
  PromiseKept
CHECK_DEADLOCK FALSE
