SPECIFICATION FairSpec
CONSTANTS
  Conns = {c1, c2}
  MaxBytes = 1
  MaxRequests = 2
CHECK_DEADLOCK FALSE
INVARIANTS
  TypeOK
PROPERTIES
  NoRequestAfterDispatcher
  EveryRequestProcessed
  ExitsFromServerThread
