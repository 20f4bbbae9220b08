SPECIFICATION FairSpec
CONSTANTS
  NoAddr = NoAddr
  Client = FALSE
  Self = "S"
  Server = "S"
  Name = "ann"
  Incoming <- ServerIncoming
  Leftovers = FALSE
  MaxLength = 1
  MaxArrivals = 3
  MaxLines = 0
CHECK_DEADLOCK FALSE
INVARIANTS
  ListedIsAnswered
PROPERTIES
  SignalledTasksEnd
