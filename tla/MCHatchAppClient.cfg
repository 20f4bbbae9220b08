SPECIFICATION FairSpec
CONSTANTS
  NoAddr = NoAddr
  Client = TRUE
  Self = "A"
  Server = "S"
  Name = "ann"
  Incoming <- ClientIncoming
  Leftovers = FALSE
  MaxLength = 1
  MaxArrivals = 3
  MaxLines = 1
CHECK_DEADLOCK FALSE
INVARIANTS
  TypeOK
  LogoutIsSent
  TextRunnerInScope
PROPERTIES
  CloseExits
  SignalledTasksEnd
