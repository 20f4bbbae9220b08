SPECIFICATION FairSpec
CONSTANTS
  NoAddr = NoAddr
  Client = TRUE
  Self = "A"
  Server = "S"
  Name = "ann"
  Incoming <- ClientIncoming
  Leftovers = TRUE
  MaxLength = 1
  MaxArrivals = 2
  MaxLines = 1
CHECK_DEADLOCK FALSE
PROPERTIES
  SignalledTasksEnd
