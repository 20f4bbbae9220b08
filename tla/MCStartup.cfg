SPECIFICATION FairSpec
CONSTANTS
  Servers = {"s"}
  Clients = {"c1"}
  SERVER_PORT_START = 5
  CLIENT_PORT_START = 2
  MaxPort = 7
  tryCount = 2
INVARIANTS RunsBound StartedIsComplete
PROPERTY SearchEnds
CHECK_DEADLOCK FALSE
