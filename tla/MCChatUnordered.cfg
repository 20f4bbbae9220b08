SPECIFICATION Spec
CONSTANTS
  NoAddr = NoAddr
  Clients = {c1, c2, c3}
  Server = S
  Names = {ann, bob}
  Ordered = FALSE
SYMMETRY Symmetry
CHECK_DEADLOCK FALSE
INVARIANTS
  TypeOK
  ChattingIsListed
  UniqueNames
PROPERTY
  ImplementsRegistry
