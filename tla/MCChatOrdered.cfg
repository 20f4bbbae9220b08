SPECIFICATION Spec
CONSTANTS
  NoAddr = NoAddr
  Clients = {c1, c2, c3}
  Server = S
  Names = {ann, bob, eve}
  Ordered = TRUE
SYMMETRY Symmetry
CHECK_DEADLOCK FALSE
INVARIANTS
  StaysLoggedIn
  MutualKnowledge
