SPECIFICATION Spec
CONSTANTS
  NoAddr = NoAddr
  Names = {"ann", "bob", "error"}
  LeaveOutcomes = {"ignored", "freed", "blocked"}
  MaxMessages = 3
CHECK_DEADLOCK FALSE
INVARIANTS
  TypeOK
  RunnerIteratorFresh
  HandlerIsAtomic
