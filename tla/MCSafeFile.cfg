SPECIFICATION Spec
CONSTANTS
  Values <- AnyLength
  Initial <- MCInitial
  OldvalSize = 2
  MaxCalls = 3
  MaxCrashes = 2
CHECK_DEADLOCK FALSE
INVARIANTS
  TypeOK
  WholeValues
  WrittenIsDurable
  NothingOlderReturns
