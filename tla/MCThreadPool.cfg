SPECIFICATION FairSpec
CONSTANTS
  Workers = {w1, w2, w3}
  Runners = {r1, r2, r3, r4}
  NoRunner = NoRunner
  MaxCount = 4
PROPERTIES
  ImplementsTaskPool
  PushedIsStarted
  EndReturns
INVARIANTS
  PoolInvariant
  PopFindsRunner
