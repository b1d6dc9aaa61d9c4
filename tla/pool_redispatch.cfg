SPECIFICATION FairSpec
CONSTANTS
  Workers = {w1, w2, w3}
  Calls <- ShrinkingCalls
  MaxIndex = 3
INVARIANTS NoRepeatedIteration CompleteOnReturn
PROPERTIES PoolFreed
