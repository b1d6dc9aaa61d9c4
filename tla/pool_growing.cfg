SPECIFICATION Spec
CONSTANTS
  Workers = {w1, w2}
  Calls <- GrowingCalls
  MaxIndex = 3
INVARIANTS CompleteOnReturn
