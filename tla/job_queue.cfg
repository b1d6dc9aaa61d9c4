SPECIFICATION FairSpec
CONSTANTS
  Workers = {w1, w2}
  Jobs = {j1, j2, j3, j4}
  CAP = 2
  None = None
PROPERTIES ImplementsJobService EveryJobHandled DestroyEnds
