SPECIFICATION FairSpec
CONSTANTS
  c1 = c1  c2 = c2  c3 = c3
  Conns = {c1, c2}
  Shape <- Shapes
  Fds = {5, 6}
  Workers = {w1, w2}
  CAP = 1
  BUF = 4
  None = None
  Reset = {c1}
INVARIANTS Handover DrainedBeforeFree
PROPERTIES AnsweredOnce ClientServed ShutdownEnds
