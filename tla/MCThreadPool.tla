--------------------------- MODULE MCThreadPool ----------------------------
(* Instances of ThreadPool: what the caller dispatches.                    *)
EXTENDS ThreadPool

\* A loop, an empty one, and a shorter one over the same indices.
ShrinkingCalls ==
  <<[start |-> 0, end |-> 3], [start |-> 2, end |-> 2], [start |-> 0, end |-> 2]>>

\* A short loop, then a longer one.
GrowingCalls == <<[start |-> 0, end |-> 1], [start |-> 0, end |-> 3]>>

=============================================================================
