----------------------------- MODULE MCAllocSet -----------------------------
(* An instance of AllocSet for TLC: two size classes of 1 and 2 units of 8 *)
(* bytes, and the real header sizes, 5 and 2 units.                        *)
EXTENDS AllocSet, TLC

ClassSizes == [i \in 0..1 |-> 2 ^ i]

\* Only malloc's choices are alike; the keeper has its own address.
BlockSymmetry == Permutations(Blocks \ {Keeper})
=============================================================================
