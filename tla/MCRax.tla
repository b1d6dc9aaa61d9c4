------------------------------- MODULE MCRax -------------------------------
(* Instance of Rax: keys that are prefixes of each other and branch inside  *)
(* compressed nodes, probed with further strings between and beside them.   *)
EXTENDS Rax

mcKeys == {<<>>, <<1, 2>>, <<1, 2, 1, 2>>, <<1, 2, 2, 1>>, <<2, 1>>, <<2, 1, 1>>}
mcProbes == mcKeys \cup {<<1>>, <<1, 2, 1>>, <<1, 3>>, <<2>>, <<2, 1, 2>>, <<3>>}
=============================================================================
