------------------------------ MODULE MCServer ------------------------------
(* Instances of Server for TLC.                                            *)
EXTENDS Server, TLC

CONSTANTS c1, c2, c3

\* A request larger than the buffer of 4, one with a two-part header, one
\* without a body.
Shapes == c1 :> [hdr |-> 1, body |-> 3] @@ c2 :> [hdr |-> 2, body |-> 1]
          @@ c3 :> [hdr |-> 1, body |-> 0]
=============================================================================
