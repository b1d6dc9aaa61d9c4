----------------------------- MODULE MCSession -----------------------------
(***************************************************************************)
(* Instances of Session for TLC: prompts that fit the context, fill it and *)
(* are clipped to it, and micro-batches of two rows, so that a prompt      *)
(* takes one or several passes.  As ChatML's, where <|im_end|> is the      *)
(* end-of-sequence token, prompts may contain it.                          *)
(***************************************************************************)
EXTENDS Session

CONSTANTS a, b

\* An opening prompt starts with a, a continuation does not.
OpeningPrompts == {<<>>, <<a>>, <<a, Eos, b>>, <<a, b, a, b, b>>}
ContinuationPrompts == {<<b>>, <<Eos, a, b>>}
=============================================================================
