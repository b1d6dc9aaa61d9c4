------------------------------ MODULE MCEditor ------------------------------
(* Instances of Editor for TLC.                                            *)
EXTENDS Editor

\* Short and long texts, one and several lines, with the ends of lines of several
\* systems, a text that begins with a mark, one that begins an escape sequence, and
\* one that is too long.
SmallPastes ==
    {<<"char", "newline">>, <<"cr", "newline", "space">>, <<"wide", "char">>,
     <<"mark", "newline">>, <<"zwj">>, <<"flag">>, <<"esc", "bracket", "digit">>,
     <<"space", "cr", "char", "char", "wide", "wide">>}

\* Flags, a paste of each.
FlagPastes == {<<"flag">>, <<"flag", "flag">>}
=============================================================================
