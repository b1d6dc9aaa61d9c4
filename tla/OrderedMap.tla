----------------------------- MODULE OrderedMap -----------------------------
(***************************************************************************)
(* What a rax promises: a map from strings to values with ordered          *)
(* iteration.  An iterator is positioned by a seek; the first step after a *)
(* seek yields the element sought, later ones its neighbours, and the end, *)
(* once reached, is final.  The map is not changed during an iteration.    *)
(***************************************************************************)
EXTENDS Integers, Sequences, FiniteSets, SequencesExt

CONSTANTS Keys, Values, Probes, SeekOps, NULL

VARIABLES
  dict,      \* the map
  cursor,    \* [state, key]: "off", "fresh" after a seek, "at" or "eof"
  ret,       \* what the last operation returned
  call       \* that operation and its arguments

vars == <<dict, cursor, ret, call>>

\* Lexicographic order, a prefix first (memcmp, then the lengths).
Less(a, b) ==
  \/ IsStrictPrefix(a, b)
  \/ \E i \in DOMAIN a \cap DOMAIN b :
       a[i] < b[i] /\ SubSeq(a, 1, i - 1) = SubSeq(b, 1, i - 1)

Off == [state |-> "off", key |-> <<>>]
At(state, k) == [state |-> state, key |-> k]
NotFound == [found |-> 0, old |-> NULL]

\* The keys that an operator admits, and the one of them that a seek chooses.
Admits(op, s) ==
  {k \in DOMAIN dict :
     CASE op = "^" \/ op = "$" -> TRUE
       [] op = "="  -> k = s
       [] op = ">"  -> Less(s, k)
       [] op = ">=" -> ~Less(k, s)
       [] op = "<"  -> Less(k, s)
       [] op = "<=" -> ~Less(s, k)}
Lowest(S) == CHOOSE k \in S : \A l \in S : ~Less(l, k)
Highest(S) == CHOOSE k \in S : \A l \in S : ~Less(k, l)
Sought(op, s) ==
  IF op \in {"<", "<=", "$"} THEN Highest(Admits(op, s)) ELSE Lowest(Admits(op, s))

Init == dict = << >> /\ cursor = Off /\ ret = NotFound /\ call = <<"new">>

Put(k, v, overwrite) ==
  /\ cursor = Off /\ cursor' = Off /\ call' = <<"insert", k, v, overwrite>>
  /\ \/ /\ k \in DOMAIN dict
        /\ dict' = IF overwrite THEN [dict EXCEPT ![k] = v] ELSE dict
        /\ ret' = [found |-> 0, old |-> dict[k]]
     \/ /\ k \notin DOMAIN dict
        /\ dict' = [l \in DOMAIN dict \cup {k} |-> IF l = k THEN v ELSE dict[l]]
        /\ ret' = [found |-> 1, old |-> NULL]

Delete(k) ==
  /\ cursor = Off /\ cursor' = Off /\ call' = <<"remove", k>>
  /\ dict' = [l \in DOMAIN dict \ {k} |-> dict[l]]
  /\ ret' = IF k \in DOMAIN dict THEN [found |-> 1, old |-> dict[k]] ELSE NotFound

Seek(op, s) ==
  /\ cursor = Off /\ call' = <<"seek", op, s>>
  /\ cursor' = IF Admits(op, s) = {} THEN At("eof", <<>>) ELSE At("fresh", Sought(op, s))
  /\ ret' = [found |-> 1, old |-> NULL]
  /\ UNCHANGED dict

\* One step: the nearest key in this direction, or the end.
Step(beyond, Nearest(_)) ==
  /\ cursor # Off
  /\ LET to == CASE cursor.state = "fresh" -> At("at", cursor.key)
                 [] cursor.state = "eof" \/ beyond = {} -> At("eof", <<>>)
                 [] OTHER -> At("at", Nearest(beyond))
     IN /\ cursor' = to
        /\ ret' = IF to.state = "eof" THEN NotFound
                  ELSE [found |-> 1, old |-> dict[to.key]]
  /\ UNCHANGED dict

StepUp ==
  call' = <<"next">> /\ Step({k \in DOMAIN dict : Less(cursor.key, k)}, Lowest)
StepDown ==
  call' = <<"prev">> /\ Step({k \in DOMAIN dict : Less(k, cursor.key)}, Highest)

Stop ==
  cursor # Off /\ cursor' = Off /\ ret' = NotFound /\ call' = <<"stop">> /\ UNCHANGED dict

Clear ==
  cursor = Off /\ cursor' = Off /\ ret' = NotFound /\ call' = <<"free">> /\ dict' = << >>

Next ==
  \/ \E k \in Keys, v \in Values, overwrite \in BOOLEAN : Put(k, v, overwrite)
  \/ \E k \in Probes : Delete(k)
  \/ \E op \in SeekOps \ {"^", "$"}, s \in Probes : Seek(op, s)
  \/ \E op \in SeekOps \cap {"^", "$"} : Seek(op, <<>>)   \* they ignore the string
  \/ StepUp \/ StepDown \/ Stop \/ Clear

Spec == Init /\ [][Next]_vars
=============================================================================
