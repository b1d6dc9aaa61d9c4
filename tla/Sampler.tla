------------------------------- MODULE Sampler -------------------------------
(***************************************************************************)
(* sample_token of sampler.c: penalties, the bounded heap that selects the *)
(* candidates, top-k, min-p and top-p, and the draw.  Logits are numbers   *)
(* of a small range, their exponentials the integers Weight gives them;    *)
(* shares are in percent of the sum of all weights.  A draw can return     *)
(* every survivor of the filters.                                          *)
(***************************************************************************)
EXTENDS Integers, Sequences, FiniteSets, FiniteSetsExt, SequencesExt

CONSTANTS
  Weight(_),    \* the exponential of a scaled logit, increasing
  CAP           \* candidates selected first when top_k is 0 (64)

\* The array logits, penalised by the history of the last repeat_last_n tokens.
Window(p, history) ==
  SubSeq(history, Max({0, Len(history) - p.repeat_last_n}) + 1, Len(history))

Count(t, h) == Cardinality({j \in DOMAIN h : h[j] = t})

\* Once for each token of the window: its first occurrence is the one that counts.
Penalised(logits, p, history) ==
  LET h == Window(p, history) IN
  [t \in DOMAIN logits |->
     IF Count(t, h) = 0 THEN logits[t]
     ELSE (IF logits[t] <= 0 THEN logits[t] * p.repeat_penalty
           ELSE logits[t] \div p.repeat_penalty)
          - (Count(t, h) * p.frequency_penalty + p.presence_penalty)]

sample_greedy(logits) ==
  Min({t \in DOMAIN logits : \A u \in DOMAIN logits : logits[u] <= logits[t]})

(* ---- select_top: a min-heap of at most cap tokens ------------------------ *)

Swap(h, i, j) == [h EXCEPT ![i] = h[j], ![j] = h[i]]

\* A place of the heap and the heap as it is when the loop gets there.
SiftUp(heap, vals) ==
  LET Up[x \in (DOMAIN heap) \X [DOMAIN heap -> Nat]] ==
        LET c == x[1]
            h == x[2]
        IN IF c > 1 /\ vals[h[c \div 2]] > vals[h[c]]
           THEN Up[<<c \div 2, Swap(h, c, c \div 2)>>] ELSE h
  IN Up[<<Len(heap), heap>>]

\* The smallest of a node and its children.
Smaller(h, p, vals) ==
  LET l == IF 2 * p <= Len(h) /\ vals[h[2 * p]] < vals[h[p]] THEN 2 * p ELSE p
  IN IF 2 * p + 1 <= Len(h) /\ vals[h[2 * p + 1]] < vals[h[l]] THEN 2 * p + 1 ELSE l

SiftDown(heap, vals) ==
  LET Down[x \in (DOMAIN heap) \X [DOMAIN heap -> Nat]] ==
        LET p == x[1]
            h == x[2]
        IN IF Smaller(h, p, vals) = p THEN h
           ELSE Down[<<Smaller(h, p, vals), Swap(h, p, Smaller(h, p, vals))>>]
  IN Down[<<1, heap>>]

select_top(cap, vals) ==
  LET Sel[i \in 0..Len(vals)] ==
        IF i = 0 THEN <<>>
        ELSE LET h == Sel[i - 1] IN
             IF Len(h) < cap THEN SiftUp(Append(h, i), vals)
             ELSE IF vals[i] > vals[h[1]] THEN SiftDown([h EXCEPT ![1] = i], vals)
             ELSE h
  IN Sel[Len(vals)]

\* sort_desc: the insertion sort, stable.
sort_desc(a, vals) ==
  LET Ins[i \in 0..Len(a)] ==
        IF i = 0 THEN <<>>
        ELSE LET s == Ins[i - 1]
                 j == Cardinality({k \in DOMAIN s : vals[s[k]] >= vals[a[i]]})
             IN SubSeq(s, 1, j) \o <<a[i]>> \o SubSeq(s, j + 1, Len(s))
  IN Ins[Len(a)]

(* ---- the filters --------------------------------------------------------- *)

\* The sum of the first n weights of the candidates pi, and of the whole vocabulary.
Sum(pi, n, vals) == LET S[i \in 0..n] == IF i = 0 THEN 0 ELSE S[i - 1] + vals[pi[i]] IN S[n]
Total(vals) == LET S[i \in 0..Len(vals)] == IF i = 0 THEN 0 ELSE S[i - 1] + vals[i] IN S[Len(vals)]

\* min-p on a descending sequence: up to the first that fails.
MinPCutoff(p, pi, vals) ==
  IF p.min_p = 0 \/ pi = <<>> THEN Len(pi)
  ELSE Max({n \in 1..Len(pi) : \A i \in 1..n : vals[pi[i]] * 100 >= p.min_p * vals[pi[1]]})

\* Mutant of TopPCutoff: shares of the candidates' sum, not of the vocabulary's.
TopPCutoffLocal(p, pi, n, vals) ==
  LET reach == {i \in 1..n : Sum(pi, i, vals) * 100 >= p.top_p * Sum(pi, Len(pi), vals)}
  IN IF p.top_p >= 100 \/ reach = {} THEN n ELSE Min(reach)

TopPCutoff(p, pi, n, vals) ==
  LET reach == {i \in 1..n : Sum(pi, i, vals) * 100 >= p.top_p * Total(vals)}
  IN IF p.top_p >= 100 \/ reach = {} THEN n ELSE Min(reach)

\* The selection loop: without top-k the cap grows until the filters end inside it.
Survivors(p, vals) ==
  LET n == Len(vals)
      Try[cap \in 1..n] ==
        LET pi == sort_desc(select_top(cap, vals), vals)
            cutoff == TopPCutoff(p, pi, MinPCutoff(p, pi, vals), vals)
        IN IF p.top_k > 0 \/ cutoff < Len(pi) \/ cap >= n
           THEN SubSeq(pi, 1, Max({cutoff, 1}))
           ELSE Try[IF cap > n \div 4 THEN n ELSE cap * 4]
  IN Try[Min({n, IF p.top_k > 0 THEN p.top_k ELSE CAP})]

\* The tokens that sample_token can return.
sample_token(logits, p, history) ==
  LET l == Penalised(logits, p, history) IN
  IF p.temperature = 0 \/ (p.top_k = 0 /\ p.top_p >= 100 /\ p.min_p = 0)
  THEN {sample_greedy(l)}
  ELSE ToSet(Survivors(p, [t \in DOMAIN l |-> Weight(l[t])]))
=============================================================================
