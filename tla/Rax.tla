-------------------------------- MODULE Rax --------------------------------
(***************************************************************************)
(* The radix tree of rax.c.  A node is identified with the path from the   *)
(* head to it, the string it represents, so the tree is a function from    *)
(* strings to nodes and a child's place follows from its parent's edges.   *)
(* Layout, padding and reallocation of a node are left out, as are strings *)
(* longer than RAX_NODE_MAX_SIZE and the branches for exhausted memory:    *)
(* rax_malloc is smalloc, which ends the program and never returns NULL.   *)
(***************************************************************************)
EXTENDS Integers, Sequences, FiniteSets, SequencesExt, FiniteSetsExt, TLC

CONSTANTS
  Keys,               \* strings that are inserted
  Values,             \* data pointers, NULL among them
  Probes,             \* strings that are looked up, removed and sought
  SeekOps,            \* operators of raxSeek
  NULL

VARIABLES
  tree,      \* path -> [compr, edges, iskey, data]
  numele, numnodes,
  it,        \* the iterator: [flag, key, node], flag "off", "just", "on" or "eof"
  ret,       \* [found, old] as returned by the last operation
  call       \* that operation and its arguments

vars == <<tree, numele, numnodes, it, ret, call>>

Node(compr, edges, iskey, data) ==
  [compr |-> compr, edges |-> edges, iskey |-> iskey, data |-> data]
Leaf == Node(FALSE, <<>>, FALSE, NULL)

\* Trees as functions: nodes added or replaced, nodes removed.
With(t, p, n) == (p :> n) @@ t
Without(t, S) == [q \in DOMAIN t \ S |-> t[q]]

\* The paths of the children, in order.
ChildPaths(t, p) ==
  CASE t[p].edges = <<>> -> <<>>
    [] t[p].compr        -> <<p \o t[p].edges>>
    [] OTHER             -> [i \in DOMAIN t[p].edges |-> Append(p, t[p].edges[i])]
Parent(t, p) == CHOOSE q \in DOMAIN t : p \in ToSet(ChildPaths(t, q))
\* A node that compression may swallow: no key and a single child.
Chain(n) == ~n.iskey /\ (n.compr \/ Len(n.edges) = 1)

(* ---- raxLowWalk --------------------------------------------------------- *)

\* How many characters of edges match s behind position i.
Matched(edges, s, i) ==
  Max({m \in 0..Min({Len(edges), Len(s) - i}) : \A k \in 1..m : edges[k] = s[i + k]})

\* The node where the search stops, the characters processed, and the position
\* in the edges of a compressed node.
raxLowWalk(t, s) ==
  LET W[p \in Seq(Nat)] ==
        LET e == t[p].edges
            m == Matched(e, s, Len(p))
            stop == [node |-> p, i |-> Len(p), j |-> 0]
        IN CASE e = <<>> \/ Len(p) = Len(s) -> stop
             [] t[p].compr /\ m < Len(e)    -> [node |-> p, i |-> Len(p) + m, j |-> m]
             [] t[p].compr                  -> W[p \o e]
             [] s[Len(p) + 1] \in ToSet(e)  -> W[Append(p, s[Len(p) + 1])]
             [] OTHER                       -> stop
  IN W[<<>>]

\* The walk ended at the node of the whole string.
Exact(t, w, s) == w.i = Len(s) /\ (~t[w.node].compr \/ w.j = 0)

Absent == [found |-> 0, old |-> NULL]
raxFind(t, s) ==
  LET w == raxLowWalk(t, s) IN
  IF Exact(t, w, s) /\ t[w.node].iskey THEN [found |-> 1, old |-> t[w.node].data] ELSE Absent

(* ---- raxGenericInsert ---------------------------------------------------- *)

SetData(t, p, data) == [t EXCEPT ![p].iskey = TRUE, ![p].data = data]

\* raxAddChild: the edge goes in front of the first greater one.
raxAddChild(t, p, c) ==
  LET e == t[p].edges
      pos == Cardinality({i \in DOMAIN e : e[i] <= c})
  IN With([t EXCEPT ![p].edges = SubSeq(e, 1, pos) \o <<c>> \o SubSeq(e, pos + 1, Len(e))],
          Append(p, c), Leaf)

\* raxCompressNode: an empty node becomes a chain.
raxCompressNode(t, p, chars) ==
  With([t EXCEPT ![p].compr = TRUE, ![p].edges = chars], p \o chars, Leaf)

\* A tree under construction: the tree, the nodes added to numnodes so far.
Made(t, nodes) == [t |-> t, nodes |-> nodes]

\* The final loop: the missing nodes below p0, and the key.
Extend(made, p0, s, data) ==
  LET X[n \in Nat] ==       \* after n rounds
        IF n = 0 THEN [t |-> made.t, p |-> p0]
        ELSE LET x == X[n - 1]
                 rest == SubSeq(s, Len(x.p) + 1, Len(s))
             IN IF Len(rest) > 1 /\ x.t[x.p].edges = <<>>
                THEN [t |-> raxCompressNode(x.t, x.p, rest), p |-> s]
                ELSE [t |-> raxAddChild(x.t, x.p, rest[1]), p |-> Append(x.p, rest[1])]
      rounds == CHOOSE n \in 0..Len(s) : X[n].p = s
  IN Made(SetData(X[rounds].t, s, data), made.nodes + rounds)

\* ALGO 1: a compressed node is split at a mismatch.
SplitNode(t, p, j) ==
  LET n == t[p]
      head == SubSeq(n.edges, 1, j)
      postfix == SubSeq(n.edges, j + 2, Len(n.edges))
      split == p \o head
      t1 == IF j = 0 THEN With(t, p, Node(FALSE, <<n.edges[1]>>, n.iskey, n.data))
            ELSE With(With(t, p, Node(j > 1, head, n.iskey, n.data)),
                      split, Node(FALSE, <<n.edges[j + 1]>>, FALSE, NULL))
      t2 == With(t1, Append(split, n.edges[j + 1]),
                 Node(Len(postfix) > 1, postfix, FALSE, NULL))
  IN Made(IF postfix = <<>> THEN t1 ELSE t2,
          (IF j = 0 THEN 0 ELSE 1) + (IF postfix = <<>> THEN 0 ELSE 1))

\* ALGO 2: the new key ends inside a compressed node.
CutNode(t, p, j, data) ==
  LET n == t[p]
      head == SubSeq(n.edges, 1, j)
      postfix == SubSeq(n.edges, j + 1, Len(n.edges))
  IN Made(With(With(t, p, Node(j > 1, head, n.iskey, n.data)),
               p \o head, Node(Len(postfix) > 1, postfix, TRUE, data)), 1)

\* The tree with the key s, which is not in it.
Inserted(t, s, data) ==
  LET w == raxLowWalk(t, s) IN
  CASE Exact(t, w, s) -> Made(SetData(t, w.node, data), 0)
    [] t[w.node].compr /\ w.i < Len(s) ->
         Extend(SplitNode(t, w.node, w.j), SubSeq(s, 1, w.i), s, data)
    [] t[w.node].compr /\ w.i = Len(s) -> CutNode(t, w.node, w.j, data)
    [] OTHER -> Extend(Made(t, 0), w.node, s, data)

(* ---- raxRemove ----------------------------------------------------------- *)

\* Mutant of Freed: only the leaf itself is freed.
FreedLeaf(t, p) == {p} \ {<<>>}
\* The nodes freed above the leaf p: chains without a key, never the head.
Freed(t, p) ==
  LET F[q \in Seq(Nat)] ==
        IF q = <<>> THEN {}
        ELSE {q} \cup (IF Chain(t[Parent(t, q)]) THEN F[Parent(t, q)] ELSE {})
  IN F[p]

\* raxRemoveChild: a chain becomes an empty node, another node loses an edge.
raxRemoveChild(t, p, child) ==
  IF t[p].compr THEN [t EXCEPT ![p].compr = FALSE, ![p].edges = <<>>]
  ELSE [t EXCEPT ![p].edges = SelectSeq(@, LAMBDA c : Append(p, c) # child)]

\* The highest node of the chain that p is in.
CompressStart(t, p) ==
  LET S[q \in Seq(Nat)] ==
        IF q # <<>> /\ Chain(t[Parent(t, q)]) THEN S[Parent(t, q)] ELSE q
  IN S[p]

\* The nodes that follow start in its chain, start included.
ChainFrom(t, start) ==
  LET C[q \in Seq(Nat)] ==
        LET next == Last(ChildPaths(t, q)) IN
        <<q>> \o (IF t[q].edges # <<>> /\ Chain(t[next]) THEN C[next] ELSE <<>>)
  IN C[start]

\* Recompression around p: a chain of several nodes becomes one.
Recompressed(t, p) ==
  LET start == CompressStart(t, p)
      chain == ChainFrom(t, start)
      chars == FlattenSeq([i \in DOMAIN chain |-> t[chain[i]].edges])
  IN IF Len(chain) = 1 THEN Made(t, 0)
     ELSE Made(With(Without(t, ToSet(chain)), start, Node(TRUE, chars, FALSE, NULL)),
               1 - Len(chain))

\* The tree without the key s, which is in it.
Removed(t, s) ==
  LET t1 == [t EXCEPT ![s].iskey = FALSE, ![s].data = NULL]
      freed == Freed(t1, s)
      child == CHOOSE q \in freed : \A r \in freed : Len(q) <= Len(r)
      h == Parent(t1, child)
      t2 == raxRemoveChild(Without(t1, freed), h, child)
      more == Recompressed(t2, h)
  IN CASE t[s].edges = <<>> /\ freed = {} -> Made(t1, 0)
       [] t[s].edges = <<>> ->
            IF Len(t2[h].edges) = 1 /\ ~t2[h].iskey
            THEN Made(more.t, more.nodes - Cardinality(freed))
            ELSE Made(t2, -Cardinality(freed))
       [] Len(t[s].edges) = 1 -> Recompressed(t1, s)
       [] OTHER -> Made(t1, 0)

(* ---- the iterator -------------------------------------------------------- *)

Iter(flag, key, node) == [flag |-> flag, key |-> key, node |-> node]
Shorter(key, n) == SubSeq(key, 1, Len(key) - n)
Width(n) == IF n.compr THEN Len(n.edges) ELSE 1

\* A walk of the iterator: where it is, and whether it is going up.
Walk(node, key, noup, up) == [node |-> node, key |-> key, noup |-> noup, up |-> up]
Walks == [node : Seq(Nat), key : Seq(Nat), noup : BOOLEAN, up : BOOLEAN]

\* One level up (none with noup): the node and the key that represents it.
Above(t, x) == IF x.noup THEN x.node ELSE Parent(t, x.node)
AboveKey(t, x) == Shorter(x.key, Width(t[Above(t, x)]))

\* Its children, unless there is only the one the walk comes from.
Siblings(t, x) ==
  LET n == t[Above(t, x)] IN
  IF n.compr \/ Len(n.edges) <= (IF x.noup THEN 0 ELSE 1) THEN {} ELSE ToSet(n.edges)

raxIteratorNextStep(t, from, noup) ==
  LET N[x \in Walks] ==
        LET n == t[x.node]
            down == Head(ChildPaths(t, x.node))
            downKey == x.key \o SubSeq(n.edges, 1, Width(n))
            side == {c \in Siblings(t, x) : c > Last(x.key)}
            next == Append(Above(t, x), Min(side))
            nextKey == Append(AboveKey(t, x), Min(side))
        IN CASE ~x.up /\ ~x.noup /\ n.edges # <<>> ->
                  IF t[down].iskey THEN Iter("on", downKey, down)
                  ELSE N[Walk(down, downKey, FALSE, FALSE)]
             [] ~x.up /\ (x.noup \/ n.edges = <<>>) -> N[[x EXCEPT !.up = TRUE]]
             [] x.up /\ ~x.noup /\ x.node = <<>> -> Iter("eof", from.key, from.node)
             [] OTHER ->
                  IF side = {} THEN N[Walk(Above(t, x), AboveKey(t, x), FALSE, TRUE)]
                  ELSE IF t[next].iskey THEN Iter("on", nextKey, next)
                  ELSE N[Walk(next, nextKey, FALSE, FALSE)]
  IN N[Walk(from.node, from.key, noup, FALSE)]

\* Mutant of raxSeekGreatest: it stops at the first key.
SeekFirstKey(t, node, key) ==
  LET G[x \in Walks] ==
        LET n == t[x.node] IN
        IF n.edges = <<>> \/ n.iskey THEN x
        ELSE G[Walk(Last(ChildPaths(t, x.node)),
                    x.key \o (IF n.compr THEN n.edges ELSE <<Last(n.edges)>>), FALSE, FALSE)]
  IN G[Walk(node, key, FALSE, FALSE)]
\* raxSeekGreatest: down along the last children.
raxSeekGreatest(t, node, key) ==
  LET G[x \in Walks] ==
        LET n == t[x.node] IN
        IF n.edges = <<>> THEN x
        ELSE G[Walk(Last(ChildPaths(t, x.node)),
                    x.key \o (IF n.compr THEN n.edges ELSE <<Last(n.edges)>>), FALSE, FALSE)]
  IN G[Walk(node, key, FALSE, FALSE)]

raxIteratorPrevStep(t, from, noup) ==
  LET P[x \in Walks] ==
        LET side == {c \in Siblings(t, x) : c < Last(x.key)}
            to == IF side = {} THEN Walk(Above(t, x), AboveKey(t, x), FALSE, TRUE)
                  ELSE raxSeekGreatest(t, Append(Above(t, x), Max(side)),
                                       Append(AboveKey(t, x), Max(side)))
        IN IF ~x.noup /\ x.node = <<>> THEN Iter("eof", from.key, from.node)
           ELSE IF t[to.node].iskey THEN Iter("on", to.key, to.node)
           ELSE P[Walk(to.node, to.key, FALSE, TRUE)]
  IN P[Walk(from.node, from.key, noup, TRUE)]

\* A seek that the walk did not end: where to step from, and how.
SeekFrom(t, gt, s) ==
  LET w == raxLowWalk(t, s)
      n == t[w.node]
      here == Iter("on", w.node, w.node)
      past == Iter("on", w.node \o n.edges, w.node)
      off == Iter("on", Append(w.node, s[w.i + 1]), w.node)
      StepFrom(from, noup) == IF gt THEN raxIteratorNextStep(t, from, noup)
                              ELSE raxIteratorPrevStep(t, from, noup)
      best == raxSeekGreatest(t, w.node, w.node)
  IN CASE w.i < Len(s) /\ ~n.compr -> StepFrom(off, TRUE)
       [] w.i < Len(s) /\ n.compr /\ gt ->
            IF n.edges[w.j + 1] > s[w.i + 1] THEN StepFrom(here, FALSE) ELSE StepFrom(past, TRUE)
       [] w.i < Len(s) /\ n.compr /\ ~gt ->
            IF n.edges[w.j + 1] < s[w.i + 1] THEN Iter("on", best.key, best.node)
            ELSE StepFrom(past, TRUE)
       [] w.i = Len(s) /\ n.compr /\ n.iskey /\ w.j > 0 /\ ~gt -> here
       [] OTHER -> StepFrom(here, FALSE)

raxSeek(t, n, op, s) ==
  LET w == raxLowWalk(t, s)
      best == raxSeekGreatest(t, <<>>, <<>>)
  IN CASE n = 0     -> Iter("eof", <<>>, <<>>)
       [] op = "$"  -> Iter("on", best.key, best.node)
       [] op \in {"=", ">=", "<="} /\ Exact(t, w, s) /\ t[w.node].iskey -> Iter("on", s, w.node)
       [] op = "="  -> Iter("eof", <<>>, w.node)
       [] OTHER     -> SeekFrom(t, op \in {">", ">="}, s)

-----------------------------------------------------------------------------
Off == Iter("off", <<>>, <<>>)

Init ==
  /\ tree = (<<>> :> Leaf) /\ numele = 0 /\ numnodes = 1
  /\ it = Off /\ ret = Absent /\ call = <<"new">>

\* raxInsert and raxTryInsert
Insert(s, data, overwrite) ==
  LET found == raxFind(tree, s)
      made == Inserted(tree, s, data)
  IN /\ it.flag = "off"
     /\ \/ /\ found.found = 1
           /\ tree' = IF overwrite THEN SetData(tree, s, data) ELSE tree
           /\ ret' = [found |-> 0, old |-> found.old]
           /\ UNCHANGED <<numele, numnodes>>
        \/ /\ found.found = 0
           /\ tree' = made.t /\ numnodes' = numnodes + made.nodes
           /\ numele' = numele + 1
           /\ ret' = [found |-> 1, old |-> NULL]
     /\ call' = <<"insert", s, data, overwrite>>
     /\ UNCHANGED it

raxRemove(s) ==
  LET found == raxFind(tree, s)
      made == Removed(tree, s)
  IN /\ it.flag = "off"
     /\ \/ found.found = 0 /\ UNCHANGED <<tree, numele, numnodes>>
        \/ /\ found.found = 1
           /\ tree' = made.t /\ numnodes' = numnodes + made.nodes
           /\ numele' = numele - 1
     /\ ret' = found /\ call' = <<"remove", s>> /\ UNCHANGED it

\* raxStart and raxSeek; "^" seeks the first key greater or equal to "".  A
\* second raxSeek sets all that raxStart does, so it is a new iteration here.
Seek(op, s) ==
  /\ it.flag = "off"
  /\ it' = LET to == IF op = "^" THEN raxSeek(tree, numele, ">=", <<>>)
                     ELSE raxSeek(tree, numele, op, s)
           IN IF to.flag = "on" THEN [to EXCEPT !.flag = "just"] ELSE to
  /\ ret' = [found |-> 1, old |-> NULL]
  /\ call' = <<"seek", op, s>>
  /\ UNCHANGED <<tree, numele, numnodes>>

\* raxNext and raxPrev
Step(to) ==
  /\ it' = CASE it.flag = "just" -> [it EXCEPT !.flag = "on"]
             [] it.flag = "eof"  -> it
             [] OTHER            -> to
  /\ ret' = IF it'.flag = "eof" THEN Absent ELSE [found |-> 1, old |-> tree[it'.node].data]
  /\ UNCHANGED <<tree, numele, numnodes>>
raxNext ==
  it.flag # "off" /\ call' = <<"next">> /\ Step(raxIteratorNextStep(tree, it, FALSE))
raxPrev ==
  it.flag # "off" /\ call' = <<"prev">> /\ Step(raxIteratorPrevStep(tree, it, FALSE))

raxStop ==
  /\ it.flag # "off" /\ it' = Off /\ ret' = Absent /\ call' = <<"stop">>
  /\ UNCHANGED <<tree, numele, numnodes>>

\* The nodes that raxRecursiveFree visits.
Reachable ==
  LET R[p \in Seq(Nat)] ==
        {p} \cup UNION {R[q] : q \in ToSet(ChildPaths(tree, p))}
  IN R[<<>>]

\* raxFree, and raxNew for the next tree.
raxFree ==
  /\ it.flag = "off"
  /\ tree' = (<<>> :> Leaf) /\ numele' = 0
  /\ numnodes' = numnodes - Cardinality(Reachable) + 1
  /\ ret' = Absent /\ call' = <<"free">> /\ UNCHANGED it

Next ==
  \/ \E s \in Keys, data \in Values, overwrite \in BOOLEAN : Insert(s, data, overwrite)
  \/ \E s \in Probes : raxRemove(s)
  \/ \E op \in SeekOps \ {"^", "$"}, s \in Probes : Seek(op, s)
  \/ \E op \in SeekOps \cap {"^", "$"} : Seek(op, <<>>)   \* they ignore the string
  \/ raxNext \/ raxPrev \/ raxStop \/ raxFree

Spec == Init /\ [][Next]_vars

-----------------------------------------------------------------------------
\* The map that the tree stands for.
Contents == LET marked == {p \in DOMAIN tree : tree[p].iskey} IN [k \in marked |-> tree[k].data]

Cursor ==
  CASE it.flag = "off"  -> [state |-> "off", key |-> <<>>]
    [] it.flag = "eof"  -> [state |-> "eof", key |-> <<>>]
    [] it.flag = "just" -> [state |-> "fresh", key |-> it.key]
    [] OTHER            -> [state |-> "at", key |-> it.key]

Map == INSTANCE OrderedMap WITH dict <- Contents, cursor <- Cursor

(* Splitting, cutting, freeing and recompressing nodes never changes what  *)
(* raxFind returns for any other key, every operation returns what a map   *)
(* would, and seeks and steps in both directions visit the keys in order.  *)
ImplementsOrderedMap == Map!Spec

(* The nodes that the head leads to are all nodes there are, no more and   *)
(* no fewer than numnodes says (raxFree asserts it), edges are in order,   *)
(* only the head can be a leaf without a key, a compressed node has two or *)
(* more characters, numele counts the keys, and raxFind finds exactly them.*)
TreeSound ==
  /\ \A k \in Probes : raxFind(tree, k) = IF k \in DOMAIN Contents
                                           THEN [found |-> 1, old |-> Contents[k]] ELSE Absent
  /\ Reachable = DOMAIN tree /\ numnodes = Cardinality(DOMAIN tree)
  /\ numele = Cardinality({p \in DOMAIN tree : tree[p].iskey})
  /\ \A p \in DOMAIN tree :
       /\ tree[p].compr => Len(tree[p].edges) > 1
       /\ ~tree[p].compr => \A i, j \in DOMAIN tree[p].edges :
                              i < j => tree[p].edges[i] < tree[p].edges[j]
       /\ tree[p].edges = <<>> /\ p # <<>> => tree[p].iskey
=============================================================================
