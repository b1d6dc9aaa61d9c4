------------------------------ MODULE ArenaPlan ------------------------------
(***************************************************************************)
(* The static arena plan of src/src/graph.c and what executions make of    *)
(* it.  graph_plan places the output of every node in the arena of its     *)
(* backend (arena_plan), builds the KV cache (cache_build) and uploads     *)
(* weights (graph_warmup); whatever fails is undone by plan_reset and      *)
(* tried again by the next execution.  graph_compute then runs the nodes   *)
(* in build order, every one writing its slot while the slots of dead      *)
(* nodes are being reused, and at the end the logits are read from the     *)
(* sink's slot.                                                            *)
(*                                                                         *)
(* Sizes are counted in floats.  A free chunk carries its place in the     *)
(* array that is the free list of its backend.                             *)
(***************************************************************************)
EXTENDS Integers, Sequences, FiniteSets

CONSTANTS
  Plans,      (* the graphs with their backends: [g, backend]              *)
  UBATCH,     (* n_ubatch: rows a batch may have                           *)
  Backends    (* "cpu" and "cuda"                                          *)

\* The facts about a graph that planner and executor rely on: edges point
\* backward, one input comes first, and only the last node is a sink.
Sound(gr, be) ==
  /\ gr \in Seq([op : STRING, layer : Nat, src : SUBSET Nat, dim : Nat \ {0}])
  /\ Len(gr) > 1 /\ be \in [1..Len(gr) -> Backends]
  /\ \A i \in 1..Len(gr) : gr[i].src \subseteq 1..(i - 1)
  /\ \A i \in 1..Len(gr) : gr[i].op = "input" <=> i = 1
  /\ \A i \in 1..(Len(gr) - 1) : \E j \in 1..Len(gr) : i \in gr[j].src

ASSUME PlanAssumption ==
  /\ UBATCH \in Nat \ {0}
  /\ \A p \in Plans : Sound(p.g, p.backend)

VARIABLES
  g, backend,   (* the graph; they never change                            *)
  phase,        (* "none", "place", "arena", "cache", "ready", "run"       *)
  at,           (* the node to place, or to run                            *)
  off,          (* offsets of the nodes placed so far                      *)
  free, bump,   (* the free chunks; the arenas' sizes so far               *)
  arena, cache, (* backends with an activation arena, with a cache arena   *)
  held,         (* history: blocks allocated and not freed, per backend    *)
  rows,         (* rows of the batch that runs                             *)
  mem           (* history: the node that last wrote a float of an arena   *)

graphVars == <<g, backend>>
planVars == <<off, free, bump>>
runVars == <<rows, mem>>
vars == <<g, backend, phase, at, off, free, bump, arena, cache, held, rows, mem>>

N == Len(g)

-----------------------------------------------------------------------------
Align(x) == ((x + 3) \div 4) * 4       \* align16, in floats

Sink(i) == \A j \in 1..N : i \notin g[j].src

\* Rows that a batch of n rows makes node i compute: a sink is computed for
\* the last row of the batch only.
Rows(i, n) == IF Sink(i) /\ g[i].op # "input" THEN 1 ELSE n

\* Mutant of CapRows: so is the node that the sink reads.
CapRowsLast(i) ==
  IF g[i].op # "input" /\ \A j \in 1..N : i \in g[j].src => Sink(j) THEN 1 ELSE UBATCH

\* node_cap_rows: the rows a slot has room for.
CapRows(i) == IF Sink(i) /\ g[i].op # "input" THEN 1 ELSE UBATCH

Need(i) == Align(CapRows(i) * g[i].dim)

\* Node i is still to be read after node k has run.
ReadAfter(i, k) == \E j \in 1..N : j > k /\ i \in g[j].src

\* Mutant of Released: the first consumer of node i.
ReleasedFirst(i, k) ==
  k >= i /\ (i \in g[k].src \/ (k = i /\ Sink(i))) /\ \A j \in 1..(k - 1) : i \notin g[j].src

\* release[i] = k: the last consumer of node i, or i itself.
Released(i, k) == k >= i /\ ~ReadAfter(i, k) /\ (k = i \/ i \in g[k].src)

Empty == [b \in Backends |-> 0]

Init ==
  /\ \E p \in Plans : g = p.g /\ backend = p.backend
  /\ phase = "none" /\ at = 1
  /\ off = <<>> /\ free = {} /\ bump = Empty
  /\ arena = {} /\ cache = {} /\ held = Empty
  /\ rows = 0
  /\ mem = [b \in Backends |-> <<>>]

(* ---- graph_plan --------------------------------------------------------- *)

\* graph_compute or graph_prepare finds no plan that is ready.
BeginPlan ==
  /\ phase = "none"
  /\ phase' = "place" /\ at' = 1
  /\ off' = <<>> /\ free' = {} /\ bump' = Empty
  /\ UNCHANGED <<graphVars, arena, cache, held, runVars>>

\* Mutant of Dying: a slot is free when its last consumer is placed, so the
\* consumer may write over its own source.
DyingEarly(i) == {j \in 1..(i - 1) : Released(j, i)}

\* The nodes whose last reader is the node before i.
Dying(i) == {j \in 1..(i - 1) : Released(j, i - 1)}

Count(chunks, b) == Cardinality({c \in chunks : c.b = b})

\* Their slots go to the ends of the free lists, in order.
ListPos(i, j) ==
  Count(free, backend[j]) + Cardinality({k \in Dying(i) : k <= j /\ backend[k] = backend[j]})

Reclaimed(i) ==
  {[b |-> backend[j], off |-> off[j], size |-> Need(j), pos |-> ListPos(i, j)] : j \in Dying(i)}

Fitting(avail, i) == {c \in avail : c.b = backend[i] /\ c.size >= Need(i)}

\* The last chunk of the list takes the place of chunk c.
SwapRemove(chunks, c) ==
  {[b |-> d.b, off |-> d.off, size |-> d.size,
    pos |-> IF d.b = c.b /\ d.pos = Count(chunks, c.b) THEN c.pos ELSE d.pos] :
     d \in chunks \ {c}}

\* One round of the sweep of arena_plan: node at gets the first of the
\* smallest chunks that fit, or new room at the end of the arena.
Place ==
  LET avail == free \cup Reclaimed(at)
      fits == Fitting(avail, at) IN
  /\ phase = "place" /\ at <= N
  /\ \/ \E c \in fits :
          /\ \A d \in fits : c.size < d.size \/ (c.size = d.size /\ c.pos <= d.pos)
          /\ off' = Append(off, c.off)
          /\ free' = SwapRemove(avail, c)
          /\ UNCHANGED bump
     \/ /\ fits = {}
        /\ off' = Append(off, bump[backend[at]])
        /\ bump' = [bump EXCEPT ![backend[at]] = @ + Need(at)]
        /\ free' = avail
  /\ at' = at + 1
  /\ UNCHANGED <<graphVars, phase, arena, cache, held, runVars>>

\* Every node has a slot.
Placed ==
  /\ phase = "place" /\ at = N + 1
  /\ phase' = "arena"
  /\ UNCHANGED <<graphVars, at, planVars, arena, cache, held, runVars>>

\* arena_alloc of the activation arena of b, then of its KV cache; a device
\* allocation may fail, on the host smalloc ends the process instead.
AllocArena(b) ==
  /\ phase = "arena" /\ bump[b] > 0 /\ b \notin arena
  /\ arena' = arena \cup {b}
  /\ held' = [held EXCEPT ![b] = @ + 1]
  /\ UNCHANGED <<graphVars, phase, at, planVars, cache, runVars>>

ArenasBuilt ==
  /\ phase = "arena" /\ \A b \in Backends : bump[b] > 0 => b \in arena
  /\ phase' = "cache"
  /\ UNCHANGED <<graphVars, at, planVars, arena, cache, held, runVars>>

\* cache_build: a backend that runs an attention node gets a cache arena.
Attends(b) == \E i \in 1..N : g[i].op = "attn" /\ backend[i] = b

AllocCache(b) ==
  /\ phase = "cache" /\ Attends(b) /\ b \notin cache
  /\ cache' = cache \cup {b}
  /\ held' = [held EXCEPT ![b] = @ + 1]
  /\ UNCHANGED <<graphVars, phase, at, planVars, arena, runVars>>

\* graph_warmup has uploaded the weights: the plan is ready.
PlanReady ==
  /\ phase = "cache" /\ \A b \in Backends : Attends(b) => b \in cache
  /\ phase' = "ready"
  /\ UNCHANGED <<graphVars, at, planVars, arena, cache, held, runVars>>

\* Mutant of PlanFails: the activation arenas stay allocated.
PlanFailsHalf ==
  /\ phase \in {"arena", "cache"} /\ \E i \in 1..N : backend[i] = "cuda"
  /\ phase' = "none"
  /\ held' = [b \in Backends |-> held[b] - (IF b \in cache THEN 1 ELSE 0)]
  /\ arena' = {} /\ cache' = {}
  /\ UNCHANGED <<graphVars, at, planVars, runVars>>

\* An allocation or an upload on the device fails: plan_reset.
PlanFails ==
  /\ phase \in {"arena", "cache"} /\ \E i \in 1..N : backend[i] = "cuda"
  /\ phase' = "none"
  /\ held' = [b \in Backends |-> held[b] - (IF b \in arena THEN 1 ELSE 0)
                                         - (IF b \in cache THEN 1 ELSE 0)]
  /\ arena' = {} /\ cache' = {}
  /\ UNCHANGED <<graphVars, at, planVars, runVars>>

(* ---- graph_compute ------------------------------------------------------ *)

Units(i, n) == off[i]..(off[i] + Rows(i, n) * g[i].dim - 1)

\* Node i's output for n rows is written to its slot.
Write(m, i, n) ==
  [b \in Backends |-> [u \in 0..(bump[b] - 1) |->
     IF b = backend[i] /\ u \in Units(i, n) THEN i ELSE m[b][u]]]

Stale == [b \in Backends |-> [u \in 0..(bump[b] - 1) |-> 0]]

\* The token ids of a batch of n rows are bound to the input node, unless they
\* exceed its capacity; what the arenas hold from the last batch is of no use.
BeginBatch(n) ==
  /\ phase = "ready" /\ n <= UBATCH
  /\ phase' = "run" /\ at' = 2 /\ rows' = n
  /\ mem' = Write(Stale, 1, n)
  /\ UNCHANGED <<graphVars, planVars, arena, cache, held>>

\* Node at runs: its sources are read, its slot is written.
Exec ==
  /\ phase = "run" /\ at <= N
  /\ Rows(at, rows) * g[at].dim <= Need(at)
  /\ mem' = Write(mem, at, rows)
  /\ at' = at + 1
  /\ UNCHANGED <<graphVars, phase, planVars, arena, cache, held, rows>>

\* The logits are copied out of the sink's slot.
ReadLogits ==
  /\ phase = "run" /\ at = N + 1
  /\ phase' = "ready"
  /\ UNCHANGED <<graphVars, at, planVars, arena, cache, held, runVars>>

\* A node fails, by its kernel or for want of room; the plan stays.
ExecFails ==
  /\ phase = "run" /\ at <= N
  /\ phase' = "ready"
  /\ UNCHANGED <<graphVars, at, planVars, arena, cache, held, runVars>>

\* graph_free: plan_reset and the end of the graph.
Free ==
  /\ phase \in {"none", "ready"}
  /\ phase' = "freed"
  /\ held' = [b \in Backends |-> held[b] - (IF b \in arena THEN 1 ELSE 0)
                                         - (IF b \in cache THEN 1 ELSE 0)]
  /\ arena' = {} /\ cache' = {}
  /\ UNCHANGED <<graphVars, at, planVars, runVars>>

Freed == phase = "freed" /\ UNCHANGED vars

Next ==
  \/ BeginPlan \/ Place \/ Placed \/ ArenasBuilt \/ PlanReady \/ PlanFails
  \/ \E b \in Backends : AllocArena(b) \/ AllocCache(b)
  \/ \E n \in 1..(UBATCH + 1) : BeginBatch(n)
  \/ Exec \/ ExecFails \/ ReadLogits \/ Free \/ Freed

Spec == Init /\ [][Next]_vars

-----------------------------------------------------------------------------
TypeOK ==
  /\ Sound(g, backend)
  /\ phase \in {"none", "place", "arena", "cache", "ready", "run", "freed"}
  /\ at \in 1..(N + 1)
  /\ off \in Seq(Nat) /\ Len(off) <= N
  /\ \A c \in free : c.b \in Backends /\ c.off \in Nat /\ c.size \in Nat
  /\ bump \in [Backends -> Nat]
  /\ arena \in SUBSET Backends /\ cache \in SUBSET Backends
  /\ held \in [Backends -> Int]
  /\ rows \in 0..UBATCH

\* Slots and free chunks as pieces of an arena.
Slot(i) == [b |-> backend[i], off |-> off[i], size |-> Need(i)]
Disjoint(c, d) == c.b # d.b \/ c.off + c.size <= d.off \/ d.off + d.size <= c.off
Inside(c) == c.off + c.size <= bump[c.b]

\* Node i's slot has not been reclaimed before the round of node k.
Kept(i, k) == i = k - 1 \/ ReadAfter(i, k - 2)

(* The sweep's invariant: the slots that are not reclaimed and the free    *)
(* chunks lie in their arenas and do not overlap.                          *)
SweepSound ==
  /\ \A i \in 1..Len(off) : Inside(Slot(i))
  /\ phase \in {"arena", "cache", "ready", "run"} => Len(off) = N
  /\ phase = "place" =>
       /\ Len(off) = at - 1
       /\ \A c \in free : Inside(c)
       /\ \A c, d \in free : c # d => Disjoint(c, d)
       /\ \A i \in 1..(at - 1) : Kept(i, at) =>
            /\ \A c \in free : Disjoint(Slot(i), c)
            /\ \A j \in 1..(at - 1) : j # i /\ Kept(j, at) => Disjoint(Slot(i), Slot(j))

(* A node's slot overlaps no slot that is still to be read when the node   *)
(* runs, its own sources' included.                                        *)
SlotsDisjoint ==
  \A j \in 1..Len(off) : \A i \in 1..(j - 1) :
    ReadAfter(i, j - 1) => Disjoint(Slot(i), Slot(j))

Holds(i) == \A u \in Units(i, rows) : mem[backend[i]][u] = i

(* "a node's slot is released as soon as its last consumer has run"        *)
(* (graph.c:491): in a run, the output of every node that is still to be   *)
(* read, by a later node or as the logits, is what the node wrote in this  *)
(* batch, whichever slots were reused in between.                          *)
SourcesIntact ==
  phase = "run" =>
    \A i \in 1..(at - 1) : i = at - 1 \/ ReadAfter(i, at - 1) => Holds(i)

(* A node reads what its own backend holds: only the copy at the boundary  *)
(* of a split plan crosses over.                                           *)
ReadsLocal ==
  \A i \in 1..N : \A j \in g[i].src : backend[j] = backend[i] \/ g[i].op = "d2h"

(* A failed plan gives back what it had allocated: a block belongs to an   *)
(* arena or a cache that exists, a retry finds nothing allocated, and a    *)
(* freed graph leaves nothing behind.                                      *)
NoArenaLeak ==
  /\ \A b \in Backends :
       held[b] = (IF b \in arena THEN 1 ELSE 0) + (IF b \in cache THEN 1 ELSE 0)
  /\ phase \in {"none", "place", "freed"} => held = Empty

(* No node fails for want of room: the slots that were planned for UBATCH  *)
(* rows hold every smaller batch.                                          *)
CapacityEnough ==
  phase = "run" /\ at <= N => Rows(at, rows) * g[at].dim <= Need(at)
=============================================================================
