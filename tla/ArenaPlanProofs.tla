--------------------------- MODULE ArenaPlanProofs ---------------------------
(***************************************************************************)
(* Proofs about ArenaPlan, for every graph, every micro-batch size and     *)
(* every number of backends: slots that are in use at the same time never  *)
(* overlap, and so no execution reads an output that was overwritten.      *)
(***************************************************************************)
EXTENDS ArenaPlan, SequenceTheorems, TLAPS

-----------------------------------------------------------------------------
(* Sizes.                                                                  *)

(* align16 never rounds down.                                              *)
LEMMA AlignUp == \A x \in Nat : Align(x) \in Nat /\ x <= Align(x)
  BY DEF Align

(* More rows of the same width need more room.                             *)
LEMMA MoreRows == \A n, m, d \in Nat : n <= m => n * d <= m * d /\ n * d \in Nat
  <1>1. SUFFICES ASSUME NEW n \in Nat, NEW m \in Nat, NEW d \in Nat, n <= m
                 PROVE  n * d <= m * d /\ n * d \in Nat
    OBVIOUS
  <1>2. PICK e \in Nat : m = n + e
    BY <1>1
  <1>3. m * d = n * d + e * d
    BY <1>2
  <1>4. e * d \in Nat /\ n * d \in Nat
    OBVIOUS
  <1> QED
    BY <1>3, <1>4

(* The facts about the graph that the proofs use, without its encoding.    *)
GraphFacts ==
  /\ N \in Nat /\ N > 1
  /\ \A i \in 1..N : g[i].dim \in Nat /\ g[i].dim > 0 /\ backend[i] \in Backends
  /\ \A i \in 1..N : g[i].src \subseteq 1..(i - 1)

(* The type invariant gives them.                                          *)
LEMMA TypeGraph == TypeOK => GraphFacts
  <1>1. SUFFICES ASSUME Sound(g, backend)
                 PROVE  GraphFacts
    BY DEF TypeOK
  <1>2. Len(g) \in Nat /\ Len(g) > 1
    BY <1>1, LenProperties DEF Sound
  <1>3. \A i \in 1..Len(g) : g[i].dim \in Nat \ {0}
    <2>1. \A i \in 1..Len(g) :
            g[i] \in [op : STRING, layer : Nat, src : SUBSET Nat, dim : Nat \ {0}]
      BY <1>1, ElementOfSeq DEF Sound
    <2> QED
      BY <2>1
  <1>4. \A i \in 1..Len(g) : backend[i] \in Backends /\ g[i].src \subseteq 1..(i - 1)
    BY <1>1 DEF Sound
  <1> QED
    BY <1>2, <1>3, <1>4 DEF GraphFacts, N

(* The room that is planned for a node holds the rows of every batch.      *)
LEMMA NeedEnough ==
  ASSUME GraphFacts, NEW i \in 1..N, NEW n \in 0..UBATCH
  PROVE  /\ Need(i) \in Nat /\ Need(i) > 0
         /\ Rows(i, n) * g[i].dim \in Nat
         /\ Rows(i, n) * g[i].dim <= Need(i)
  <1> DEFINE d == g[i].dim
  <1>1. d \in Nat /\ d > 0 /\ UBATCH \in Nat \ {0}
    BY PlanAssumption DEF GraphFacts
  <1>2. CapRows(i) \in Nat /\ CapRows(i) >= 1
    BY <1>1 DEF CapRows
  <1>3. Rows(i, n) \in Nat /\ Rows(i, n) <= CapRows(i)
    BY <1>1 DEF CapRows, Rows
  <1> HIDE DEF d
  <1>4. Rows(i, n) * d <= CapRows(i) * d /\ Rows(i, n) * d \in Nat
    BY <1>1, <1>2, <1>3, MoreRows
  <1>5. 1 * d <= CapRows(i) * d /\ CapRows(i) * d \in Nat
    BY <1>1, <1>2, MoreRows
  <1>6. Align(CapRows(i) * d) \in Nat /\ CapRows(i) * d <= Align(CapRows(i) * d)
    BY <1>5, AlignUp
  <1>7. Need(i) = Align(CapRows(i) * d)
    BY DEF Need, d
  <1> QED
    BY <1>1, <1>4, <1>5, <1>6, <1>7 DEF d

-----------------------------------------------------------------------------
(* The sweep.                                                              *)

(* Slots as numbers, for the arithmetic of the provers.                    *)
LEMMA SlotFields ==
  \A i : Slot(i).b = backend[i] /\ Slot(i).off = off[i] /\ Slot(i).size = Need(i)
  BY DEF Slot

(* A node that a later node reads is kept, and so is one that is dying.    *)
LEMMA KeptFacts ==
  ASSUME TypeOK, NEW k \in 1..N, NEW i \in 1..(k - 1)
  PROVE  /\ ReadAfter(i, k - 1) => Kept(i, k)
         /\ i \in Dying(k) => Kept(i, k) /\ ~ReadAfter(i, k - 1)
         /\ Kept(i, k + 1) => ReadAfter(i, k - 1)
  <1>1. N \in Nat
    BY TypeGraph DEF GraphFacts
  <1>2. ReadAfter(i, k - 1) => ReadAfter(i, k - 2)
    BY <1>1 DEF ReadAfter
  <1>3. i \in Dying(k) => ~ReadAfter(i, k - 1) /\ (k - 1 = i \/ i \in g[k - 1].src)
    BY DEF Dying, Released
  <1>4. i \in g[k - 1].src => ReadAfter(i, k - 2)
    BY <1>1 DEF ReadAfter
  <1>5. Kept(i, k + 1) => ReadAfter(i, k - 1)
    <2>1. (k + 1) - 2 = k - 1 /\ (k + 1) - 1 # i
      BY <1>1
    <2> QED
      BY <2>1 DEF Kept
  <1> QED
    BY <1>2, <1>3, <1>4, <1>5 DEF Kept

(* What a round of the sweep may hand out: the free chunks, the reclaimed  *)
(* ones included, are disjoint from each other and from what is still to   *)
(* be read.                                                                *)
LEMMA AvailSound ==
  ASSUME TypeOK, SweepSound, phase = "place", at <= N,
         NEW avail, avail = free \cup Reclaimed(at)
  PROVE  /\ \A c \in avail : /\ c.b \in Backends /\ c.off \in Nat /\ c.size \in Nat
                              /\ Inside(c)
         /\ \A c, d \in avail : c # d => Disjoint(c, d)
         /\ \A i \in 1..(at - 1) : ReadAfter(i, at - 1) =>
              /\ \A c \in avail : Disjoint(Slot(i), c)
              /\ \A j \in 1..(at - 1) :
                   j # i /\ ReadAfter(j, at - 1) => Disjoint(Slot(i), Slot(j))
  <1>1. GraphFacts /\ at \in 1..N
    <2>1. GraphFacts
      BY TypeGraph
    <2>2. at \in 1..(N + 1)
      BY DEF TypeOK
    <2> QED
      BY <2>1, <2>2 DEF GraphFacts
  <1>2. /\ \A i \in 1..(at - 1) : Inside(Slot(i))
        /\ \A c \in free : Inside(c)
        /\ \A c, d \in free : c # d => Disjoint(c, d)
        /\ \A i \in 1..(at - 1) : Kept(i, at) => \A c \in free : Disjoint(Slot(i), c)
        /\ \A i, j \in 1..(at - 1) :
             Kept(i, at) /\ j # i /\ Kept(j, at) => Disjoint(Slot(i), Slot(j))
    BY DEF SweepSound
  <1>3. \A i \in 1..(at - 1) : /\ ReadAfter(i, at - 1) => Kept(i, at)
                               /\ i \in Dying(at) => Kept(i, at) /\ ~ReadAfter(i, at - 1)
    BY <1>1, KeptFacts
  <1>4. \A i \in 1..(at - 1) : /\ backend[i] \in Backends /\ off[i] \in Nat
                               /\ Need(i) \in Nat
    <2>1. SUFFICES ASSUME NEW i \in 1..(at - 1)
                   PROVE  backend[i] \in Backends /\ off[i] \in Nat /\ Need(i) \in Nat
      OBVIOUS
    <2>2. i \in 1..N
      BY <1>1 DEF GraphFacts
    <2>3. off[i] \in Nat
      <3>1. off \in Seq(Nat)
        BY DEF TypeOK
      <3>2. i \in 1..Len(off)
        BY DEF SweepSound
      <3> QED
        BY <3>1, <3>2, ElementOfSeq
    <2>4. 0 \in 0..UBATCH
      BY PlanAssumption
    <2> QED
      BY <1>1, <2>2, <2>3, <2>4, NeedEnough DEF GraphFacts
  <1>5. Dying(at) \subseteq 1..(at - 1)
    BY DEF Dying
  <1>6. \A c \in Reclaimed(at) :
          \E j \in Dying(at) : /\ j \in 1..(at - 1)
                               /\ c.b = Slot(j).b /\ c.off = Slot(j).off /\ c.size = Slot(j).size
    BY <1>5, SlotFields DEF Reclaimed
  <1>7. \A c, d \in Reclaimed(at) : c # d =>
          \E j, k \in Dying(at) :
             /\ j # k /\ j \in 1..(at - 1) /\ k \in 1..(at - 1)
             /\ c.b = Slot(j).b /\ c.off = Slot(j).off /\ c.size = Slot(j).size
             /\ d.b = Slot(k).b /\ d.off = Slot(k).off /\ d.size = Slot(k).size
    BY <1>5, SlotFields DEF Reclaimed
  <1>8. ASSUME NEW c \in avail
        PROVE  c.b \in Backends /\ c.off \in Nat /\ c.size \in Nat /\ Inside(c)
    <2>1. CASE c \in free
      BY <1>2, <2>1 DEF TypeOK
    <2>2. CASE c \in Reclaimed(at)
      <3>1. PICK j \in 1..(at - 1) :
              c.b = Slot(j).b /\ c.off = Slot(j).off /\ c.size = Slot(j).size
        BY <1>6, <2>2
      <3> QED
        BY <1>2, <1>4, <3>1, SlotFields DEF Inside
    <2> QED
      BY <2>1, <2>2
  <1>9. ASSUME NEW c \in avail, NEW d \in avail, c # d
        PROVE  Disjoint(c, d)
    <2>1. CASE c \in free /\ d \in free
      BY <1>2, <1>9, <2>1
    <2>2. CASE c \in free /\ d \in Reclaimed(at)
      BY <1>2, <1>3, <1>6, <2>2 DEF Disjoint
    <2>3. CASE d \in free /\ c \in Reclaimed(at)
      BY <1>2, <1>3, <1>6, <2>3 DEF Disjoint
    <2>4. CASE c \in Reclaimed(at) /\ d \in Reclaimed(at)
      BY <1>2, <1>3, <1>7, <1>9, <2>4 DEF Disjoint
    <2> QED
      BY <2>1, <2>2, <2>3, <2>4
  <1>10. ASSUME NEW i \in 1..(at - 1), ReadAfter(i, at - 1), NEW c \in avail
         PROVE  Disjoint(Slot(i), c)
    <2>1. CASE c \in free
      BY <1>2, <1>3, <1>10, <2>1
    <2>2. CASE c \in Reclaimed(at)
      <3>1. PICK j \in Dying(at) :
              /\ j \in 1..(at - 1)
              /\ c.b = Slot(j).b /\ c.off = Slot(j).off /\ c.size = Slot(j).size
        BY <1>6, <2>2
      <3>2. j # i /\ Kept(j, at) /\ Kept(i, at)
        BY <1>3, <1>10, <3>1
      <3>3. Disjoint(Slot(i), Slot(j))
        BY <1>2, <3>1, <3>2
      <3> QED
        BY <3>1, <3>3 DEF Disjoint
    <2> QED
      BY <2>1, <2>2
  <1> QED
    BY <1>2, <1>3, <1>8, <1>9, <1>10

(* What graph, widths and lifetimes say does not change with the graph.    *)
LEMMA GraphUnchanged ==
  ASSUME UNCHANGED graphVars
  PROVE  /\ N' = N
         /\ \A i : Need(i)' = Need(i)
         /\ \A i, k : ReadAfter(i, k)' = ReadAfter(i, k)
         /\ \A i, k : Kept(i, k)' = Kept(i, k)
  <1>1. g' = g /\ N' = N
    BY DEF graphVars, N
  <1>2. \A i : Sink(i)' = Sink(i)
    BY <1>1 DEF Sink
  <1>3. \A i : Need(i)' = Need(i)
    BY <1>1, <1>2 DEF Need, CapRows, Align
  <1>4. \A i, k : ReadAfter(i, k)' = ReadAfter(i, k)
    BY <1>1 DEF ReadAfter
  <1>5. \A i, k : Kept(i, k)' = Kept(i, k)
    BY <1>4 DEF Kept
  <1> QED
    BY <1>1, <1>3, <1>4, <1>5

(* The slot that a round hands out lies in the arena as it is then, apart  *)
(* from the chunks that stay free and from every slot still to be read.    *)
LEMMA PlaceSound ==
  ASSUME TypeOK, SweepSound, Place
  PROVE  /\ off' = Append(off, off'[at]) /\ off'[at] \in Nat /\ Len(off) = at - 1
         /\ bump' \in [Backends -> Nat] /\ \A b \in Backends : bump[b] <= bump'[b]
         /\ off'[at] + Need(at) <= bump'[backend[at]]
         /\ \A c \in free' : /\ c.b \in Backends /\ c.off \in Nat /\ c.size \in Nat
                             /\ c.off + c.size <= bump'[c.b]
                             /\ \/ c.b # backend[at]
                                \/ c.off + c.size <= off'[at]
                                \/ off'[at] + Need(at) <= c.off
         /\ \A c, d \in free' : c # d => Disjoint(c, d)
         /\ \A i \in 1..(at - 1) : ReadAfter(i, at - 1) =>
              /\ \A c \in free' : Disjoint(Slot(i), c)
              /\ \A j \in 1..(at - 1) :
                   j # i /\ ReadAfter(j, at - 1) => Disjoint(Slot(i), Slot(j))
              /\ \/ backend[i] # backend[at]
                 \/ off[i] + Need(i) <= off'[at]
                 \/ off'[at] + Need(at) <= off[i]
  <1> DEFINE avail == free \cup Reclaimed(at)
             fits == Fitting(avail, at)
             b == backend[at]
  <1>1. phase = "place" /\ at <= N
    BY DEF Place
  <1>2. /\ \A c \in avail : c.b \in Backends /\ c.off \in Nat /\ c.size \in Nat /\ Inside(c)
        /\ \A c, d \in avail : c # d => Disjoint(c, d)
        /\ \A i \in 1..(at - 1) : ReadAfter(i, at - 1) =>
              /\ \A c \in avail : Disjoint(Slot(i), c)
              /\ \A j \in 1..(at - 1) :
                   j # i /\ ReadAfter(j, at - 1) => Disjoint(Slot(i), Slot(j))
    BY <1>1, AvailSound
  <1>3. at \in Nat /\ at \in 1..N /\ b \in Backends /\ Need(at) \in Nat
    <2>1. GraphFacts
      BY TypeGraph
    <2>2. at \in 1..N
      BY <1>1, <2>1 DEF TypeOK, GraphFacts
    <2>3. 0 \in 0..UBATCH
      BY PlanAssumption
    <2> QED
      BY <2>1, <2>2, <2>3, NeedEnough DEF GraphFacts
  <1>4. off \in Seq(Nat) /\ Len(off) = at - 1 /\ bump \in [Backends -> Nat]
    BY <1>1 DEF TypeOK, SweepSound
  <1>5. \A x : Append(off, x)[at] = x
    BY <1>3, <1>4
  <1>6. \A i \in 1..(at - 1) : Inside(Slot(i)) /\ backend[i] \in Backends
    BY <1>1, <1>3, <1>4, TypeGraph DEF SweepSound, GraphFacts
  <1>7. \A i \in 1..(at - 1) : off[i] \in Nat /\ Need(i) \in Nat
    <2>1. \A i \in 1..(at - 1) : i \in 1..N /\ 0 \in 0..UBATCH
      BY <1>3, PlanAssumption, TypeGraph DEF GraphFacts
    <2> QED
      BY <1>4, <2>1, ElementOfSeq, TypeGraph, NeedEnough
  <1> HIDE DEF avail
  <1>8. CASE \E c \in fits : /\ off' = Append(off, c.off) /\ free' = SwapRemove(avail, c)
                            /\ bump' = bump
    <2>1. PICK c \in fits : /\ off' = Append(off, c.off) /\ free' = SwapRemove(avail, c)
                           /\ bump' = bump
      BY <1>8
    <2>2. c \in avail /\ c.b = b /\ c.size >= Need(at) /\ off'[at] = c.off
      BY <1>5, <2>1 DEF Fitting
    <2>3. c.off \in Nat /\ c.size \in Nat /\ c.off + c.size <= bump[b]
      BY <1>2, <2>2 DEF Inside
    <2>4. \A d \in free' : \E e \in avail \ {c} : d.b = e.b /\ d.off = e.off /\ d.size = e.size
      BY <2>1 DEF SwapRemove
    <2>5. \A d1, d2 \in free' : d1 # d2 =>
            \E e1, e2 \in avail \ {c} :
               /\ e1 # e2
               /\ d1.b = e1.b /\ d1.off = e1.off /\ d1.size = e1.size
               /\ d2.b = e2.b /\ d2.off = e2.off /\ d2.size = e2.size
      BY <2>1 DEF SwapRemove
    <2>6. /\ off'[at] \in Nat /\ off' = Append(off, off'[at])
          /\ bump' \in [Backends -> Nat] /\ \A x \in Backends : bump[x] <= bump'[x]
          /\ off'[at] + Need(at) <= bump'[b]
      BY <1>3, <1>4, <2>1, <2>2, <2>3
    <2>7. ASSUME NEW d \in free'
          PROVE  /\ d.b \in Backends /\ d.off \in Nat /\ d.size \in Nat
                 /\ d.off + d.size <= bump'[d.b]
                 /\ d.b # b \/ d.off + d.size <= off'[at] \/ off'[at] + Need(at) <= d.off
      <3>1. PICK e \in avail \ {c} : d.b = e.b /\ d.off = e.off /\ d.size = e.size
        BY <2>4
      <3>2. Disjoint(c, e) /\ Inside(e) /\ e.b \in Backends /\ e.off \in Nat /\ e.size \in Nat
        BY <1>2, <2>2, <3>1
      <3> QED
        BY <1>3, <2>1, <2>2, <2>3, <3>1, <3>2 DEF Disjoint, Inside
    <2>8. ASSUME NEW d1 \in free', NEW d2 \in free', d1 # d2
          PROVE  Disjoint(d1, d2)
      BY <1>2, <2>5, <2>8 DEF Disjoint
    <2>9. ASSUME NEW i \in 1..(at - 1), ReadAfter(i, at - 1)
          PROVE  /\ \A d \in free' : Disjoint(Slot(i), d)
                 /\ backend[i] # b \/ off[i] + Need(i) <= off'[at]
                                  \/ off'[at] + Need(at) <= off[i]
      <3>1. \A e \in avail : Disjoint(Slot(i), e)
        BY <1>2, <2>9
      <3>2. \A d \in free' : Disjoint(Slot(i), d)
        BY <2>4, <3>1 DEF Disjoint
      <3>3. Disjoint(Slot(i), c)
        BY <2>2, <3>1
      <3>4. backend[i] # b \/ off[i] + Need(i) <= c.off \/ c.off + c.size <= off[i]
        BY <2>2, <3>3, SlotFields DEF Disjoint
      <3>5. off[i] \in Nat /\ Need(i) \in Nat
        BY <1>7
      <3> QED
        BY <1>3, <2>2, <2>3, <3>2, <3>4, <3>5
    <2> QED
      BY <1>2, <1>4, <2>6, <2>7, <2>8, <2>9
  <1>9. CASE /\ off' = Append(off, bump[b]) /\ free' = avail
             /\ bump' = [bump EXCEPT ![b] = @ + Need(at)]
    <2>1. off'[at] = bump[b] /\ bump[b] \in Nat
      BY <1>3, <1>4, <1>5, <1>9
    <2>2. /\ bump' \in [Backends -> Nat] /\ \A x \in Backends : bump[x] <= bump'[x]
          /\ off'[at] + Need(at) <= bump'[b]
      BY <1>3, <1>4, <1>9, <2>1
    <2>3. ASSUME NEW d \in free'
          PROVE  /\ d.b \in Backends /\ d.off \in Nat /\ d.size \in Nat
                 /\ d.off + d.size <= bump'[d.b]
                 /\ d.b # b \/ d.off + d.size <= off'[at]
      <3>1. d.b \in Backends /\ d.off \in Nat /\ d.size \in Nat /\ d.off + d.size <= bump[d.b]
        BY <1>2, <1>9 DEF Inside
      <3>2. bump[d.b] <= bump'[d.b] /\ bump[d.b] \in Nat /\ bump'[d.b] \in Nat
        BY <1>4, <2>2, <3>1
      <3> QED
        BY <2>1, <3>1, <3>2
    <2>4. ASSUME NEW i \in 1..(at - 1), ReadAfter(i, at - 1)
          PROVE  /\ \A d \in free' : Disjoint(Slot(i), d)
                 /\ backend[i] # b \/ off[i] + Need(i) <= off'[at]
      <3>1. off[i] + Need(i) <= bump[backend[i]]
        BY <1>6, SlotFields DEF Inside
      <3> QED
        BY <1>2, <1>9, <2>1, <2>4, <3>1
    <2> QED
      BY <1>2, <1>4, <1>9, <2>1, <2>2, <2>3, <2>4
  <1> QED
    <2>1. \/ \E c \in fits : /\ off' = Append(off, c.off) /\ free' = SwapRemove(avail, c)
                             /\ bump' = bump
          \/ /\ off' = Append(off, bump[b]) /\ free' = avail
             /\ bump' = [bump EXCEPT ![b] = @ + Need(at)]
      BY DEF Place, avail
    <2> QED
      BY <1>8, <1>9, <2>1

-----------------------------------------------------------------------------
(* The inductive invariant: the slots that were handed out are disjoint    *)
(* from what is still to be read (SlotsDisjoint), which needs the sweep's  *)
(* own invariant while it runs; and outputs survive in a run because of    *)
(* it (SourcesIntact).                                                     *)
IInv == TypeOK /\ SweepSound /\ SlotsDisjoint /\ SourcesIntact

(* It holds before the first plan.                                         *)
LEMMA InitIInv == Init => IInv
  <1> SUFFICES ASSUME Init
                 PROVE  IInv
    OBVIOUS
  <1>2. Sound(g, backend)
    BY PlanAssumption DEF Init
  <1>3. N \in Nat /\ N > 1
    BY <1>2, LenProperties DEF Sound, N
  <1>4. off = <<>> /\ Len(off) = 0 /\ off \in Seq(Nat) /\ free = {} /\ phase = "none" /\ at = 1
    BY DEF Init
  <1>5. bump \in [Backends -> Nat] /\ held \in [Backends -> Int] /\ rows \in 0..UBATCH
    BY PlanAssumption DEF Init, Empty
  <1>6. arena = {} /\ cache = {}
    BY DEF Init
  <1>7. TypeOK
    BY <1>2, <1>3, <1>4, <1>5, <1>6 DEF TypeOK
  <1> QED
    BY <1>3, <1>4, <1>7 DEF IInv, SweepSound, SlotsDisjoint, SourcesIntact

(* A step that leaves the plan alone and starts neither a sweep nor a run. *)
LEMMA PlanKept ==
  ASSUME IInv, UNCHANGED <<graphVars, planVars>>,
         phase' \in {"none", "arena", "cache", "ready", "freed"},
         phase' \in {"arena", "cache", "ready"} => Len(off) = N
  PROVE  SweepSound' /\ SlotsDisjoint' /\ SourcesIntact'
  <1>1. off' = off /\ bump' = bump /\ backend' = backend /\ g' = g
    BY DEF planVars, graphVars
  <1>2. N' = N /\ (\A i : Need(i)' = Need(i)) /\ (\A i, k : ReadAfter(i, k)' = ReadAfter(i, k))
    BY GraphUnchanged
  <1>3. \A i : Slot(i)' = Slot(i)
    BY <1>1, <1>2 DEF Slot
  <1>4. SlotsDisjoint'
    BY <1>1, <1>2, <1>3 DEF IInv, SlotsDisjoint, Disjoint
  <1>5. SourcesIntact'
    BY DEF SourcesIntact
  <1>6. \A i \in 1..Len(off) : Inside(Slot(i))'
    BY <1>1, <1>3 DEF IInv, SweepSound, Inside
  <1>7. SweepSound'
    BY <1>1, <1>2, <1>6 DEF SweepSound
  <1> QED
    BY <1>4, <1>5, <1>7

(* A round of the sweep of arena_plan keeps the invariant.                 *)
LEMMA PlaceStep == IInv /\ Place => IInv'
  <1> SUFFICES ASSUME IInv, Place
                 PROVE  IInv'
    OBVIOUS
  <1>2. TypeOK /\ SweepSound /\ SlotsDisjoint
    BY DEF IInv
  <1>3. /\ phase = "place" /\ phase' = "place" /\ at' = at + 1 /\ g' = g /\ backend' = backend
        /\ UNCHANGED <<graphVars, arena, cache, held, rows>> /\ at <= N
    BY DEF Place, graphVars, runVars
  <1>4. GraphFacts /\ at \in 1..N
    BY <1>2, <1>3, TypeGraph DEF TypeOK, GraphFacts
  <1>5. /\ off' = Append(off, off'[at]) /\ off'[at] \in Nat /\ Len(off) = at - 1
        /\ bump' \in [Backends -> Nat] /\ \A b \in Backends : bump[b] <= bump'[b]
        /\ off'[at] + Need(at) <= bump'[backend[at]]
    BY <1>2, PlaceSound
  <1>6. /\ \A c \in free' : /\ c.b \in Backends /\ c.off \in Nat /\ c.size \in Nat
                            /\ c.off + c.size <= bump'[c.b]
                            /\ \/ c.b # backend[at]
                               \/ c.off + c.size <= off'[at]
                               \/ off'[at] + Need(at) <= c.off
        /\ \A c, d \in free' : c # d => Disjoint(c, d)
    BY <1>2, PlaceSound
  <1>7. \A i \in 1..(at - 1) : ReadAfter(i, at - 1) =>
              /\ \A c \in free' : Disjoint(Slot(i), c)
              /\ \A j \in 1..(at - 1) :
                   j # i /\ ReadAfter(j, at - 1) => Disjoint(Slot(i), Slot(j))
              /\ \/ backend[i] # backend[at]
                 \/ off[i] + Need(i) <= off'[at]
                 \/ off'[at] + Need(at) <= off[i]
    BY <1>2, PlaceSound
  <1>8. /\ N' = N /\ (\A i : Need(i)' = Need(i))
        /\ (\A i, k : ReadAfter(i, k)' = ReadAfter(i, k))
        /\ (\A i, k : Kept(i, k)' = Kept(i, k))
    BY <1>3, GraphUnchanged
  <1>9. off \in Seq(Nat) /\ off' \in Seq(Nat) /\ Len(off') = at
    <2>1. off \in Seq(Nat)
      BY <1>2 DEF TypeOK
    <2> QED
      BY <1>4, <1>5, <2>1, AppendProperties
  <1>10. \A i \in 1..(at - 1) : off'[i] = off[i]
    <2>1. \A i \in 1..Len(off) : Append(off, off'[at])[i] = off[i]
      BY <1>5, <1>9, AppendProperties
    <2> QED
      BY <1>5, <2>1
  <1>11. \A i \in 1..(at - 1) : Slot(i)' = Slot(i)
    BY <1>3, <1>8, <1>10 DEF Slot
  <1>12. \A i : i = at => /\ Slot(i)'.b = backend[at] /\ Slot(i)'.off = off'[at]
                         /\ Slot(i)'.size = Need(at)
    BY <1>3, <1>8 DEF Slot
  <1>13. TypeOK'
    <2>1. Sound(g, backend)'
      BY <1>2, <1>3 DEF TypeOK, Sound
    <2>2. at' \in 1..(N' + 1) /\ Len(off') <= N'
      BY <1>3, <1>4, <1>8, <1>9 DEF GraphFacts
    <2>3. arena' \in SUBSET Backends /\ cache' \in SUBSET Backends
          /\ held' \in [Backends -> Int] /\ rows' \in 0..UBATCH
      BY <1>2, <1>3 DEF TypeOK
    <2> QED
      BY <1>3, <1>5, <1>6, <1>9, <2>1, <2>2, <2>3 DEF TypeOK
  <1>14. \A i \in 1..at : Inside(Slot(i))'
    <2> SUFFICES ASSUME NEW i \in 1..at
                   PROVE  Inside(Slot(i))'
      OBVIOUS
    <2>2. CASE i = at
      BY <1>5, <1>12, <2>2 DEF Inside
    <2>3. CASE i # at
      <3>1. i \in 1..(at - 1) /\ backend[i] \in Backends
        BY <1>4, <2>3 DEF GraphFacts
      <3>2. off[i] + Need(i) <= bump[backend[i]]
        BY <1>2, <1>5, <3>1, SlotFields DEF SweepSound, Inside
      <3>3. off[i] \in Nat /\ Need(i) \in Nat
        <4>1. i \in 1..N /\ 0 \in 0..UBATCH /\ i \in 1..Len(off)
          BY <1>4, <1>5, <3>1, PlanAssumption DEF GraphFacts
        <4> QED
          BY <1>4, <1>9, <4>1, NeedEnough, ElementOfSeq
      <3>4. bump[backend[i]] \in Nat /\ bump'[backend[i]] \in Nat
            /\ bump[backend[i]] <= bump'[backend[i]]
        BY <1>2, <1>5, <3>1 DEF TypeOK
      <3>5. off[i] + Need(i) <= bump'[backend[i]]
        BY <3>2, <3>3, <3>4
      <3> QED
        BY <1>3, <1>11, <3>1, <3>5, SlotFields DEF Inside
    <2> QED
      BY <2>2, <2>3
  <1>15. \A i \in 1..at : Kept(i, at + 1) => i = at \/ (i \in 1..(at - 1) /\ ReadAfter(i, at - 1))
    <2>1. SUFFICES ASSUME NEW i \in 1..at, i # at, Kept(i, at + 1)
                   PROVE  i \in 1..(at - 1) /\ ReadAfter(i, at - 1)
      OBVIOUS
    <2>2. i \in 1..(at - 1)
      BY <1>4, <2>1
    <2> QED
      BY <1>2, <1>4, <2>1, <2>2, KeptFacts
  <1>16. ASSUME NEW i \in 1..at, Kept(i, at + 1), NEW c \in free'
         PROVE  Disjoint(Slot(i), c)'
    <2>1. CASE i = at
      BY <1>6, <1>12, <2>1 DEF Disjoint
    <2>2. CASE i \in 1..(at - 1) /\ ReadAfter(i, at - 1)
      BY <1>7, <1>11, <2>2 DEF Disjoint
    <2> QED
      BY <1>15, <1>16, <2>1, <2>2
  <1>17. ASSUME NEW i \in 1..at, Kept(i, at + 1), NEW j \in 1..at, Kept(j, at + 1), j # i
         PROVE  Disjoint(Slot(i), Slot(j))'
    <2>1. CASE i = at
      BY <1>7, <1>11, <1>12, <1>15, <1>17, <2>1, SlotFields DEF Disjoint
    <2>2. CASE j = at
      BY <1>7, <1>11, <1>12, <1>15, <1>17, <2>2, SlotFields DEF Disjoint
    <2>3. CASE i # at /\ j # at
      <3>1. Disjoint(Slot(i), Slot(j))
        BY <1>7, <1>15, <1>17, <2>3
      <3> QED
        BY <1>11, <1>15, <1>17, <2>3, <3>1 DEF Disjoint
    <2> QED
      BY <2>1, <2>2, <2>3
  <1>18. SweepSound'
    <2>1. Len(off)' = at' - 1 /\ at' - 1 = at
      BY <1>3, <1>4, <1>9
    <2>2. \A c \in free' : Inside(c)'
      BY <1>6 DEF Inside
    <2>3. \A c, d \in free' : c # d => Disjoint(c, d)'
      BY <1>6 DEF Disjoint
    <2> QED
      BY <1>3, <1>8, <1>14, <1>16, <1>17, <2>1, <2>2, <2>3 DEF SweepSound
  <1>19. SlotsDisjoint'
    <2>1. SUFFICES ASSUME NEW j \in 1..at, NEW i \in 1..(j - 1), ReadAfter(i, j - 1)
                   PROVE  Disjoint(Slot(i), Slot(j))'
      BY <1>8, <1>9 DEF SlotsDisjoint
    <2>2. i \in 1..(at - 1)
      BY <1>4
    <2>3. CASE j = at
      BY <1>7, <1>11, <1>12, <2>1, <2>2, <2>3, SlotFields DEF Disjoint
    <2>4. CASE j # at
      <3>1. j \in 1..(at - 1) /\ j \in 1..Len(off)
        BY <1>4, <1>5, <2>4
      <3>2. Disjoint(Slot(i), Slot(j))
        BY <1>2, <2>1, <3>1 DEF SlotsDisjoint
      <3> QED
        BY <1>11, <2>2, <3>1, <3>2 DEF Disjoint
    <2> QED
      BY <2>3, <2>4
  <1> QED
    BY <1>3, <1>13, <1>18, <1>19 DEF IInv, SourcesIntact

-----------------------------------------------------------------------------
(* Runs.                                                                   *)

(* The floats that a batch writes of a node lie in the node's slot.        *)
LEMMA UnitsInSlot ==
  ASSUME TypeOK, SweepSound, Len(off) = N, NEW i \in 1..N, NEW n \in 0..UBATCH
  PROVE  /\ off[i] \in Nat /\ Need(i) \in Nat /\ backend[i] \in Backends
         /\ \A u \in Units(i, n) : /\ u \in Nat /\ off[i] <= u /\ u < off[i] + Need(i)
                                   /\ u \in 0..(bump[backend[i]] - 1)
  <1> DEFINE w == Rows(i, n) * g[i].dim
  <1>1. Need(i) \in Nat /\ w \in Nat /\ w <= Need(i) /\ backend[i] \in Backends
    BY TypeGraph, NeedEnough DEF GraphFacts
  <1>2. off[i] \in Nat /\ bump[backend[i]] \in Nat
    <2>1. off \in Seq(Nat) /\ i \in 1..Len(off)
      BY DEF TypeOK
    <2>2. bump[backend[i]] \in Nat
      BY <1>1 DEF TypeOK
    <2> QED
      BY <2>1, <2>2, ElementOfSeq
  <1>3. off[i] + Need(i) <= bump[backend[i]]
    BY SlotFields DEF SweepSound, Inside
  <1>4. Units(i, n) = off[i]..(off[i] + w - 1)
    BY DEF Units
  <1> HIDE DEF w
  <1> QED
    BY <1>1, <1>2, <1>3, <1>4

(* Writing the output of node k leaves it in the node's slot.              *)
LEMMA WriteOwn ==
  ASSUME TypeOK, SweepSound, Len(off) = N, NEW m, NEW k \in 1..N, NEW n \in 0..UBATCH,
         NEW u \in Units(k, n)
  PROVE  Write(m, k, n)[backend[k]][u] = k
  <1>1. backend[k] \in Backends /\ u \in 0..(bump[backend[k]] - 1)
    BY UnitsInSlot
  <1> QED
    BY <1>1 DEF Write

(* It spares every output that is still to be read.                        *)
LEMMA WriteSpares ==
  ASSUME TypeOK, SweepSound, SlotsDisjoint, Len(off) = N,
         NEW m, NEW k \in 1..N, NEW n \in 0..UBATCH,
         NEW i \in 1..(k - 1), ReadAfter(i, k - 1), NEW u \in Units(i, n)
  PROVE  Write(m, k, n)[backend[i]][u] = m[backend[i]][u]
  <1>1. N \in Nat
    BY TypeGraph DEF GraphFacts
  <1>2. /\ off[k] \in Nat /\ Need(k) \in Nat
        /\ \A v \in Units(k, n) : v \in Nat /\ off[k] <= v /\ v < off[k] + Need(k)
    BY UnitsInSlot
  <1>3. i \in 1..N /\ k \in 1..Len(off)
    BY <1>1
  <1>4. /\ off[i] \in Nat /\ Need(i) \in Nat /\ backend[i] \in Backends
        /\ u \in Nat /\ off[i] <= u /\ u < off[i] + Need(i)
        /\ u \in 0..(bump[backend[i]] - 1)
    BY <1>3, UnitsInSlot
  <1>5. Disjoint(Slot(i), Slot(k))
    BY <1>3 DEF SlotsDisjoint
  <1>6. \/ backend[i] # backend[k]
        \/ off[i] + Need(i) <= off[k]
        \/ off[k] + Need(k) <= off[i]
    BY <1>5, SlotFields DEF Disjoint
  <1>7. backend[i] # backend[k] \/ u \notin Units(k, n)
    BY <1>2, <1>4, <1>6
  <1> QED
    BY <1>4, <1>7 DEF Write

(* The part of the invariant about the plan holds on when a run steps.     *)
LEMMA RunKeepsPlan ==
  ASSUME IInv, UNCHANGED <<graphVars, planVars>>, phase' = "run", Len(off) = N
  PROVE  SweepSound' /\ SlotsDisjoint'
  <1>1. off' = off /\ bump' = bump /\ backend' = backend /\ g' = g
    BY DEF planVars, graphVars
  <1>2. N' = N /\ (\A i : Need(i)' = Need(i)) /\ (\A i, k : ReadAfter(i, k)' = ReadAfter(i, k))
    BY GraphUnchanged
  <1>3. \A i : Slot(i)' = Slot(i)
    BY <1>1, <1>2 DEF Slot
  <1>4. SlotsDisjoint'
    BY <1>1, <1>2, <1>3 DEF IInv, SlotsDisjoint, Disjoint
  <1>5. \A i \in 1..Len(off) : Inside(Slot(i))'
    BY <1>1, <1>3 DEF IInv, SweepSound, Inside
  <1> QED
    BY <1>1, <1>2, <1>4, <1>5 DEF SweepSound

(* A node that runs keeps it.                                              *)
LEMMA ExecStep == IInv /\ Exec => IInv'
  <1> SUFFICES ASSUME IInv, Exec
               PROVE  IInv'
    OBVIOUS
  <1>1. TypeOK /\ SweepSound /\ SlotsDisjoint /\ SourcesIntact
    BY DEF IInv
  <1>2. /\ phase = "run" /\ phase' = "run" /\ at <= N /\ at' = at + 1
        /\ mem' = Write(mem, at, rows) /\ rows' = rows
        /\ UNCHANGED <<graphVars, planVars, arena, cache, held>>
    BY DEF Exec
  <1>3. /\ off' = off /\ free' = free /\ bump' = bump /\ backend' = backend /\ g' = g
        /\ arena' = arena /\ cache' = cache /\ held' = held
    BY <1>2 DEF graphVars, planVars
  <1>4. Len(off) = N /\ N' = N /\ at \in 1..N /\ N \in Nat /\ rows \in 0..UBATCH
    <2>1. Len(off) = N /\ at \in 1..(N + 1) /\ rows \in 0..UBATCH
      BY <1>1, <1>2 DEF SweepSound, TypeOK
    <2>2. N \in Nat /\ N' = N
      BY <1>1, <1>3, TypeGraph DEF GraphFacts, N
    <2> QED
      BY <1>2, <2>1, <2>2
  <1>5. TypeOK'
    <2>1. Sound(g, backend)'
      BY <1>1, <1>3 DEF TypeOK, Sound
    <2>2. at' \in 1..(N' + 1)
      BY <1>2, <1>4
    <2> QED
      BY <1>1, <1>2, <1>3, <1>4, <2>1, <2>2 DEF TypeOK
  <1>6. SweepSound' /\ SlotsDisjoint'
    BY <1>2, <1>4, RunKeepsPlan
  <1>7. SourcesIntact'
    <2>1. \A i, k : ReadAfter(i, k)' = ReadAfter(i, k)
      BY <1>2, GraphUnchanged
    <2>2. \A i : Units(i, rows)' = Units(i, rows)
      BY <1>2, <1>3, <1>4 DEF Units, Rows, Sink
    <2>3. SUFFICES ASSUME NEW i \in 1..at, i = at \/ ReadAfter(i, at),
                          NEW u \in Units(i, rows)
                   PROVE  mem'[backend[i]][u] = i
      BY <1>2, <1>3, <1>4, <2>1, <2>2 DEF SourcesIntact, Holds
    <2>4. CASE i = at
      <3>1. Write(mem, at, rows)[backend[at]][u] = at
        BY <1>1, <1>4, <2>3, <2>4, WriteOwn
      <3> QED
        BY <1>2, <2>4, <3>1
    <2>5. CASE i # at
      <3>1. i \in 1..(at - 1) /\ ReadAfter(i, at - 1)
        BY <1>4, <2>3, <2>5 DEF ReadAfter
      <3>2. mem[backend[i]][u] = i
        BY <1>1, <1>2, <2>3, <3>1 DEF SourcesIntact, Holds
      <3>3. mem'[backend[i]][u] = mem[backend[i]][u]
        BY <1>1, <1>2, <1>4, <2>3, <3>1, WriteSpares
      <3> QED
        BY <3>2, <3>3
    <2> QED
      BY <2>4, <2>5
  <1> QED
    BY <1>5, <1>6, <1>7 DEF IInv

(* Binding a batch to the input node keeps it.                             *)
LEMMA BeginBatchStep == IInv /\ (\E n \in 1..(UBATCH + 1) : BeginBatch(n)) => IInv'
  <1> SUFFICES ASSUME IInv, NEW n \in 1..(UBATCH + 1), BeginBatch(n)
               PROVE  IInv'
    OBVIOUS
  <1>1. TypeOK /\ SweepSound /\ SlotsDisjoint
    BY DEF IInv
  <1>2. /\ phase = "ready" /\ phase' = "run" /\ at' = 2 /\ mem' = Write(Stale, 1, n)
        /\ rows' = n /\ n <= UBATCH /\ UNCHANGED <<graphVars, planVars, arena, cache, held>>
    BY DEF BeginBatch
  <1>3. /\ off' = off /\ free' = free /\ bump' = bump /\ backend' = backend /\ g' = g
        /\ arena' = arena /\ cache' = cache /\ held' = held
    BY <1>2 DEF graphVars, planVars
  <1>4. Len(off) = N /\ N' = N /\ N \in Nat /\ N > 1 /\ n \in 0..UBATCH
    BY <1>1, <1>2, <1>3, TypeGraph, PlanAssumption DEF SweepSound, GraphFacts, N
  <1>5. TypeOK'
    <2>1. Sound(g, backend)'
      BY <1>1, <1>3 DEF TypeOK, Sound
    <2>2. at' \in 1..(N' + 1)
      BY <1>2, <1>4
    <2> QED
      BY <1>1, <1>2, <1>3, <1>4, <2>1, <2>2 DEF TypeOK
  <1>6. SweepSound' /\ SlotsDisjoint'
    BY <1>2, <1>4, RunKeepsPlan
  <1>7. SourcesIntact'
    <2>1. \A i : Units(i, rows)' = Units(i, n)
      BY <1>2, <1>3, <1>4 DEF Units, Rows, Sink
    <2>2. SUFFICES ASSUME NEW u \in Units(1, n)
                   PROVE  mem'[backend[1]][u] = 1
      BY <1>2, <1>3, <2>1 DEF SourcesIntact, Holds
    <2>3. 1 \in 1..N
      BY <1>4
    <2>4. Write(Stale, 1, n)[backend[1]][u] = 1
      BY <1>1, <1>4, <2>2, <2>3, WriteOwn
    <2> QED
      BY <1>2, <2>4
  <1> QED
    BY <1>5, <1>6, <1>7 DEF IInv

-----------------------------------------------------------------------------
(* The remaining steps, and the theorems.                                  *)

(* Types in the steps that neither plan nor run.                           *)
LEMMA OtherTypes ==
  ASSUME TypeOK, UNCHANGED <<graphVars, planVars, rows>>,
         phase' \in {"none", "arena", "cache", "ready", "freed"}, UNCHANGED at,
         arena' \in SUBSET Backends, cache' \in SUBSET Backends, held' \in [Backends -> Int]
  PROVE  TypeOK'
  <1>1. /\ off' = off /\ free' = free /\ bump' = bump /\ backend' = backend /\ g' = g
        /\ rows' = rows /\ at' = at
    BY DEF graphVars, planVars
  <1>2. N' = N /\ Sound(g, backend)'
    BY <1>1 DEF TypeOK, Sound, N
  <1> QED
    BY <1>1, <1>2 DEF TypeOK

(* The allocations of arenas and caches keep the invariant.                *)
LEMMA AllocStep == IInv /\ (\E b \in Backends : AllocArena(b) \/ AllocCache(b)) => IInv'
  <1> SUFFICES ASSUME IInv, NEW b \in Backends, AllocArena(b) \/ AllocCache(b)
               PROVE  IInv'
    OBVIOUS
  <1>1. /\ phase' = phase /\ phase \in {"arena", "cache"} /\ UNCHANGED at
        /\ UNCHANGED <<graphVars, planVars, rows>>
        /\ held' = [held EXCEPT ![b] = @ + 1]
        /\ arena' \in {arena, arena \cup {b}} /\ cache' \in {cache, cache \cup {b}}
    BY DEF AllocArena, AllocCache, runVars
  <1>2. TypeOK /\ Len(off) = N
    BY <1>1 DEF IInv, SweepSound
  <1>3. arena' \in SUBSET Backends /\ cache' \in SUBSET Backends /\ held' \in [Backends -> Int]
    BY <1>1, <1>2 DEF TypeOK
  <1>4. TypeOK'
    BY <1>1, <1>2, <1>3, OtherTypes
  <1> QED
    BY <1>1, <1>2, <1>4, PlanKept DEF IInv

(* plan_reset keeps it.                                                    *)
LEMMA ResetStep == IInv /\ (PlanFails \/ Free) => IInv'
  <1> SUFFICES ASSUME IInv, PlanFails \/ Free
               PROVE  IInv'
    OBVIOUS
  <1>1. /\ phase' \in {"none", "freed"} /\ UNCHANGED at
        /\ UNCHANGED <<graphVars, planVars, rows>>
        /\ held' = [b \in Backends |-> held[b] - (IF b \in arena THEN 1 ELSE 0)
                                             - (IF b \in cache THEN 1 ELSE 0)]
        /\ arena' = {} /\ cache' = {}
    BY DEF PlanFails, Free, runVars
  <1>2. TypeOK
    BY DEF IInv
  <1>3. held' \in [Backends -> Int]
    BY <1>1, <1>2 DEF TypeOK
  <1>4. TypeOK'
    BY <1>1, <1>2, <1>3, OtherTypes
  <1> QED
    BY <1>1, <1>4, PlanKept DEF IInv

(* The ends of the phases keep it.                                         *)
LEMMA PhaseStep ==
  IInv /\ (Placed \/ ArenasBuilt \/ PlanReady \/ ExecFails \/ ReadLogits) => IInv'
  <1> SUFFICES ASSUME IInv, Placed \/ ArenasBuilt \/ PlanReady \/ ExecFails \/ ReadLogits
               PROVE  IInv'
    OBVIOUS
  <1>1. TypeOK /\ SweepSound
    BY DEF IInv
  <1>2. /\ phase' \in {"arena", "cache", "ready"} /\ UNCHANGED at
        /\ UNCHANGED <<graphVars, planVars, rows>> /\ UNCHANGED <<arena, cache, held>>
        /\ (phase = "place" /\ at = N + 1) \/ phase \in {"arena", "cache", "run"}
    BY DEF Placed, ArenasBuilt, PlanReady, ExecFails, ReadLogits, runVars
  <1>3. Len(off) = N
    <2>1. N \in Nat
      BY <1>1, TypeGraph DEF GraphFacts
    <2> QED
      BY <1>1, <1>2, <2>1 DEF SweepSound
  <1>4. TypeOK'
    <2>1. arena' \in SUBSET Backends /\ cache' \in SUBSET Backends /\ held' \in [Backends -> Int]
      BY <1>1, <1>2 DEF TypeOK
    <2> QED
      BY <1>1, <1>2, <2>1, OtherTypes
  <1> QED
    BY <1>2, <1>3, <1>4, PlanKept DEF IInv

(* A new plan starts from an empty one.                                    *)
LEMMA BeginPlanStep == IInv /\ BeginPlan => IInv'
  <1> SUFFICES ASSUME IInv, BeginPlan
               PROVE  IInv'
    OBVIOUS
  <1>1. TypeOK
    BY DEF IInv
  <1>2. /\ phase' = "place" /\ at' = 1 /\ off' = <<>> /\ free' = {} /\ bump' = Empty
        /\ g' = g /\ backend' = backend /\ arena' = arena /\ cache' = cache /\ held' = held
        /\ rows' = rows
    BY DEF BeginPlan, graphVars, runVars
  <1>3. N' = N /\ Sound(g, backend)' /\ N \in Nat
    <2>1. N' = N /\ Sound(g, backend)'
      BY <1>1, <1>2 DEF TypeOK, Sound, N
    <2> QED
      BY <1>1, <2>1, TypeGraph DEF GraphFacts
  <1>4. Len(off') = 0 /\ off' \in Seq(Nat) /\ bump' \in [Backends -> Nat]
    BY <1>2 DEF Empty
  <1>5. TypeOK'
    BY <1>1, <1>2, <1>3, <1>4 DEF TypeOK
  <1> QED
    BY <1>2, <1>4, <1>5 DEF IInv, SweepSound, SlotsDisjoint, SourcesIntact

(* Nothing changes, nothing is lost.                                       *)
LEMMA StutterStep == IInv /\ UNCHANGED vars => IInv'
  <1> SUFFICES ASSUME IInv, UNCHANGED vars
               PROVE  IInv'
    OBVIOUS
  <1>1. /\ g' = g /\ backend' = backend /\ phase' = phase /\ at' = at /\ off' = off
        /\ free' = free /\ bump' = bump /\ arena' = arena /\ cache' = cache /\ held' = held
        /\ rows' = rows /\ mem' = mem /\ UNCHANGED graphVars
    BY DEF vars, graphVars
  <1>2. /\ N' = N /\ (\A i : Need(i)' = Need(i))
        /\ (\A i, k : ReadAfter(i, k)' = ReadAfter(i, k))
        /\ (\A i, k : Kept(i, k)' = Kept(i, k))
    BY <1>1, GraphUnchanged
  <1>3. (\A i : Slot(i)' = Slot(i)) /\ (\A i : Inside(Slot(i))' = Inside(Slot(i)))
    BY <1>1, <1>2 DEF Slot, Inside
  <1>4. TypeOK'
    BY <1>1 DEF IInv, TypeOK, Sound, N
  <1>5. SlotsDisjoint'
    BY <1>1, <1>2, <1>3 DEF IInv, SlotsDisjoint, Disjoint
  <1>6. SweepSound'
    BY <1>1, <1>2, <1>3 DEF IInv, SweepSound, Disjoint, Inside
  <1>7. SourcesIntact'
    <2>1. \A i : Holds(i)' = Holds(i)
      BY <1>1, <1>2 DEF Holds, Units, Rows, Sink
    <2> QED
      BY <1>1, <1>2, <2>1 DEF IInv, SourcesIntact
  <1> QED
    BY <1>4, <1>5, <1>6, <1>7 DEF IInv

(* Every step keeps the invariant.                                         *)
LEMMA NextIInv == IInv /\ [Next]_vars => IInv'
  <1> SUFFICES ASSUME IInv, [Next]_vars
               PROVE  IInv'
    OBVIOUS
  <1>1. CASE BeginPlan
    BY <1>1, BeginPlanStep
  <1>2. CASE Place
    BY <1>2, PlaceStep
  <1>3. CASE Placed \/ ArenasBuilt \/ PlanReady \/ ExecFails \/ ReadLogits
    BY <1>3, PhaseStep
  <1>4. CASE PlanFails \/ Free
    BY <1>4, ResetStep
  <1>5. CASE \E b \in Backends : AllocArena(b) \/ AllocCache(b)
    BY <1>5, AllocStep
  <1>6. CASE \E n \in 1..(UBATCH + 1) : BeginBatch(n)
    BY <1>6, BeginBatchStep
  <1>7. CASE Exec
    BY <1>7, ExecStep
  <1>8. CASE Freed \/ UNCHANGED vars
    BY <1>8, StutterStep DEF Freed
  <1> QED
    BY <1>1, <1>2, <1>3, <1>4, <1>5, <1>6, <1>7, <1>8 DEF Next

(* The types, for every graph.                                             *)
THEOREM TypeCorrect == Spec => []TypeOK
  <1>1. IInv => TypeOK
    BY DEF IInv
  <1> QED
    BY InitIInv, NextIInv, <1>1, PTL DEF Spec

(* arena_plan gives no node a slot that overlaps one still to be read, for *)
(* every graph, every split over backends and every micro-batch size.      *)
THEOREM SlotsNeverOverlap == Spec => []SlotsDisjoint
  <1>1. IInv => SlotsDisjoint
    BY DEF IInv
  <1> QED
    BY InitIInv, NextIInv, <1>1, PTL DEF Spec

(* graph_compute never reads an output that a later node overwrote.        *)
THEOREM OutputsSurvive == Spec => []SourcesIntact
  <1>1. IInv => SourcesIntact
    BY DEF IInv
  <1> QED
    BY InitIInv, NextIInv, <1>1, PTL DEF Spec

(* No node of a run fails on the data_cap test of graph_compute.           *)
THEOREM SlotsBigEnough == Spec => []CapacityEnough
  <1>1. IInv => CapacityEnough
    <2> SUFFICES ASSUME IInv, phase = "run", at <= N
                 PROVE  Rows(at, rows) * g[at].dim <= Need(at)
      BY DEF CapacityEnough
    <2>1. GraphFacts
      BY TypeGraph DEF IInv
    <2>2. at \in 1..N /\ rows \in 0..UBATCH
      BY <2>1 DEF IInv, TypeOK, GraphFacts
    <2> QED
      BY <2>1, <2>2, NeedEnough
  <1> QED
    BY InitIInv, NextIInv, <1>1, PTL DEF Spec

-----------------------------------------------------------------------------
(* Arenas and caches exist only between arena_alloc and plan_reset.        *)
NothingBuilt == phase \in {"none", "place", "freed"} => arena = {} /\ cache = {}

(* What is allocated is what the plan records, by IInv's types.            *)
LeakInv ==
  /\ NothingBuilt
  /\ \A b \in Backends :
       held[b] = (IF b \in arena THEN 1 ELSE 0) + (IF b \in cache THEN 1 ELSE 0)

(* arena_alloc adds the block it records, plan_reset gives back exactly    *)
(* the recorded ones, and nothing else allocates.                          *)
LEMMA LeakStep == TypeOK /\ LeakInv /\ [Next]_vars => LeakInv'
  <1> SUFFICES ASSUME TypeOK, LeakInv, [Next]_vars
               PROVE  LeakInv'
    OBVIOUS
  <1> USE DEF LeakInv, NothingBuilt
  <1>1. held \in [Backends -> Int]
    BY DEF TypeOK
  <1>2. ASSUME NEW b \in Backends, AllocArena(b)
        PROVE  LeakInv'
    BY <1>1, <1>2 DEF AllocArena
  <1>3. ASSUME NEW b \in Backends, AllocCache(b)
        PROVE  LeakInv'
    BY <1>1, <1>3 DEF AllocCache
  <1>4. CASE PlanFails \/ Free
    BY <1>1, <1>4 DEF PlanFails, Free
  <1>5. CASE BeginPlan
    BY <1>5 DEF BeginPlan
  <1>6. CASE Place
    BY <1>6 DEF Place
  <1>7. CASE Placed \/ ArenasBuilt \/ PlanReady \/ ExecFails \/ ReadLogits \/ Exec
    BY <1>7 DEF Placed, ArenasBuilt, PlanReady, ExecFails, ReadLogits, Exec
  <1>8. ASSUME NEW n \in 1..(UBATCH + 1), BeginBatch(n)
        PROVE  LeakInv'
    BY <1>8 DEF BeginBatch
  <1>9. CASE Freed \/ UNCHANGED vars
    BY <1>9 DEF Freed, vars
  <1> QED
    BY <1>2, <1>3, <1>4, <1>5, <1>6, <1>7, <1>8, <1>9 DEF Next

(* A plan that fails half-way, at any allocation and any number of times,  *)
(* leaks no arena and no cache, and graph_free gives back the rest.        *)
THEOREM NothingLeaks == Spec => []NoArenaLeak
  <1>1. Init => LeakInv
    BY DEF Init, LeakInv, NothingBuilt, Empty
  <1>2. TypeOK /\ LeakInv => NoArenaLeak
    <2> SUFFICES ASSUME TypeOK, LeakInv
                 PROVE  phase \in {"none", "place", "freed"} => held = Empty
      BY DEF LeakInv, NoArenaLeak
    <2>1. held \in [Backends -> Int]
      BY DEF TypeOK
    <2> QED
      BY <2>1 DEF LeakInv, NothingBuilt, Empty
  <1> QED
    BY <1>1, <1>2, LeakStep, TypeCorrect, PTL DEF Spec
=============================================================================
