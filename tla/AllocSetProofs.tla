--------------------------- MODULE AllocSetProofs ---------------------------
(***************************************************************************)
(* Proofs about AllocSet, for any size classes, header sizes, block sizes  *)
(* and finite set of addresses: after any sequence of smalloc, scalloc,    *)
(* srealloc and sfree no two chunks share memory, the free lists and the   *)
(* block list are sound, and every carved unit belongs to a chunk.         *)
(***************************************************************************)
EXTENDS AllocSet, SequenceTheorems, FiniteSetTheorems, WellFoundedInduction, TLAPS

(* ---- the invariants ----------------------------------------------------- *)

Chunks == [block : Blocks, off : Nat, size : Nat, external : BOOLEAN]
Pointers == Blocks \cup {Null}
BlockRecs == [size : Nat, freeptr : Nat, next : Pointers, pres : Pointers]

(* The fields of the AllocSet, its blocks and its chunks.  The head of the *)
(* list and the keeper are allocated.                                      *)
Types ==
  /\ DOMAIN heap \subseteq Blocks /\ heap \in [DOMAIN heap -> BlockRecs]
  /\ blocks \in DOMAIN heap /\ Keeper \in DOMAIN heap
  /\ free_list \in [Lists -> Seq(Chunks)]
  /\ DOMAIN live \subseteq Chunks /\ live \in [DOMAIN live -> Nat \ {0}]
  /\ next_block_size \in Nat

(* Where the chunks K lie in the blocks h, when the unit behind chunk c is *)
(* e[c]: inside the carved part of a block, without overlap and without a  *)
(* gap.                                                                    *)
LayoutOf(h, K, e) ==
  /\ K \subseteq Chunks /\ \A c \in K : e[c] \in Nat /\ c.off < e[c]
  /\ \A b \in DOMAIN h : /\ h[b].freeptr \in Nat /\ h[b].size \in Nat
                         /\ BlockHdr <= h[b].freeptr /\ h[b].freeptr <= h[b].size
  /\ \A c \in K : c.block \in DOMAIN h /\ BlockHdr <= c.off /\ e[c] <= h[c.block].freeptr
  /\ \A c, d \in K : c # d => c.block # d.block \/ e[c] <= d.off \/ e[d] <= c.off
  /\ \A b \in DOMAIN h : \A u \in BlockHdr..(h[b].freeptr - 1) :
       \E c \in K : c.block = b /\ c.off <= u /\ u < e[c]
Ends == [c \in Known |-> EndOf(c)]
Layout == LayoutOf(heap, Known, Ends)

(* A chunk of a size class holds what its caller asked for; an external    *)
(* chunk fills a block of its own, which is neither the keeper nor the     *)
(* head.                                                                   *)
SizedSound ==
  \A c \in DOMAIN live : ~c.external => live[c] <= c.size /\ \E i \in Lists : c.size = Class[i]
ExternalSound ==
  \A c \in DOMAIN live : c.external =>
    /\ c = External(c.block) /\ c.block # blocks /\ c.block # Keeper
    /\ EndOf(c) = heap[c.block].freeptr

(* The free lists fl, when the chunks D are in use.                        *)
SoundLists(fl, D) ==
  \A i \in Lists :
    /\ \A n \in DOMAIN fl[i] :
         ~fl[i][n].external /\ fl[i][n].size = Class[i] /\ fl[i][n] \notin D
    /\ \A n, m \in DOMAIN fl[i] : n # m => fl[i][n] # fl[i][m]

(* s is the order of the list of the blocks h with the given head.         *)
Order(h, head, n, s) ==
  /\ s[1] = head
  /\ \A b \in DOMAIN h : \E i \in 1..n : s[i] = b
  /\ \A i, j \in 1..n : s[i] = s[j] => i = j
  /\ \A i \in 1..n : /\ h[s[i]].next = IF i = n THEN Null ELSE s[i + 1]
                     /\ h[s[i]].pres = IF i = 1 THEN Null ELSE s[i - 1]
LinkedBy(h, head) == \E n \in Nat \ {0} : \E s \in [1..n -> DOMAIN h] : Order(h, head, n, s)
Linked == LinkedBy(heap, blocks)

AllocInv ==
  /\ Types /\ Layout /\ SizedSound /\ ExternalSound
  /\ SoundLists(free_list, DOMAIN live) /\ Linked

-----------------------------------------------------------------------------
(* Walking the list from its head meets every block and then the end.      *)
LEMMA WalkReaches ==
  ASSUME Types, Linked
  PROVE  FromHead = DOMAIN heap \cup {Null}
<1> DEFINE C == Cardinality(Blocks)
           E(f) == [k \in 0..C |-> IF k = 0 THEN blocks
                                   ELSE IF f[k - 1] = Null THEN Null ELSE heap[f[k - 1]].next]
           w == CHOOSE f : f = E(f)
<1>1. C \in Nat
  BY AllocAssumption, FS_CardinalityType
<1>2. FromHead = {w[k] : k \in 0..C}
  BY DEF FromHead
<1>3. PICK n \in Nat \ {0} : \E s \in [1..n -> DOMAIN heap] : Order(heap, blocks, n, s)
  BY DEF Linked, LinkedBy
<1>4. PICK s \in [1..n -> DOMAIN heap] : Order(heap, blocks, n, s)
  BY <1>3
<1>5. /\ s[1] = blocks
      /\ \A b \in DOMAIN heap : \E i \in 1..n : s[i] = b
      /\ \A i, j \in 1..n : s[i] = s[j] => i = j
      /\ \A i \in 1..n : heap[s[i]].next = IF i = n THEN Null ELSE s[i + 1]
      /\ \A i \in 1..n : s[i] \in DOMAIN heap /\ s[i] \in Blocks /\ s[i] # Null
  BY <1>4, AllocAssumption DEF Order, Types
<1>6. n <= C
  <2>1. IsFiniteSet(1..n) /\ Cardinality(1..n) = n
    <3>1. /\ IsFiniteSet(1..n) /\ Cardinality(1..n) = IF 1 > n THEN 0 ELSE n - 1 + 1
      BY FS_Interval
    <3>2. QED
      BY <3>1
  <2>2. s \in Injection(1..n, Blocks)
    BY <1>5 DEF Injection, IsInjective
  <2>3. QED
    BY <2>1, <2>2, AllocAssumption, FS_Injection
<1> DEFINE g == [k \in 0..C |-> IF k < n THEN s[k + 1] ELSE Null]
<1>7. g = E(g)
  <2>1. ASSUME NEW k \in 0..C PROVE g[k] = E(g)[k]
    <3>1. CASE k = 0
      BY <1>5, <3>1
    <3>2. CASE k # 0
      <4>1. k - 1 \in 0..C /\ k \in Nat
        BY <1>1, <3>2
      <4>2. CASE k - 1 < n
        BY <1>5, <3>2, <4>1, <4>2
      <4>3. CASE ~(k - 1 < n)
        BY <1>5, <3>2, <4>1, <4>3
      <4>4. QED
        BY <4>2, <4>3
    <3>3. QED
      BY <3>1, <3>2
  <2>2. QED
    BY <2>1
<1>8. w = E(w)
  BY <1>7, Zenon
<1> HIDE DEF w
<1>9. \A k \in 0..C : w[k] = g[k]
  <2> DEFINE B == {k \in 0..C : w[k] # g[k]}
  <2>1. SUFFICES ASSUME B # {} PROVE FALSE
    OBVIOUS
  <2>2. B \subseteq Nat
    BY <1>1
  <2>3. PICK k \in B : \A j \in B : ~(<<j, k>> \in OpToRel(<, Nat))
    BY <2>1, <2>2, WFMin, NatLessThanWellFounded
  <2>4. \A j \in B : ~(j < k)
    BY <2>2, <2>3, Zenon DEF OpToRel
  <2>5. k \in 0..C /\ w[k] # g[k]
    BY <2>3
  <2>6. CASE k = 0
    BY <1>7, <1>8, <2>5, <2>6
  <2>7. CASE k # 0
    <3>1. k - 1 \in 0..C /\ k - 1 < k
      BY <1>1, <2>5, <2>7
    <3>2. w[k - 1] = g[k - 1]
      BY <2>4, <3>1
    <3>3. E(w)[k] = E(g)[k]
      BY <2>5, <3>2
    <3>4. QED
      BY <1>7, <1>8, <2>5, <3>3
  <2>8. QED
    BY <2>6, <2>7
<1>10. {w[k] : k \in 0..C} = {g[k] : k \in 0..C}
  BY <1>9
<1>11. {g[k] : k \in 0..C} = DOMAIN heap \cup {Null}
  <2>1. ASSUME NEW b \in DOMAIN heap PROVE b \in {g[k] : k \in 0..C}
    <3>1. PICK i \in 1..n : s[i] = b
      BY <1>5
    <3>2. i - 1 \in 0..C /\ i - 1 < n /\ (i - 1) + 1 = i
      BY <1>1, <1>6
    <3>3. g[i - 1] = b
      BY <3>1, <3>2
    <3>4. QED
      BY <3>2, <3>3
  <2>2. n \in 0..C /\ g[n] = Null
    BY <1>1, <1>6
  <2>3. ASSUME NEW k \in 0..C PROVE g[k] \in DOMAIN heap \cup {Null}
    <3>1. CASE k < n
      <4>1. k + 1 \in 1..n
        BY <3>1
      <4>2. QED
        BY <1>5, <3>1, <4>1
    <3>2. CASE ~(k < n)
      BY <3>2
    <3>3. QED
      BY <3>1, <3>2
  <2>4. QED
    BY <2>1, <2>2, <2>3
<1>12. QED
  BY <1>2, <1>10, <1>11

-----------------------------------------------------------------------------
(* ---- size classes, free lists ------------------------------------------- *)

(* The class of a request is large enough for it.                          *)
LEMMA IndexFits ==
  ASSUME NEW size \in Nat, size <= Limit
  PROVE  FreeIndex(size) \in Lists /\ size <= Class[FreeIndex(size)]
<1> DEFINE Q(i) == size <= Class[i] /\ \A j \in 0..(i - 1) : Class[j] < size
           B == {i \in Lists : size <= Class[i]}
<1>1. NumLists - 1 \in B /\ B \subseteq Nat /\ \A i \in Lists : Class[i] \in Nat
  BY AllocAssumption DEF Lists, Limit
<1>2. PICK i \in B : \A j \in B : ~(<<j, i>> \in OpToRel(<, Nat))
  BY <1>1, WFMin, NatLessThanWellFounded
<1>3. \A j \in B : ~(j < i)
  BY <1>1, <1>2, Zenon DEF OpToRel
<1>4. \A j \in 0..(i - 1) : j \in Lists /\ j < i
  BY AllocAssumption DEF Lists
<1>5. \A j \in 0..(i - 1) : Class[j] < size
  BY <1>1, <1>3, <1>4
<1>6. i \in Lists /\ Q(i)
  BY <1>5
<1>7. FreeIndex(size) \in Lists /\ Q(FreeIndex(size))
  BY <1>6, Zenon DEF FreeIndex
<1>8. QED
  BY <1>7

(* A chunk goes back to the list it came from.                             *)
LEMMA IndexOfClass == ASSUME NEW i \in Lists PROVE FreeIndex(Class[i]) = i
<1> DEFINE Q(k) == Class[i] <= Class[k] /\ \A j \in 0..(k - 1) : Class[j] < Class[i]
<1>1. \A k \in Lists : Class[k] \in Nat /\ k \in Nat /\ \A j \in 0..(k - 1) : j \in Lists /\ j < k
  BY AllocAssumption DEF Lists
<1>2. \A k, j \in Lists : k < j => Class[k] < Class[j]
  BY AllocAssumption
<1>3. Q(i)
  BY <1>1, <1>2
<1>4. FreeIndex(Class[i]) \in Lists /\ Q(FreeIndex(Class[i]))
  BY <1>3, Zenon DEF FreeIndex
<1>5. ASSUME NEW k \in Lists, Q(k) PROVE k = i
  <2>1. CASE k < i
    BY <1>1, <1>2, <1>5, <2>1
  <2>2. CASE i < k
    <3>1. i \in 0..(k - 1)
      BY <1>1, <2>2
    <3>2. QED
      BY <1>1, <1>5, <3>1
  <2>3. QED
    BY <1>1, <2>1, <2>2
<1>6. QED
  BY <1>4, <1>5

(* The chunks on the free lists fl.                                        *)
AllListed(fl) == UNION {{fl[i][n] : n \in DOMAIN fl[i]} : i \in Lists}

(* Every chunk is in use or on a free list.                                *)
LEMMA KnownIs == Known = DOMAIN live \cup AllListed(free_list)
BY DEF Known, Listed, AllListed

(* Membership in the free lists.                                           *)
LEMMA ListedIff ==
  ASSUME NEW fl, NEW c
  PROVE  c \in AllListed(fl) <=> \E i \in Lists : \E n \in DOMAIN fl[i] : fl[i][n] = c
BY DEF AllListed

(* A chunk that no one knows of comes into use.                            *)
LEMMA FreshSound ==
  ASSUME NEW fl, NEW D, SoundLists(fl, D), NEW g, g \notin AllListed(fl)
  PROVE  SoundLists(fl, D \cup {g})
BY ListedIff DEF SoundLists

(* The free lists fl became gl: chunk g left, or came to, the front of     *)
(* list k.                                                                 *)
Popping(fl, k, g, gl) ==
  /\ fl[k] # <<>> /\ g = Head(fl[k]) /\ gl[k] = Tail(fl[k])
  /\ \A i \in Lists : i # k => gl[i] = fl[i]
Pushing(fl, k, g, gl) ==
  gl[k] = <<g>> \o fl[k] /\ \A i \in Lists : i # k => gl[i] = fl[i]

(* The lists before and after a chunk was taken, entry by entry.           *)
LEMMA PopIs ==
  ASSUME NEW fl \in [Lists -> Seq(Chunks)], NEW k \in Lists, NEW g, NEW gl, Popping(fl, k, g, gl)
  PROVE  /\ g \in Chunks /\ Len(fl[k]) \in Nat /\ DOMAIN fl[k] = 1..Len(fl[k])
         /\ g = fl[k][1] /\ 1 \in DOMAIN fl[k] /\ DOMAIN gl[k] = 1..(Len(fl[k]) - 1)
         /\ \A n \in DOMAIN gl[k] : n + 1 \in DOMAIN fl[k] /\ gl[k][n] = fl[k][n + 1] /\ n + 1 # 1
         /\ \A i \in Lists : i # k => gl[i] = fl[i]
<1>0. fl[k] # <<>> /\ g = Head(fl[k])
  BY DEF Popping
<1>1. /\ fl[k] \in Seq(Chunks) /\ g \in Chunks /\ Tail(fl[k]) \in Seq(Chunks)
      /\ Len(Tail(fl[k])) = Len(fl[k]) - 1
      /\ \A i \in 1..Len(Tail(fl[k])) : Tail(fl[k])[i] = fl[k][i + 1]
  BY <1>0, HeadTailProperties
<1>2. Len(fl[k]) \in Nat /\ Len(fl[k]) # 0 /\ DOMAIN fl[k] = 1..Len(fl[k])
      /\ DOMAIN Tail(fl[k]) = 1..(Len(fl[k]) - 1)
  BY <1>0, <1>1, LenProperties, EmptySeq
<1>3. g = fl[k][1] /\ 1 \in DOMAIN fl[k]
  BY <1>0, <1>1, <1>2
<1>4. gl[k] = Tail(fl[k]) /\ \A i \in Lists : i # k => gl[i] = fl[i]
  BY DEF Popping
<1>5. /\ DOMAIN gl[k] = 1..(Len(fl[k]) - 1)
      /\ \A n \in DOMAIN gl[k] : n + 1 \in DOMAIN fl[k] /\ gl[k][n] = fl[k][n + 1] /\ n + 1 # 1
  BY <1>1, <1>2, <1>4
<1>6. QED
  BY <1>1, <1>2, <1>3, <1>4, <1>5

(* alloc_set_alloc takes the first chunk of a free list: it is of the      *)
(* list's class, nobody uses it and the list no longer holds it.           *)
LEMMA PopSound ==
  ASSUME NEW fl \in [Lists -> Seq(Chunks)], NEW D, SoundLists(fl, D),
         NEW k \in Lists, NEW g, NEW gl, Popping(fl, k, g, gl)
  PROVE  /\ SoundLists(gl, D \cup {g})
         /\ g \in Chunks /\ ~g.external /\ g.size = Class[k] /\ g \notin D
<1>1. g \in Chunks
  BY PopIs
<1>2. Len(fl[k]) \in Nat /\ DOMAIN fl[k] = 1..Len(fl[k])
  BY PopIs
<1>3. g = fl[k][1] /\ 1 \in DOMAIN fl[k]
  BY PopIs
<1>4. \A i \in Lists : i # k => gl[i] = fl[i]
  BY PopIs
<1>5. /\ DOMAIN gl[k] = 1..(Len(fl[k]) - 1)
      /\ \A n \in DOMAIN gl[k] : n + 1 \in DOMAIN fl[k] /\ gl[k][n] = fl[k][n + 1] /\ n + 1 # 1
  BY PopIs
<1>6. ~g.external /\ g.size = Class[k] /\ g \notin D
  BY <1>3 DEF SoundLists
<1>7. SoundLists(gl, D \cup {g})
  <2>1. ASSUME NEW i \in Lists, i = k
        PROVE  /\ \A n \in DOMAIN gl[i] :
                    ~gl[i][n].external /\ gl[i][n].size = Class[i] /\ gl[i][n] \notin D \cup {g}
               /\ \A n, m \in DOMAIN gl[i] : n # m => gl[i][n] # gl[i][m]
    <3>1. ASSUME NEW n \in DOMAIN gl[k]
          PROVE  ~gl[k][n].external /\ gl[k][n].size = Class[k] /\ gl[k][n] \notin D \cup {g}
      BY <1>3, <1>5, <3>1 DEF SoundLists
    <3>2. ASSUME NEW n \in DOMAIN gl[k], NEW m \in DOMAIN gl[k], n # m
          PROVE  gl[k][n] # gl[k][m]
      <4>1. n + 1 # m + 1
        BY <1>2, <1>5, <3>2
      <4>2. QED
        BY <1>5, <4>1 DEF SoundLists
    <3>3. QED
      BY <2>1, <3>1, <3>2
  <2>2. ASSUME NEW i \in Lists, i # k
        PROVE  /\ \A n \in DOMAIN gl[i] :
                    ~gl[i][n].external /\ gl[i][n].size = Class[i] /\ gl[i][n] \notin D \cup {g}
               /\ \A n, m \in DOMAIN gl[i] : n # m => gl[i][n] # gl[i][m]
    <3>1. gl[i] = fl[i] /\ Class[i] # Class[k]
      <4>1. i < k \/ k < i
        BY <2>2, AllocAssumption DEF Lists
      <4>2. QED
        BY <1>4, <2>2, <4>1, AllocAssumption
    <3>2. ASSUME NEW n \in DOMAIN fl[i]
          PROVE  ~fl[i][n].external /\ fl[i][n].size = Class[i] /\ fl[i][n] \notin D \cup {g}
      BY <1>6, <3>1 DEF SoundLists
    <3>3. QED
      BY <3>1, <3>2 DEF SoundLists
  <2>3. QED
    BY <2>1, <2>2 DEF SoundLists
<1>8. QED
  BY <1>1, <1>6, <1>7

(* The lists hold what they held, but for the chunk taken.                 *)
LEMMA PopListed ==
  ASSUME NEW fl \in [Lists -> Seq(Chunks)], NEW k \in Lists, NEW g, NEW gl, Popping(fl, k, g, gl)
  PROVE  \A c : c \in AllListed(fl) <=> c \in AllListed(gl) \/ c = g
<1>1. g \in Chunks
  BY PopIs
<1>2. Len(fl[k]) \in Nat /\ DOMAIN fl[k] = 1..Len(fl[k])
  BY PopIs
<1>3. g = fl[k][1] /\ 1 \in DOMAIN fl[k]
  BY PopIs
<1>4. \A i \in Lists : i # k => gl[i] = fl[i]
  BY PopIs
<1>5. /\ DOMAIN gl[k] = 1..(Len(fl[k]) - 1)
      /\ \A n \in DOMAIN gl[k] : n + 1 \in DOMAIN fl[k] /\ gl[k][n] = fl[k][n + 1] /\ n + 1 # 1
  BY PopIs
<1>6. QED
  <2>1. ASSUME NEW c \in AllListed(fl), c # g PROVE c \in AllListed(gl)
    <3>0. PICK i \in Lists : \E n \in DOMAIN fl[i] : fl[i][n] = c
      BY <2>1, ListedIff
    <3>1. PICK n \in DOMAIN fl[i] : fl[i][n] = c
      BY <3>0
    <3>2. CASE i = k
      <4>1. n \in 1..Len(fl[k]) /\ n # 1
        BY <1>2, <1>3, <2>1, <3>1, <3>2
      <4>2. n - 1 \in DOMAIN gl[k] /\ (n - 1) + 1 = n
        BY <1>2, <1>5, <4>1
      <4>3. gl[k][n - 1] = c
        BY <1>5, <3>1, <3>2, <4>2
      <4>4. QED
        BY <4>2, <4>3, ListedIff
    <3>3. CASE i # k
      BY <1>4, <3>1, <3>3, ListedIff
    <3>4. QED
      BY <3>2, <3>3
  <2>2. g \in AllListed(fl)
    BY <1>3, ListedIff
  <2>3. ASSUME NEW c \in AllListed(gl) PROVE c \in AllListed(fl)
    <3>0. PICK i \in Lists : \E n \in DOMAIN gl[i] : gl[i][n] = c
      BY <2>3, ListedIff
    <3>1. PICK n \in DOMAIN gl[i] : gl[i][n] = c
      BY <3>0
    <3>2. CASE i = k
      <4>1. n \in DOMAIN gl[k] /\ gl[k][n] = c
        BY <3>1, <3>2
      <4>2. n + 1 \in DOMAIN fl[k] /\ fl[k][n + 1] = c
        BY <1>5, <4>1
      <4>3. QED
        BY <4>2, ListedIff
    <3>3. CASE i # k
      BY <1>4, <3>1, <3>3, ListedIff
    <3>4. QED
      BY <3>2, <3>3
  <2>4. QED
    BY <2>1, <2>2, <2>3

(* A chunk in front of a list.                                             *)
LEMMA InFront ==
  ASSUME NEW S, NEW c \in S, NEW t \in Seq(S)
  PROVE  /\ <<c>> \o t \in Seq(S) /\ DOMAIN (<<c>> \o t) = 1..(Len(t) + 1)
         /\ (<<c>> \o t)[1] = c /\ \A n \in 1..Len(t) : (<<c>> \o t)[n + 1] = t[n]
<1> DEFINE u == <<c>>
           v == u \o t
<1>1. u \in Seq(S) /\ Len(u) = 1 /\ u[1] = c
  OBVIOUS
<1>2. Len(t) \in Nat
  BY LenProperties
<1> HIDE DEF u
<1>3. /\ v \in Seq(S) /\ Len(v) = Len(u) + Len(t)
      /\ \A i \in 1..Len(u) + Len(t) : v[i] = IF i <= Len(u) THEN u[i] ELSE t[i - Len(u)]
  BY <1>1, ConcatProperties
<1> HIDE DEF v
<1>4. DOMAIN v = 1..(Len(t) + 1)
  BY <1>1, <1>2, <1>3, LenProperties
<1>5. v[1] = c
  BY <1>1, <1>2, <1>3
<1>6. ASSUME NEW n \in 1..Len(t) PROVE v[n + 1] = t[n]
  <2>1. n + 1 \in 1..Len(u) + Len(t) /\ ~(n + 1 <= Len(u)) /\ (n + 1) - Len(u) = n
    BY <1>1, <1>2
  <2>2. QED
    BY <1>3, <2>1
<1>7. QED
  BY <1>3, <1>4, <1>5, <1>6 DEF u, v

(* The lists before and after a chunk came to one, entry by entry.         *)
LEMMA PushIs ==
  ASSUME NEW fl \in [Lists -> Seq(Chunks)], NEW k \in Lists, NEW c \in Chunks,
         NEW gl, Pushing(fl, k, c, gl)
  PROVE  /\ gl[k] \in Seq(Chunks) /\ gl[k][1] = c /\ 1 \in DOMAIN gl[k]
         /\ \A n \in DOMAIN fl[k] : n \in Nat /\ n + 1 \in DOMAIN gl[k] /\ gl[k][n + 1] = fl[k][n]
         /\ \A n \in DOMAIN gl[k] : n = 1 \/ \E m \in DOMAIN fl[k] : n = m + 1
         /\ \A i \in Lists : i # k => gl[i] = fl[i]
<1>1. fl[k] \in Seq(Chunks) /\ Len(fl[k]) \in Nat /\ DOMAIN fl[k] = 1..Len(fl[k])
  BY LenProperties
<1>2. /\ gl[k] \in Seq(Chunks) /\ DOMAIN gl[k] = 1..(Len(fl[k]) + 1) /\ gl[k][1] = c
      /\ \A n \in DOMAIN fl[k] : gl[k][n + 1] = fl[k][n]
  BY <1>1, InFront DEF Pushing
<1>3. ASSUME NEW n \in DOMAIN gl[k] PROVE n = 1 \/ \E m \in DOMAIN fl[k] : n = m + 1
  <2>1. n # 1 => n - 1 \in 1..Len(fl[k]) /\ n = (n - 1) + 1
    BY <1>1, <1>2
  <2>2. QED
    BY <1>1, <2>1
<1>4. \A i \in Lists : i # k => gl[i] = fl[i]
  BY DEF Pushing
<1>5. QED
  BY <1>1, <1>2, <1>3, <1>4

(* alloc_set_free puts a chunk in front of the list of its class: no list  *)
(* held it while it was in use.                                            *)
LEMMA PushSound ==
  ASSUME NEW fl \in [Lists -> Seq(Chunks)], NEW D, SoundLists(fl, D),
         NEW k \in Lists, NEW c \in Chunks, ~c.external, c.size = Class[k], c \in D,
         NEW gl, Pushing(fl, k, c, gl)
  PROVE  /\ gl[k] \in Seq(Chunks) /\ SoundLists(gl, D \ {c})
<1>1. \A i \in Lists : i # k => gl[i] = fl[i]
  BY PushIs
<1>2. /\ gl[k] \in Seq(Chunks) /\ gl[k][1] = c /\ 1 \in DOMAIN gl[k]
      /\ \A n \in DOMAIN fl[k] : n \in Nat /\ n + 1 \in DOMAIN gl[k] /\ gl[k][n + 1] = fl[k][n]
  BY PushIs
<1>3. \A n \in DOMAIN gl[k] : n = 1 \/ \E m \in DOMAIN fl[k] : n = m + 1
  BY PushIs
<1>4. \A i \in Lists : \A n \in DOMAIN fl[i] : fl[i][n] # c
  BY DEF SoundLists
<1>5. ASSUME NEW i \in Lists
      PROVE  /\ \A n \in DOMAIN gl[i] :
                  ~gl[i][n].external /\ gl[i][n].size = Class[i] /\ gl[i][n] \notin D \ {c}
             /\ \A n, m \in DOMAIN gl[i] : n # m => gl[i][n] # gl[i][m]
  <2>1. CASE i = k
    <3>1. ASSUME NEW n \in DOMAIN gl[k]
          PROVE  ~gl[k][n].external /\ gl[k][n].size = Class[k] /\ gl[k][n] \notin D \ {c}
      <4>1. CASE n = 1
        BY <1>2, <4>1
      <4>2. CASE \E m \in DOMAIN fl[k] : n = m + 1
        BY <1>2, <4>2 DEF SoundLists
      <4>3. QED
        BY <1>3, <4>1, <4>2
    <3>2. ASSUME NEW n \in DOMAIN gl[k], NEW m \in DOMAIN gl[k], n # m PROVE gl[k][n] # gl[k][m]
      <4>1. CASE n = 1
        <5>1. PICK q \in DOMAIN fl[k] : m = q + 1
          BY <1>3, <3>2, <4>1
        <5>2. QED
          BY <1>2, <1>4, <4>1, <5>1
      <4>2. CASE m = 1
        <5>1. PICK q \in DOMAIN fl[k] : n = q + 1
          BY <1>3, <3>2, <4>2
        <5>2. QED
          BY <1>2, <1>4, <4>2, <5>1
      <4>3. CASE n # 1 /\ m # 1
        <5>1. PICK p \in DOMAIN fl[k] : n = p + 1
          BY <1>3, <4>3
        <5>2. PICK q \in DOMAIN fl[k] : m = q + 1
          BY <1>3, <4>3
        <5>3. p # q
          BY <3>2, <5>1, <5>2
        <5>4. fl[k][p] # fl[k][q]
          BY <5>3 DEF SoundLists
        <5>5. QED
          BY <1>2, <5>1, <5>2, <5>4
      <4>4. QED
        BY <4>1, <4>2, <4>3
    <3>3. QED
      BY <2>1, <3>1, <3>2
  <2>2. CASE i # k
    <3>1. gl[i] = fl[i]
      BY <1>1, <2>2
    <3>2. QED
      BY <3>1 DEF SoundLists
  <2>3. QED
    BY <2>1, <2>2
<1>6. SoundLists(gl, D \ {c})
  BY <1>5 DEF SoundLists
<1>7. QED
  BY <1>2, <1>6

(* The lists hold what they held, and the chunk that came.                 *)
LEMMA PushListed ==
  ASSUME NEW fl \in [Lists -> Seq(Chunks)], NEW k \in Lists, NEW c \in Chunks,
         NEW gl, Pushing(fl, k, c, gl)
  PROVE  \A d : d \in AllListed(gl) <=> d \in AllListed(fl) \/ d = c
<1>1. \A i \in Lists : i # k => gl[i] = fl[i]
  BY PushIs
<1>2. /\ gl[k] \in Seq(Chunks) /\ gl[k][1] = c /\ 1 \in DOMAIN gl[k]
      /\ \A n \in DOMAIN fl[k] : n \in Nat /\ n + 1 \in DOMAIN gl[k] /\ gl[k][n + 1] = fl[k][n]
  BY PushIs
<1>3. \A n \in DOMAIN gl[k] : n = 1 \/ \E m \in DOMAIN fl[k] : n = m + 1
  BY PushIs
<1>4. ASSUME NEW d \in AllListed(gl) PROVE d \in AllListed(fl) \cup {c}
  <2>1. PICK i \in Lists : \E n \in DOMAIN gl[i] : gl[i][n] = d
    BY ListedIff
  <2>2. PICK n \in DOMAIN gl[i] : gl[i][n] = d
    BY <2>1
  <2>3. CASE i = k
    <3>1. CASE n = 1
      BY <1>2, <2>2, <2>3, <3>1
    <3>2. CASE \E m \in DOMAIN fl[k] : n = m + 1
      BY <1>2, <2>2, <2>3, <3>2, ListedIff
    <3>3. QED
      BY <1>3, <2>3, <3>1, <3>2
  <2>4. CASE i # k
    BY <1>1, <2>2, <2>4, ListedIff
  <2>5. QED
    BY <2>3, <2>4
<1>5. ASSUME NEW d \in AllListed(fl) PROVE d \in AllListed(gl)
  <2>1. PICK i \in Lists : \E n \in DOMAIN fl[i] : fl[i][n] = d
    BY ListedIff
  <2>2. PICK n \in DOMAIN fl[i] : fl[i][n] = d
    BY <2>1
  <2>3. CASE i = k
    <3>1. n + 1 \in DOMAIN gl[k] /\ gl[k][n + 1] = d
      BY <1>2, <2>2, <2>3
    <3>2. QED
      BY <3>1, ListedIff
  <2>4. CASE i # k
    <3>1. gl[i] = fl[i]
      BY <1>1, <2>4
    <3>2. QED
      BY <2>2, <3>1, ListedIff
  <2>5. QED
    BY <2>3, <2>4
<1>6. c \in AllListed(gl)
  BY <1>2, ListedIff
<1>7. QED
  BY <1>4, <1>5, <1>6

-----------------------------------------------------------------------------
(* ---- pointers ----------------------------------------------------------- *)

(* Writing a block's next through a pointer that may be null.              *)
LEMMA SetNextIs ==
  ASSUME NEW D, D \subseteq Blocks, NEW h \in [D -> BlockRecs], NEW b \in D \cup {Null},
         NEW y \in Pointers
  PROVE  /\ SetNext(h, b, y) \in [D -> BlockRecs] /\ DOMAIN SetNext(h, b, y) = D
         /\ \A d \in D : /\ SetNext(h, b, y)[d].size = h[d].size
                         /\ SetNext(h, b, y)[d].freeptr = h[d].freeptr
                         /\ SetNext(h, b, y)[d].pres = h[d].pres
                         /\ SetNext(h, b, y)[d].next = IF d = b THEN y ELSE h[d].next
<1>1. CASE b = Null
  <2>1. SetNext(h, b, y) = h /\ \A d \in D : d # b
    BY <1>1, AllocAssumption DEF SetNext
  <2>2. QED
    BY <2>1
<1>2. CASE b # Null
  <2> DEFINE r == [h[b] EXCEPT !.next = y]
  <2>1. h[b] \in BlockRecs /\ b \in D
    BY <1>2
  <2>2. /\ r \in BlockRecs /\ r.size = h[b].size /\ r.freeptr = h[b].freeptr
        /\ r.pres = h[b].pres /\ r.next = y
    BY <2>1 DEF BlockRecs
  <2>3. SetNext(h, b, y) = [h EXCEPT ![b] = r]
    BY <1>2 DEF SetNext
  <2> HIDE DEF r
  <2>4. QED
    BY <2>1, <2>2, <2>3
<1>3. QED
  BY <1>1, <1>2

(* Writing a block's pres through a pointer that may be null.              *)
LEMMA SetPresIs ==
  ASSUME NEW D, D \subseteq Blocks, NEW h \in [D -> BlockRecs], NEW b \in D \cup {Null},
         NEW y \in Pointers
  PROVE  /\ SetPres(h, b, y) \in [D -> BlockRecs] /\ DOMAIN SetPres(h, b, y) = D
         /\ \A d \in D : /\ SetPres(h, b, y)[d].size = h[d].size
                         /\ SetPres(h, b, y)[d].freeptr = h[d].freeptr
                         /\ SetPres(h, b, y)[d].next = h[d].next
                         /\ SetPres(h, b, y)[d].pres = IF d = b THEN y ELSE h[d].pres
<1>1. CASE b = Null
  <2>1. SetPres(h, b, y) = h /\ \A d \in D : d # b
    BY <1>1, AllocAssumption DEF SetPres
  <2>2. QED
    BY <2>1
<1>2. CASE b # Null
  <2> DEFINE r == [h[b] EXCEPT !.pres = y]
  <2>1. h[b] \in BlockRecs /\ b \in D
    BY <1>2
  <2>2. /\ r \in BlockRecs /\ r.size = h[b].size /\ r.freeptr = h[b].freeptr
        /\ r.next = h[b].next /\ r.pres = y
    BY <2>1 DEF BlockRecs
  <2>3. SetPres(h, b, y) = [h EXCEPT ![b] = r]
    BY <1>2 DEF SetPres
  <2> HIDE DEF r
  <2>4. QED
    BY <2>1, <2>2, <2>3
<1>3. QED
  BY <1>1, <1>2

-----------------------------------------------------------------------------
(* ---- the block list ----------------------------------------------------- *)

(* What the links of a list say: only its head has no block before it, and *)
(* neighbours point at each other.                                         *)
LEMMA LinksSound ==
  ASSUME NEW h, DOMAIN h \subseteq Blocks, NEW head, LinkedBy(h, head)
  PROVE  /\ head \in DOMAIN h
         /\ \A b \in DOMAIN h :
              /\ h[b].next \in (DOMAIN h) \cup {Null} /\ h[b].pres \in (DOMAIN h) \cup {Null}
              /\ h[b].next # b /\ h[b].pres # b /\ h[b].next # head
              /\ h[b].next # Null => h[h[b].next].pres = b
              /\ h[b].pres = Null <=> b = head
<1>0. PICK n \in Nat \ {0} : \E s \in [1..n -> DOMAIN h] : Order(h, head, n, s)
  BY DEF LinkedBy
<1>1. PICK s \in [1..n -> DOMAIN h] : Order(h, head, n, s)
  BY <1>0
<1>2. /\ s[1] = head
      /\ \A b \in DOMAIN h : \E i \in 1..n : s[i] = b
      /\ \A i, j \in 1..n : s[i] = s[j] => i = j
      /\ \A i \in 1..n : s[i] \in DOMAIN h /\ s[i] # Null
      /\ \A i \in 1..n : h[s[i]].next = IF i = n THEN Null ELSE s[i + 1]
      /\ \A i \in 1..n : h[s[i]].pres = IF i = 1 THEN Null ELSE s[i - 1]
  BY <1>1, AllocAssumption DEF Order
<1>3. head \in DOMAIN h
  BY <1>2
<1>4. ASSUME NEW b \in DOMAIN h
      PROVE  /\ h[b].next \in (DOMAIN h) \cup {Null} /\ h[b].pres \in (DOMAIN h) \cup {Null}
             /\ h[b].next # b /\ h[b].pres # b /\ h[b].next # head
             /\ h[b].next # Null => h[h[b].next].pres = b
             /\ h[b].pres = Null <=> b = head
  <2>1. PICK i \in 1..n : s[i] = b
    BY <1>2
  <2>2. i # n => i + 1 \in 1..n /\ i + 1 # i /\ i + 1 # 1 /\ (i + 1) - 1 = i
    OBVIOUS
  <2>3. i # 1 => i - 1 \in 1..n /\ i - 1 # i
    OBVIOUS
  <2>4. h[b].next = (IF i = n THEN Null ELSE s[i + 1]) /\ h[b].pres = (IF i = 1 THEN Null ELSE s[i - 1])
    BY <1>2, <2>1
  <2>5. 1 \in 1..n /\ b # Null
    BY <1>2, <2>1
  <2>6. /\ h[b].next \in (DOMAIN h) \cup {Null} /\ h[b].next # b /\ h[b].next # head
        /\ h[b].next # Null => h[h[b].next].pres = b
    <3>1. CASE i = n
      BY <1>2, <1>3, <2>4, <2>5, <3>1, AllocAssumption
    <3>2. CASE i # n
      <4>1. h[b].next = s[i + 1] /\ i + 1 \in 1..n /\ i + 1 # i /\ i + 1 # 1 /\ (i + 1) - 1 = i
        BY <2>2, <2>4, <3>2
      <4>2. h[s[i + 1]].pres = s[i]
        BY <1>2, <4>1
      <4>3. s[i + 1] # s[i] /\ s[i + 1] # s[1] /\ s[i + 1] \in DOMAIN h
        BY <1>2, <2>5, <4>1
      <4>4. QED
        BY <1>2, <2>1, <4>1, <4>2, <4>3
    <3>3. QED
      BY <3>1, <3>2
  <2>7. /\ h[b].pres \in (DOMAIN h) \cup {Null} /\ h[b].pres # b
        /\ h[b].pres = Null <=> b = head
    <3>1. CASE i = 1
      BY <1>2, <2>1, <2>4, <2>5, <3>1
    <3>2. CASE i # 1
      BY <1>2, <2>1, <2>3, <2>4, <2>5, <3>2
    <3>3. QED
      BY <3>1, <3>2
  <2>8. QED
    BY <2>6, <2>7
<1>5. QED
  BY <1>3, <1>4

(* The blocks h became g: b is a new head; b is a new second block; b took *)
(* the place of x; x left the list.                                        *)
NewHead(h, head, b, g) ==
  /\ DOMAIN g = DOMAIN h \cup {b} /\ g[b].next = head /\ g[b].pres = Null
  /\ \A d \in DOMAIN h : /\ g[d].next = h[d].next
                         /\ g[d].pres = IF d = head THEN b ELSE h[d].pres
NewSecond(h, head, b, g) ==
  /\ DOMAIN g = DOMAIN h \cup {b} /\ g[b].next = h[head].next /\ g[b].pres = head
  /\ \A d \in DOMAIN h : /\ g[d].next = IF d = head THEN b ELSE h[d].next
                         /\ g[d].pres = IF d = h[head].next THEN b ELSE h[d].pres
Replaced(h, x, b, g) ==
  /\ DOMAIN g = (DOMAIN h \ {x}) \cup {b}
  /\ g[b].next = h[x].next /\ g[b].pres = h[x].pres
  /\ \A d \in DOMAIN h \ {x} : /\ g[d].next = IF d = h[x].pres THEN b ELSE h[d].next
                               /\ g[d].pres = IF d = h[x].next THEN b ELSE h[d].pres
Dropped(h, x, g) ==
  /\ DOMAIN g = DOMAIN h \ {x}
  /\ \A d \in DOMAIN h \ {x} :
       /\ g[d].next = IF d = h[x].pres THEN h[x].next ELSE h[d].next
       /\ g[d].pres = IF d = h[x].next THEN h[x].pres ELSE h[d].pres

(* alloc_set_alloc_new_block: a new head.                                  *)
LEMMA LinkNew ==
  ASSUME NEW h, DOMAIN h \subseteq Blocks, NEW head, LinkedBy(h, head),
         NEW b \in Blocks, b \notin DOMAIN h, NEW g, NewHead(h, head, b, g)
  PROVE  LinkedBy(g, b)
<1> USE DEF NewHead
<1>0. PICK n \in Nat \ {0} : \E s \in [1..n -> DOMAIN h] : Order(h, head, n, s)
  BY DEF LinkedBy
<1>1. PICK s \in [1..n -> DOMAIN h] : Order(h, head, n, s)
  BY <1>0
<1>2. /\ s[1] = head
      /\ \A d \in DOMAIN h : \E i \in 1..n : s[i] = d
      /\ \A i, j \in 1..n : s[i] = s[j] => i = j
      /\ \A i \in 1..n : s[i] \in DOMAIN h /\ s[i] # Null
      /\ \A i \in 1..n : h[s[i]].next = IF i = n THEN Null ELSE s[i + 1]
      /\ \A i \in 1..n : h[s[i]].pres = IF i = 1 THEN Null ELSE s[i - 1]
  BY <1>1, AllocAssumption DEF Order
<1> DEFINE m == n + 1
           t == [i \in 1..m |-> IF i = 1 THEN b ELSE s[i - 1]]
<1>3. m \in Nat \ {0} /\ \A i \in 1..m : i # 1 => i - 1 \in 1..n
  OBVIOUS
<1>4. t[1] = b /\ \A i \in 1..m : i # 1 => t[i] = s[i - 1]
  BY <1>3
<1>5. t \in [1..m -> DOMAIN g]
  BY <1>2, <1>3
<1> HIDE DEF t
<1>6. ASSUME NEW d \in DOMAIN g PROVE \E i \in 1..m : t[i] = d
  <2>1. CASE d = b
    BY <1>3, <1>4, <2>1
  <2>2. CASE d # b
    <3>1. PICK i \in 1..n : s[i] = d
      BY <1>2, <2>2
    <3>2. i + 1 \in 1..m /\ i + 1 # 1 /\ (i + 1) - 1 = i
      OBVIOUS
    <3>3. t[i + 1] = d
      BY <1>4, <3>1, <3>2
    <3>4. QED
      BY <3>2, <3>3
  <2>3. QED
    BY <2>1, <2>2
<1>7. ASSUME NEW i \in 1..m, NEW j \in 1..m, t[i] = t[j] PROVE i = j
  <2>1. \A k \in 1..m : k # 1 => t[k] # b
    BY <1>2, <1>3, <1>4
  <2>2. CASE i = 1 \/ j = 1
    BY <1>4, <1>7, <2>1, <2>2
  <2>3. CASE i # 1 /\ j # 1
    <3>1. i - 1 = j - 1
      BY <1>2, <1>3, <1>4, <1>7, <2>3
    <3>2. QED
      BY <3>1
  <2>4. QED
    BY <2>2, <2>3
<1>8. ASSUME NEW i \in 1..m
      PROVE  /\ g[t[i]].next = IF i = m THEN Null ELSE t[i + 1]
             /\ g[t[i]].pres = IF i = 1 THEN Null ELSE t[i - 1]
  <2>1. CASE i = 1
    <3>1. i # m /\ i + 1 \in 1..m /\ i + 1 # 1 /\ (i + 1) - 1 = 1
      BY <2>1
    <3>2. t[i + 1] = head
      BY <1>2, <1>4, <3>1
    <3>3. QED
      BY <1>4, <2>1, <3>1, <3>2
  <2>2. CASE i # 1
    <3>1. i - 1 \in 1..n /\ t[i] = s[i - 1] /\ s[i - 1] \in DOMAIN h
      BY <1>2, <1>3, <1>4, <2>2
    <3>2. g[t[i]].next = IF i = m THEN Null ELSE t[i + 1]
      <4>1. h[s[i - 1]].next = IF i - 1 = n THEN Null ELSE s[(i - 1) + 1]
        BY <1>2, <3>1
      <4>2. (i - 1 = n <=> i = m) /\ (i - 1) + 1 = (i + 1) - 1
        OBVIOUS
      <4>3. i # m => t[i + 1] = s[(i + 1) - 1]
        <5>1. i # m => i + 1 \in 1..m /\ i + 1 # 1
          BY <2>2
        <5>2. QED
          BY <1>4, <5>1
      <4>4. QED
        BY <3>1, <4>1, <4>2, <4>3
    <3>3. g[t[i]].pres = t[i - 1]
      <4>1. CASE i - 1 = 1
        BY <1>2, <1>4, <3>1, <4>1
      <4>2. CASE i - 1 # 1
        <5>1. s[i - 1] # head
          BY <1>2, <3>1, <4>2
        <5>2. h[s[i - 1]].pres = s[(i - 1) - 1]
          BY <1>2, <3>1, <4>2
        <5>3. t[i - 1] = s[(i - 1) - 1]
          <6>1. i - 1 \in 1..m
            BY <3>1
          <6>2. QED
            BY <1>4, <4>2, <6>1
        <5>4. QED
          BY <3>1, <5>1, <5>2, <5>3
      <4>3. QED
        BY <4>1, <4>2
    <3>4. QED
      BY <2>2, <3>2, <3>3
  <2>3. QED
    BY <2>1, <2>2
<1>9. Order(g, b, m, t)
  <2> HIDE DEF m
  <2>1. QED
    BY <1>4, <1>6, <1>7, <1>8 DEF Order
<1>10. QED
  <2> HIDE DEF m
  <2>1. QED
    BY <1>3, <1>5, <1>9 DEF LinkedBy

(* alloc_set_alloc_large: a new second block.                              *)
LEMMA LinkSecond ==
  ASSUME NEW h, DOMAIN h \subseteq Blocks, NEW head, LinkedBy(h, head),
         NEW b \in Blocks, b \notin DOMAIN h, NEW g, NewSecond(h, head, b, g)
  PROVE  LinkedBy(g, head)
<1> USE DEF NewSecond
<1>0. PICK n \in Nat \ {0} : \E s \in [1..n -> DOMAIN h] : Order(h, head, n, s)
  BY DEF LinkedBy
<1>1. PICK s \in [1..n -> DOMAIN h] : Order(h, head, n, s)
  BY <1>0
<1>2. /\ s[1] = head
      /\ \A d \in DOMAIN h : \E i \in 1..n : s[i] = d
      /\ \A i, j \in 1..n : s[i] = s[j] => i = j
      /\ \A i \in 1..n : s[i] \in DOMAIN h /\ s[i] # Null
      /\ \A i \in 1..n : h[s[i]].next = IF i = n THEN Null ELSE s[i + 1]
      /\ \A i \in 1..n : h[s[i]].pres = IF i = 1 THEN Null ELSE s[i - 1]
  BY <1>1, AllocAssumption DEF Order
<1> DEFINE m == n + 1
           t == [i \in 1..m |-> IF i = 1 THEN s[1] ELSE IF i = 2 THEN b ELSE s[i - 1]]
<1>3. /\ m \in Nat \ {0} /\ 1 \in 1..m /\ 2 \in 1..m /\ 1 \in 1..n
      /\ \A i \in 1..m : i # 1 /\ i # 2 => i - 1 \in 1..n /\ i - 1 # 1
  OBVIOUS
<1>4. t[1] = head /\ t[2] = b /\ \A i \in 1..m : i # 1 /\ i # 2 => t[i] = s[i - 1]
  BY <1>2, <1>3
<1>5. t \in [1..m -> DOMAIN g]
  BY <1>2, <1>3
<1> HIDE DEF t
<1>6. ASSUME NEW d \in DOMAIN g PROVE \E i \in 1..m : t[i] = d
  <2>1. CASE d = b \/ d = head
    BY <1>3, <1>4, <2>1
  <2>2. CASE d # b /\ d # head
    <3>1. PICK i \in 1..n : s[i] = d
      BY <1>2, <2>2
    <3>2. i # 1
      BY <1>2, <2>2, <3>1
    <3>3. i + 1 \in 1..m /\ i + 1 # 1 /\ i + 1 # 2 /\ (i + 1) - 1 = i
      BY <3>2
    <3>4. t[i + 1] = d
      BY <1>4, <3>1, <3>3
    <3>5. QED
      BY <3>3, <3>4
  <2>3. QED
    BY <2>1, <2>2
<1>7. ASSUME NEW i \in 1..m, NEW j \in 1..m, t[i] = t[j] PROVE i = j
  <2>1. \A k \in 1..m : k # 1 /\ k # 2 => t[k] # b /\ t[k] # head
    BY <1>2, <1>3, <1>4
  <2>2. b # head
    BY <1>2, <1>3
  <2>3. CASE i \in {1, 2} \/ j \in {1, 2}
    BY <1>4, <1>7, <2>1, <2>2, <2>3
  <2>4. CASE i \notin {1, 2} /\ j \notin {1, 2}
    <3>1. i - 1 = j - 1
      BY <1>2, <1>3, <1>4, <1>7, <2>4
    <3>2. QED
      BY <3>1
  <2>5. QED
    BY <2>3, <2>4
<1>8. h[head].next = (IF n = 1 THEN Null ELSE s[2]) /\ head \in DOMAIN h /\ (n # 1 => 2 \in 1..n)
  <2>1. h[s[1]].next = IF 1 = n THEN Null ELSE s[1 + 1]
    BY <1>2, <1>3
  <2>2. QED
    BY <1>2, <1>3, <2>1
<1>9. ASSUME NEW i \in 1..m
      PROVE  /\ g[t[i]].next = IF i = m THEN Null ELSE t[i + 1]
             /\ g[t[i]].pres = IF i = 1 THEN Null ELSE t[i - 1]
  <2>1. CASE i = 1
    <3>1. i # m /\ i + 1 = 2
      BY <2>1
    <3>2. h[head].pres = Null /\ head # h[head].next
      <4>1. h[s[1]].pres = Null
        BY <1>2, <1>3
      <4>2. n # 1 => s[2] # s[1]
        BY <1>2, <1>3, <1>8
      <4>3. QED
        BY <1>2, <1>3, <1>8, <4>1, <4>2
    <3>3. QED
      BY <1>4, <1>8, <2>1, <3>1, <3>2
  <2>2. CASE i = 2
    <3>1. i - 1 = 1 /\ i # 1 /\ (i = m <=> n = 1) /\ (i # m => i + 1 \in 1..m /\ i + 1 = 3)
      BY <2>2
    <3>2. i # m => t[i + 1] = s[2]
      <4>1. i # m => t[3] = s[3 - 1] /\ 3 - 1 = 2
        BY <1>4, <3>1
      <4>2. QED
        BY <3>1, <4>1
    <3>3. QED
      BY <1>4, <1>8, <2>2, <3>1, <3>2
  <2>3. CASE i # 1 /\ i # 2
    <3>1. i - 1 \in 1..n /\ i - 1 # 1 /\ t[i] = s[i - 1] /\ s[i - 1] \in DOMAIN h
      BY <1>2, <1>3, <1>4, <2>3
    <3>2. s[i - 1] # head
      BY <1>2, <1>3, <3>1
    <3>3. g[t[i]].next = IF i = m THEN Null ELSE t[i + 1]
      <4>1. h[s[i - 1]].next = IF i - 1 = n THEN Null ELSE s[(i - 1) + 1]
        BY <1>2, <3>1
      <4>2. (i - 1 = n <=> i = m) /\ (i - 1) + 1 = (i + 1) - 1
        OBVIOUS
      <4>3. i # m => t[i + 1] = s[(i + 1) - 1]
        <5>1. i # m => i + 1 \in 1..m /\ i + 1 # 1 /\ i + 1 # 2
          BY <2>3
        <5>2. QED
          BY <1>4, <5>1
      <4>4. QED
        BY <3>1, <3>2, <4>1, <4>2, <4>3
    <3>4. g[t[i]].pres = t[i - 1]
      <4>1. CASE i - 1 = 2
        <5>1. n # 1 /\ h[head].next = s[i - 1]
          BY <1>8, <3>1, <4>1
        <5>2. QED
          BY <1>4, <3>1, <4>1, <5>1
      <4>2. CASE i - 1 # 2
        <5>1. s[i - 1] # h[head].next
          BY <1>2, <1>8, <3>1, <4>2
        <5>2. h[s[i - 1]].pres = s[(i - 1) - 1]
          BY <1>2, <3>1
        <5>3. t[i - 1] = s[(i - 1) - 1]
          <6>1. i - 1 \in 1..m
            BY <3>1
          <6>2. QED
            BY <1>4, <3>1, <4>2, <6>1
        <5>4. QED
          BY <3>1, <5>1, <5>2, <5>3
      <4>3. QED
        BY <4>1, <4>2
    <3>5. QED
      BY <2>3, <3>3, <3>4
  <2>4. QED
    BY <2>1, <2>2, <2>3
<1>10. Order(g, head, m, t)
  <2> HIDE DEF m
  <2>1. QED
    BY <1>4, <1>6, <1>7, <1>9 DEF Order
<1>11. QED
  <2> HIDE DEF m
  <2>1. QED
    BY <1>3, <1>5, <1>10 DEF LinkedBy

(* alloc_set_realloc of an external chunk: the block x became b, in the    *)
(* same place of the list.                                                 *)
LEMMA LinkReplace ==
  ASSUME NEW h, DOMAIN h \subseteq Blocks, NEW head, LinkedBy(h, head),
         NEW x \in DOMAIN h, x # head, NEW b \in Blocks, b = x \/ b \notin DOMAIN h,
         NEW g, Replaced(h, x, b, g)
  PROVE  LinkedBy(g, head)
<1> USE DEF Replaced
<1>0. PICK n \in Nat \ {0} : \E s \in [1..n -> DOMAIN h] : Order(h, head, n, s)
  BY DEF LinkedBy
<1>1. PICK s \in [1..n -> DOMAIN h] : Order(h, head, n, s)
  BY <1>0
<1>2. /\ s[1] = head
      /\ \A d \in DOMAIN h : \E i \in 1..n : s[i] = d
      /\ \A i, j \in 1..n : s[i] = s[j] => i = j
      /\ \A i \in 1..n : s[i] \in DOMAIN h /\ s[i] # Null
      /\ \A i \in 1..n : h[s[i]].next = IF i = n THEN Null ELSE s[i + 1]
      /\ \A i \in 1..n : h[s[i]].pres = IF i = 1 THEN Null ELSE s[i - 1]
  BY <1>1, AllocAssumption DEF Order
<1>3. PICK j \in 1..n : s[j] = x
  BY <1>2
<1>4. j # 1 /\ j - 1 \in 1..n /\ h[x].pres = s[j - 1] /\ h[x].next = (IF j = n THEN Null ELSE s[j + 1])
  <2>1. j # 1
    BY <1>2, <1>3
  <2>2. j - 1 \in 1..n
    BY <2>1
  <2>3. h[s[j]].next = (IF j = n THEN Null ELSE s[j + 1]) /\ h[s[j]].pres = s[j - 1]
    BY <1>2, <2>1
  <2>4. QED
    BY <1>3, <2>1, <2>2, <2>3
<1> DEFINE t == [i \in 1..n |-> IF i = j THEN b ELSE s[i]]
<1>5. t[j] = b /\ \A i \in 1..n : i # j => t[i] = s[i]
  OBVIOUS
<1>6. \A i \in 1..n : i # j => s[i] # x /\ s[i] \in DOMAIN h \ {x} /\ s[i] # b
  BY <1>2, <1>3
<1>7. t \in [1..n -> DOMAIN g]
  BY <1>6
<1> HIDE DEF t
<1>8. t[1] = head /\ 1 \in 1..n
  BY <1>2, <1>4, <1>5
<1>9. ASSUME NEW d \in DOMAIN g PROVE \E i \in 1..n : t[i] = d
  <2>1. CASE d = b
    BY <1>5, <2>1
  <2>2. CASE d # b
    <3>1. PICK i \in 1..n : s[i] = d
      BY <1>2, <2>2
    <3>2. i # j
      BY <1>3, <2>2, <3>1
    <3>3. QED
      BY <1>5, <3>1, <3>2
  <2>3. QED
    BY <2>1, <2>2
<1>10. ASSUME NEW i \in 1..n, NEW k \in 1..n, t[i] = t[k] PROVE i = k
  <2>1. \A l \in 1..n : l # j => t[l] # b
    BY <1>5, <1>6
  <2>2. CASE i = j \/ k = j
    BY <1>5, <1>10, <2>1, <2>2
  <2>3. CASE i # j /\ k # j
    <3>1. s[i] = s[k]
      BY <1>5, <1>10, <2>3
    <3>2. QED
      BY <1>2, <3>1
  <2>4. QED
    BY <2>2, <2>3
<1>11. ASSUME NEW i \in 1..n
       PROVE  /\ g[t[i]].next = IF i = n THEN Null ELSE t[i + 1]
              /\ g[t[i]].pres = IF i = 1 THEN Null ELSE t[i - 1]
  <2>1. CASE i = j
    <3>1. i - 1 # j /\ t[i - 1] = s[j - 1]
      BY <1>4, <1>5, <2>1
    <3>2. i # n => t[i + 1] = s[j + 1]
      <4>1. i # n => i + 1 \in 1..n /\ i + 1 # j
        BY <2>1
      <4>2. QED
        BY <1>5, <2>1, <4>1
    <3>3. QED
      BY <1>4, <1>5, <2>1, <3>1, <3>2
  <2>2. CASE i # j
    <3>1. t[i] = s[i] /\ s[i] \in DOMAIN h \ {x}
      BY <1>5, <1>6, <2>2
    <3>2. g[t[i]].next = IF i = n THEN Null ELSE t[i + 1]
      <4>1. CASE i = n
        <5>1. i # j - 1
          BY <4>1
        <5>2. s[i] # h[x].pres
          BY <1>2, <1>4, <5>1
        <5>3. QED
          BY <1>2, <3>1, <4>1, <5>2
      <4>2. CASE i # n
        <5>1. i + 1 \in 1..n
          BY <4>2
        <5>2. CASE i + 1 = j
          <6>1. i = j - 1
            BY <5>2
          <6>2. QED
            BY <1>4, <1>5, <3>1, <4>2, <5>2, <6>1
        <5>3. CASE i + 1 # j
          <6>1. i # j - 1
            BY <5>3
          <6>2. s[i] # h[x].pres
            BY <1>2, <1>4, <6>1
          <6>3. h[s[i]].next = s[i + 1] /\ t[i + 1] = s[i + 1]
            BY <1>2, <1>5, <4>2, <5>1, <5>3
          <6>4. QED
            BY <3>1, <4>2, <6>2, <6>3
        <5>4. QED
          BY <5>2, <5>3
      <4>3. QED
        BY <4>1, <4>2
    <3>3. g[t[i]].pres = IF i = 1 THEN Null ELSE t[i - 1]
      <4>1. CASE j # n /\ i = j + 1
        <5>1. i - 1 = j /\ i # 1
          BY <4>1
        <5>2. s[i] = h[x].next
          BY <1>4, <4>1
        <5>3. QED
          BY <1>5, <3>1, <5>1, <5>2
      <4>2. CASE ~(j # n /\ i = j + 1)
        <5>1. s[i] # h[x].next
          <6>1. CASE j = n
            BY <1>2, <1>4, <6>1
          <6>2. CASE j # n
            <7>1. j + 1 \in 1..n /\ i # j + 1
              BY <4>2, <6>2
            <7>2. QED
              BY <1>2, <1>4, <6>2, <7>1
          <6>3. QED
            BY <6>1, <6>2
        <5>2. i # 1 => i - 1 \in 1..n /\ i - 1 # j
          BY <4>2
        <5>3. QED
          BY <1>2, <1>5, <3>1, <5>1, <5>2
      <4>3. QED
        BY <4>1, <4>2
    <3>4. QED
      BY <3>2, <3>3
  <2>3. QED
    BY <2>1, <2>2
<1>12. Order(g, head, n, t)
  BY <1>8, <1>9, <1>10, <1>11 DEF Order
<1>13. QED
  BY <1>7, <1>12 DEF LinkedBy

(* alloc_set_free of an external chunk: the block x leaves the list.       *)
LEMMA LinkDrop ==
  ASSUME NEW h, DOMAIN h \subseteq Blocks, NEW head, LinkedBy(h, head),
         NEW x \in DOMAIN h, x # head, NEW g, Dropped(h, x, g)
  PROVE  LinkedBy(g, head)
<1> USE DEF Dropped
<1>0. PICK n \in Nat \ {0} : \E s \in [1..n -> DOMAIN h] : Order(h, head, n, s)
  BY DEF LinkedBy
<1>1. PICK s \in [1..n -> DOMAIN h] : Order(h, head, n, s)
  BY <1>0
<1>2. /\ s[1] = head
      /\ \A d \in DOMAIN h : \E i \in 1..n : s[i] = d
      /\ \A i, j \in 1..n : s[i] = s[j] => i = j
      /\ \A i \in 1..n : s[i] \in DOMAIN h /\ s[i] # Null
      /\ \A i \in 1..n : h[s[i]].next = IF i = n THEN Null ELSE s[i + 1]
      /\ \A i \in 1..n : h[s[i]].pres = IF i = 1 THEN Null ELSE s[i - 1]
  BY <1>1, AllocAssumption DEF Order
<1>3. PICK j \in 1..n : s[j] = x
  BY <1>2
<1>4. j # 1 /\ j - 1 \in 1..n /\ h[x].pres = s[j - 1] /\ h[x].next = (IF j = n THEN Null ELSE s[j + 1])
  <2>1. j # 1
    BY <1>2, <1>3
  <2>2. j - 1 \in 1..n
    BY <2>1
  <2>3. h[s[j]].next = (IF j = n THEN Null ELSE s[j + 1]) /\ h[s[j]].pres = s[j - 1]
    BY <1>2, <2>1
  <2>4. QED
    BY <1>3, <2>1, <2>2, <2>3
<1> DEFINE m == n - 1
           t == [i \in 1..m |-> IF i < j THEN s[i] ELSE s[i + 1]]
<1>5. /\ m \in Nat \ {0}
      /\ \A i \in 1..m : i \in 1..n /\ i + 1 \in 1..n
  BY <1>4
<1>6. \A i \in 1..m : (i < j => t[i] = s[i]) /\ (~(i < j) => t[i] = s[i + 1])
  OBVIOUS
<1>7. \A i \in 1..n : i # j => s[i] # x /\ s[i] \in DOMAIN h \ {x}
  BY <1>2, <1>3
<1>8. t \in [1..m -> DOMAIN g]
  <2>1. ASSUME NEW i \in 1..m PROVE t[i] \in DOMAIN g
    <3>1. CASE i < j
      <4>1. i # j /\ i \in 1..n
        BY <1>5, <3>1
      <4>2. QED
        BY <1>6, <1>7, <3>1, <4>1
    <3>2. CASE ~(i < j)
      <4>1. i + 1 # j /\ i + 1 \in 1..n
        BY <1>5, <3>2
      <4>2. QED
        BY <1>6, <1>7, <3>2, <4>1
    <3>3. QED
      BY <3>1, <3>2
  <2>2. QED
    BY <2>1
<1> HIDE DEF t
<1>9. t[1] = head
  <2>1. 1 \in 1..m /\ 1 < j
    BY <1>4, <1>5
  <2>2. QED
    BY <1>2, <1>6, <2>1
<1>10. ASSUME NEW d \in DOMAIN g PROVE \E i \in 1..m : t[i] = d
  <2>1. PICK i \in 1..n : s[i] = d
    BY <1>2
  <2>2. i # j
    BY <1>3, <2>1
  <2>3. CASE i < j
    <3>1. i \in 1..m
      BY <2>3
    <3>2. QED
      BY <1>6, <2>1, <2>3, <3>1
  <2>4. CASE ~(i < j)
    <3>1. i - 1 \in 1..m /\ ~(i - 1 < j) /\ (i - 1) + 1 = i
      BY <2>2, <2>4
    <3>2. t[i - 1] = d
      BY <1>6, <2>1, <3>1
    <3>3. QED
      BY <3>1, <3>2
  <2>5. QED
    BY <2>3, <2>4
<1>11. ASSUME NEW i \in 1..m, NEW k \in 1..m, t[i] = t[k] PROVE i = k
  <2> DEFINE p(l) == IF l < j THEN l ELSE l + 1
  <2>1. ASSUME NEW l \in 1..m PROVE p(l) \in 1..n /\ t[l] = s[p(l)]
    BY <1>5, <1>6
  <2>2. p(i) = p(k)
    <3>1. p(i) \in 1..n /\ p(k) \in 1..n /\ s[p(i)] = s[p(k)]
      BY <1>11, <2>1
    <3> HIDE DEF p
    <3>2. QED
      BY <1>2, <3>1
  <2>3. QED
    BY <2>2
<1>12. ASSUME NEW i \in 1..m
       PROVE  /\ g[t[i]].next = IF i = m THEN Null ELSE t[i + 1]
              /\ g[t[i]].pres = IF i = 1 THEN Null ELSE t[i - 1]
  <2>1. CASE i < j
    <3>1. i \in 1..n /\ i # j /\ i # n
      BY <2>1
    <3>2. t[i] = s[i] /\ s[i] \in DOMAIN h \ {x}
      BY <1>6, <1>7, <2>1, <3>1
    <3>3. g[t[i]].next = IF i = m THEN Null ELSE t[i + 1]
      <4>1. CASE i + 1 = j
        <5>1. i = j - 1 /\ (i = m <=> j = n)
          BY <4>1
        <5>2. g[t[i]].next = IF j = n THEN Null ELSE s[j + 1]
          BY <1>4, <3>2, <5>1
        <5>3. j # n => t[j] = s[j + 1]
          <6>1. j # n => j \in 1..m /\ ~(j < j)
            OBVIOUS
          <6>2. QED
            BY <1>6, <6>1
        <5>4. QED
          BY <4>1, <5>1, <5>2, <5>3
      <4>2. CASE i + 1 # j
        <5>1. i + 1 \in 1..m /\ i + 1 < j /\ i # m /\ i # j - 1
          BY <2>1, <4>2
        <5>2. s[i] # h[x].pres
          BY <1>2, <1>4, <3>1, <5>1
        <5>3. h[s[i]].next = s[i + 1] /\ t[i + 1] = s[i + 1]
          BY <1>2, <1>6, <3>1, <5>1
        <5>4. QED
          BY <3>2, <5>1, <5>2, <5>3
      <4>3. QED
        BY <4>1, <4>2
    <3>4. g[t[i]].pres = IF i = 1 THEN Null ELSE t[i - 1]
      <4>1. s[i] # h[x].next
        <5>1. CASE j = n
          BY <1>2, <1>4, <3>1, <5>1
        <5>2. CASE j # n
          <6>1. j + 1 \in 1..n /\ i # j + 1
            BY <2>1, <5>2
          <6>2. QED
            BY <1>2, <1>4, <3>1, <5>2, <6>1
        <5>3. QED
          BY <5>1, <5>2
      <4>2. h[s[i]].pres = IF i = 1 THEN Null ELSE s[i - 1]
        BY <1>2, <3>1
      <4>3. i # 1 => t[i - 1] = s[i - 1]
        <5>1. i # 1 => i - 1 \in 1..m /\ i - 1 < j
          BY <2>1
        <5>2. QED
          BY <1>6, <5>1
      <4>4. QED
        BY <3>2, <4>1, <4>2, <4>3
    <3>5. QED
      BY <3>3, <3>4
  <2>2. CASE ~(i < j)
    <3>1. i + 1 \in 1..n /\ i + 1 # j /\ i + 1 # j - 1 /\ i + 1 # 1 /\ i # 1
      BY <1>4, <2>2
    <3>2. t[i] = s[i + 1] /\ s[i + 1] \in DOMAIN h \ {x}
      BY <1>6, <1>7, <2>2, <3>1
    <3>3. g[t[i]].next = IF i = m THEN Null ELSE t[i + 1]
      <4>1. s[i + 1] # h[x].pres
        BY <1>2, <1>4, <3>1
      <4>2. h[s[i + 1]].next = IF i + 1 = n THEN Null ELSE s[(i + 1) + 1]
        BY <1>2, <3>1
      <4>3. i # m => t[i + 1] = s[(i + 1) + 1]
        <5>1. i # m => i + 1 \in 1..m /\ ~(i + 1 < j)
          BY <2>2
        <5>2. QED
          BY <1>6, <5>1
      <4>4. i = m <=> i + 1 = n
        OBVIOUS
      <4>5. QED
        BY <3>2, <4>1, <4>2, <4>3, <4>4
    <3>4. g[t[i]].pres = t[i - 1]
      <4>1. CASE i = j
        <5>1. j # n /\ j - 1 \in 1..m /\ j - 1 < j
          BY <1>4, <4>1
        <5>2. t[j - 1] = s[j - 1] /\ s[i + 1] = h[x].next
          BY <1>4, <1>6, <4>1, <5>1
        <5>3. QED
          BY <1>4, <3>2, <4>1, <5>2
      <4>2. CASE i # j
        <5>1. i - 1 \in 1..m /\ ~(i - 1 < j) /\ (i - 1) + 1 = (i + 1) - 1 /\ i + 1 # j + 1
          BY <2>2, <4>2
        <5>2. s[i + 1] # h[x].next
          <6>1. CASE j = n
            BY <2>2, <6>1
          <6>2. CASE j # n
            <7>1. j + 1 \in 1..n
              BY <6>2
            <7>2. QED
              BY <1>2, <1>4, <3>1, <5>1, <6>2, <7>1
          <6>3. QED
            BY <6>1, <6>2
        <5>3. h[s[i + 1]].pres = s[(i + 1) - 1]
          BY <1>2, <3>1
        <5>4. t[i - 1] = s[(i - 1) + 1]
          BY <1>6, <5>1
        <5>5. QED
          BY <3>2, <5>1, <5>2, <5>3, <5>4
      <4>3. QED
        BY <4>1, <4>2
    <3>5. QED
      BY <3>1, <3>3, <3>4
  <2>3. QED
    BY <2>1, <2>2
<1>13. Order(g, head, m, t)
  <2> HIDE DEF m
  <2>1. QED
    BY <1>9, <1>10, <1>11, <1>12 DEF Order
<1>14. QED
  <2> HIDE DEF m
  <2>1. QED
    BY <1>5, <1>8, <1>13 DEF LinkedBy

-----------------------------------------------------------------------------
(* ---- where the chunks lie ----------------------------------------------- *)

(* Only the sizes and free pointers of the blocks and the ends of the      *)
(* chunks matter to the layout.                                            *)
LEMMA LayoutSame ==
  ASSUME NEW h, NEW K, NEW e, LayoutOf(h, K, e), NEW g, DOMAIN g = DOMAIN h,
         \A b \in DOMAIN h : g[b].freeptr = h[b].freeptr /\ g[b].size = h[b].size,
         NEW f, \A c \in K : f[c] = e[c]
  PROVE  LayoutOf(g, K, f)
<1>1. K \subseteq Chunks /\ \A c \in K : f[c] \in Nat /\ c.off < f[c]
  BY DEF LayoutOf
<1>2. \A b \in DOMAIN g : /\ g[b].freeptr \in Nat /\ g[b].size \in Nat
                          /\ BlockHdr <= g[b].freeptr /\ g[b].freeptr <= g[b].size
  BY DEF LayoutOf
<1>3. \A c \in K : c.block \in DOMAIN g /\ BlockHdr <= c.off /\ f[c] <= g[c.block].freeptr
  BY DEF LayoutOf
<1>4. \A c, d \in K : c # d => c.block # d.block \/ f[c] <= d.off \/ f[d] <= c.off
  BY DEF LayoutOf
<1>5. ASSUME NEW b \in DOMAIN g, NEW u \in BlockHdr..(g[b].freeptr - 1)
      PROVE  \E c \in K : c.block = b /\ c.off <= u /\ u < f[c]
  <2>1. \E c \in K : c.block = b /\ c.off <= u /\ u < e[c]
    BY <1>5 DEF LayoutOf
  <2>2. QED
    BY <2>1
<1>6. QED
  BY <1>1, <1>2, <1>3, <1>4, <1>5 DEF LayoutOf

(* A chunk is carved off a block, or off a new block, at its free pointer, *)
(* which then points behind the chunk: the chunk is new, shares no unit    *)
(* with another and leaves no gap.                                         *)
LEMMA LayoutAdd ==
  ASSUME NEW h, NEW K, NEW e, LayoutOf(h, K, e), NEW x \in Chunks,
         NEW g, DOMAIN g = DOMAIN h \cup {x.block},
         \A b \in DOMAIN h : b # x.block => g[b].freeptr = h[b].freeptr /\ g[b].size = h[b].size,
         x.block \in DOMAIN h => x.off = h[x.block].freeptr,
         x.block \notin DOMAIN h => x.off = BlockHdr,
         g[x.block].freeptr \in Nat, g[x.block].size \in Nat,
         g[x.block].freeptr <= g[x.block].size, x.off < g[x.block].freeptr,
         NEW f, \A c \in K : f[c] = e[c], f[x] = g[x.block].freeptr
  PROVE  x \notin K /\ LayoutOf(g, K \cup {x}, f)
<1>0. BlockHdr \in Nat /\ x.off \in Nat /\ x.block \in Blocks
  BY AllocAssumption DEF Chunks
<1>1. /\ K \subseteq Chunks /\ \A c \in K : e[c] \in Nat /\ c.off < e[c] /\ c.off \in Nat
      /\ \A b \in DOMAIN h : /\ h[b].freeptr \in Nat /\ h[b].size \in Nat
                             /\ BlockHdr <= h[b].freeptr /\ h[b].freeptr <= h[b].size
      /\ \A c \in K : c.block \in DOMAIN h /\ BlockHdr <= c.off /\ e[c] <= h[c.block].freeptr
      /\ \A c, d \in K : c # d => c.block # d.block \/ e[c] <= d.off \/ e[d] <= c.off
      /\ \A b \in DOMAIN h : \A u \in BlockHdr..(h[b].freeptr - 1) :
           \E c \in K : c.block = b /\ c.off <= u /\ u < e[c]
  BY DEF LayoutOf, Chunks
<1>2. BlockHdr <= x.off
  BY <1>0, <1>1
<1>3. ASSUME NEW c \in K PROVE c # x /\ (c.block # x.block \/ f[c] <= x.off)
  <2>1. CASE c.block = x.block
    <3>1. f[c] <= x.off /\ c.off < f[c]
      BY <1>1, <2>1
    <3>2. c.off # x.off
      BY <1>0, <1>1, <3>1
    <3>3. QED
      BY <3>1, <3>2
  <2>2. CASE c.block # x.block
    BY <2>2
  <2>3. QED
    BY <2>1, <2>2
<1>4. ASSUME NEW c \in K \cup {x} PROVE /\ c \in Chunks /\ f[c] \in Nat /\ c.off < f[c]
                                        /\ c.block \in DOMAIN g /\ BlockHdr <= c.off
                                        /\ f[c] <= g[c.block].freeptr
  <2>1. CASE c = x
    BY <1>2, <2>1
  <2>2. CASE c # x /\ c.block = x.block
    <3>1. c \in K /\ f[c] <= x.off /\ f[c] \in Nat
      BY <1>1, <1>3, <2>2
    <3>2. f[c] <= g[c.block].freeptr
      BY <1>0, <2>2, <3>1
    <3>3. QED
      BY <1>1, <3>1, <3>2
  <2>3. CASE c # x /\ c.block # x.block
    BY <1>1, <2>3
  <2>4. QED
    BY <2>1, <2>2, <2>3
<1>5. ASSUME NEW b \in DOMAIN g PROVE /\ g[b].freeptr \in Nat /\ g[b].size \in Nat
                                      /\ BlockHdr <= g[b].freeptr /\ g[b].freeptr <= g[b].size
  <2>1. CASE b = x.block
    BY <1>0, <1>2, <2>1
  <2>2. CASE b # x.block
    BY <1>1, <2>2
  <2>3. QED
    BY <2>1, <2>2
<1>6. ASSUME NEW c \in K \cup {x}, NEW d \in K \cup {x}, c # d
      PROVE  c.block # d.block \/ f[c] <= d.off \/ f[d] <= c.off
  <2>1. CASE c = x
    BY <1>3, <1>6, <2>1
  <2>2. CASE d = x
    BY <1>3, <1>6, <2>2
  <2>3. CASE c # x /\ d # x
    BY <1>1, <1>6, <2>3
  <2>4. QED
    BY <2>1, <2>2, <2>3
<1>7. ASSUME NEW b \in DOMAIN g, NEW u \in BlockHdr..(g[b].freeptr - 1)
      PROVE  \E c \in K \cup {x} : c.block = b /\ c.off <= u /\ u < f[c]
  <2>1. CASE b # x.block
    <3>1. b \in DOMAIN h /\ u \in BlockHdr..(h[b].freeptr - 1)
      BY <2>1
    <3>2. PICK c \in K : c.block = b /\ c.off <= u /\ u < e[c]
      BY <1>1, <3>1
    <3>3. QED
      BY <3>2
  <2>2. CASE b = x.block /\ x.off <= u
    <3>1. u < f[x]
      BY <1>0, <2>2
    <3>2. QED
      BY <2>2, <3>1
  <2>3. CASE b = x.block /\ ~(x.off <= u)
    <3>1. b \in DOMAIN h /\ u \in BlockHdr..(h[b].freeptr - 1)
      <4>1. u \in Nat /\ BlockHdr <= u /\ u < x.off
        BY <1>0, <1>7, <2>3
      <4>2. b \in DOMAIN h
        BY <1>0, <2>3, <4>1
      <4>3. QED
        BY <1>0, <2>3, <4>1, <4>2
    <3>2. PICK c \in K : c.block = b /\ c.off <= u /\ u < e[c]
      BY <1>1, <3>1
    <3>3. QED
      BY <3>2
  <2>4. QED
    BY <2>1, <2>2, <2>3
<1>8. QED
  BY <1>3, <1>4, <1>5, <1>6, <1>7 DEF LayoutOf

(* A block that one chunk fills goes with it.                              *)
LEMMA LayoutDrop ==
  ASSUME NEW h, NEW K, NEW e, LayoutOf(h, K, e), NEW x \in K,
         x.off = BlockHdr, e[x] = h[x.block].freeptr,
         NEW g, DOMAIN g = DOMAIN h \ {x.block},
         \A b \in DOMAIN g : g[b].freeptr = h[b].freeptr /\ g[b].size = h[b].size,
         NEW f, \A c \in K \ {x} : f[c] = e[c]
  PROVE  LayoutOf(g, K \ {x}, f)
<1>1. /\ K \subseteq Chunks /\ \A c \in K : e[c] \in Nat /\ c.off < e[c] /\ c.off \in Nat
      /\ \A b \in DOMAIN h : /\ h[b].freeptr \in Nat /\ h[b].size \in Nat
                             /\ BlockHdr <= h[b].freeptr /\ h[b].freeptr <= h[b].size
      /\ \A c \in K : c.block \in DOMAIN h /\ BlockHdr <= c.off /\ e[c] <= h[c.block].freeptr
      /\ \A c, d \in K : c # d => c.block # d.block \/ e[c] <= d.off \/ e[d] <= c.off
      /\ \A b \in DOMAIN h : \A u \in BlockHdr..(h[b].freeptr - 1) :
           \E c \in K : c.block = b /\ c.off <= u /\ u < e[c]
  BY DEF LayoutOf, Chunks
<1>2. ASSUME NEW c \in K \ {x} PROVE c.block # x.block
  <2>1. SUFFICES ASSUME c.block = x.block PROVE FALSE
    OBVIOUS
  <2>2. e[c] <= x.off \/ e[x] <= c.off
    BY <1>1, <2>1
  <2>3. /\ c.off \in Nat /\ e[c] \in Nat /\ e[x] \in Nat /\ BlockHdr \in Nat /\ c.off < e[c]
        /\ BlockHdr <= c.off /\ e[c] <= e[x]
    BY <1>1, <2>1, AllocAssumption
  <2>4. QED
    BY <2>2, <2>3
<1>3. ASSUME NEW c \in K \ {x} PROVE /\ c \in Chunks /\ f[c] \in Nat /\ c.off < f[c]
                                     /\ c.block \in DOMAIN g /\ BlockHdr <= c.off
                                     /\ f[c] <= g[c.block].freeptr
  BY <1>1, <1>2
<1>4. \A b \in DOMAIN g : /\ g[b].freeptr \in Nat /\ g[b].size \in Nat
                          /\ BlockHdr <= g[b].freeptr /\ g[b].freeptr <= g[b].size
  BY <1>1
<1>5. \A c, d \in K \ {x} : c # d => c.block # d.block \/ f[c] <= d.off \/ f[d] <= c.off
  BY <1>1
<1>6. ASSUME NEW b \in DOMAIN g, NEW u \in BlockHdr..(g[b].freeptr - 1)
      PROVE  \E c \in K \ {x} : c.block = b /\ c.off <= u /\ u < f[c]
  <2>1. b \in DOMAIN h /\ u \in BlockHdr..(h[b].freeptr - 1) /\ b # x.block
    BY <1>6
  <2>2. PICK c \in K : c.block = b /\ c.off <= u /\ u < e[c]
    BY <1>1, <2>1
  <2>3. c \in K \ {x}
    BY <2>1, <2>2
  <2>4. QED
    BY <2>2, <2>3
<1>7. QED
  BY <1>3, <1>4, <1>5, <1>6 DEF LayoutOf

(* What lies behind the free pointer of a block, or in a new block, is no  *)
(* chunk yet.                                                              *)
LEMMA NotKnown ==
  ASSUME NEW h, NEW K, NEW e, LayoutOf(h, K, e), NEW x \in Chunks,
         x.block \in DOMAIN h => x.off = h[x.block].freeptr
  PROVE  x \notin K
<1>1. SUFFICES ASSUME x \in K PROVE FALSE
  OBVIOUS
<1>2. /\ e[x] \in Nat /\ x.off \in Nat /\ x.off < e[x] /\ x.block \in DOMAIN h
      /\ e[x] <= h[x.block].freeptr
  BY <1>1 DEF LayoutOf, Chunks
<1>3. QED
  BY <1>2

(* Only next and pres matter to the block list.                            *)
LEMMA LinkSame ==
  ASSUME NEW h, NEW head, LinkedBy(h, head), NEW g, DOMAIN g = DOMAIN h,
         \A b \in DOMAIN h : g[b].next = h[b].next /\ g[b].pres = h[b].pres
  PROVE  LinkedBy(g, head)
<1>0. PICK n \in Nat \ {0} : \E s \in [1..n -> DOMAIN h] : Order(h, head, n, s)
  BY DEF LinkedBy
<1>1. PICK s \in [1..n -> DOMAIN h] : Order(h, head, n, s)
  BY <1>0
<1>2. \A i \in 1..n : s[i] \in DOMAIN h
  OBVIOUS
<1>3. Order(g, head, n, s)
  BY <1>1, <1>2 DEF Order
<1>4. QED
  BY <1>3 DEF LinkedBy

(* Moving a block's free pointer.                                          *)
LEMMA SetFreeIs ==
  ASSUME NEW D, NEW h \in [D -> BlockRecs], NEW b \in D, NEW n \in Nat, NEW g,
         g = [h EXCEPT ![b].freeptr = n]
  PROVE  /\ g \in [D -> BlockRecs] /\ DOMAIN g = D /\ g[b].freeptr = n
         /\ \A d \in D : /\ g[d].size = h[d].size /\ g[d].next = h[d].next
                         /\ g[d].pres = h[d].pres /\ (d # b => g[d].freeptr = h[d].freeptr)
<1> DEFINE r == [h[b] EXCEPT !.freeptr = n]
<1>1. h[b] \in BlockRecs
  OBVIOUS
<1>2. /\ r \in BlockRecs /\ r.size = h[b].size /\ r.freeptr = n
      /\ r.pres = h[b].pres /\ r.next = h[b].next
  BY <1>1 DEF BlockRecs
<1>3. g = [h EXCEPT ![b] = r]
  OBVIOUS
<1> HIDE DEF r
<1>4. QED
  BY <1>2, <1>3

-----------------------------------------------------------------------------
(* ---- alloc_set_alloc ---------------------------------------------------- *)

(* The unit behind chunk c when its caller asked for n units.              *)
EndAs(c, n) == c.off + ChunkHdr + (IF c.external THEN n ELSE c.size)
EndsWith(g, n) == [c \in Known \cup {g} |-> IF c = g THEN EndAs(g, n) ELSE EndOf(c)]

(* A call for size units supplied chunk g and left the free lists gl: g is *)
(* large enough, no one uses it, and it lies where no other chunk does.    *)
Supplied(size, g, gl) ==
  /\ g \in Chunks /\ g \notin DOMAIN live
  /\ g.external => /\ g = External(g.block) /\ g.block # blocks' /\ g.block # Keeper
                   /\ EndAs(g, size) = heap'[g.block].freeptr
  /\ ~g.external => size <= g.size /\ \E i \in Lists : g.size = Class[i]
  /\ gl \in [Lists -> Seq(Chunks)] /\ SoundLists(gl, DOMAIN live \cup {g})
  /\ Known \cup {g} = (DOMAIN live \cup {g}) \cup AllListed(gl)
  /\ DOMAIN heap' \subseteq Blocks /\ heap' \in [DOMAIN heap' -> BlockRecs]
  /\ DOMAIN heap \subseteq DOMAIN heap' /\ blocks' \in DOMAIN heap' /\ next_block_size' \in Nat
  /\ \A c \in DOMAIN live : c.external =>
       c.block # blocks' /\ heap'[c.block].freeptr = heap[c.block].freeptr
  /\ LayoutOf(heap', Known \cup {g}, EndsWith(g, size))
  /\ LinkedBy(heap', blocks')

(* What a call may rely on.                                                *)
LEMMA SizeSound ==
  ASSUME NEW size \in Sizes
  PROVE  /\ size \in Nat \ {0} /\ Limit \in Nat /\ ChunkHdr \in Nat \ {0} /\ BlockHdr \in Nat
         /\ \A i \in Lists : Class[i] \in Nat \ {0}
         /\ size > Limit <=> ~(size <= Limit)
<1>1. NumLists - 1 \in Lists
  BY AllocAssumption DEF Lists
<1>2. QED
  BY <1>1, AllocAssumption DEF Limit

(* A chunk of the free list.                                               *)
LEMMA SupplyReuse ==
  ASSUME AllocInv, NEW size \in Sizes, NEW b \in Blocks, Reuse(size)
  PROVE  Supplied(size, Got(size, b), Popped(size))
<1> DEFINE k == FreeIndex(size)
           g == Got(size, b)
           gl == Popped(size)
<1>1. k \in Lists /\ size <= Class[k] /\ size <= Limit /\ ~(size > Limit) /\ free_list[k] # <<>>
  BY SizeSound, IndexFits DEF Reuse
<1>2. g = Head(free_list[k])
  BY <1>1 DEF Got
<1>3. gl = [free_list EXCEPT ![k] = Tail(free_list[k])]
  BY <1>1 DEF Popped
<1> HIDE DEF k, g, gl
<1>4. free_list \in [Lists -> Seq(Chunks)] /\ SoundLists(free_list, DOMAIN live)
  BY DEF AllocInv, Types
<1>5. Popping(free_list, k, g, gl)
  BY <1>1, <1>2, <1>3, <1>4 DEF Popping
<1>6. gl \in [Lists -> Seq(Chunks)]
  <2>1. Tail(free_list[k]) \in Seq(Chunks)
    BY <1>1, <1>4, HeadTailProperties
  <2>2. QED
    BY <1>3, <1>4, <2>1
<1>7. /\ SoundLists(gl, DOMAIN live \cup {g})
      /\ g \in Chunks /\ ~g.external /\ g.size = Class[k] /\ g \notin DOMAIN live
      /\ \A c : c \in AllListed(free_list) <=> c \in AllListed(gl) \/ c = g
  <2>1. k \in Lists
    BY <1>1
  <2>2. \A c : c \in AllListed(free_list) <=> c \in AllListed(gl) \/ c = g
    BY <1>4, <1>5, <2>1, PopListed
  <2>3. /\ SoundLists(gl, DOMAIN live \cup {g})
        /\ g \in Chunks /\ ~g.external /\ g.size = Class[k] /\ g \notin DOMAIN live
    BY <1>4, <1>5, <2>1, PopSound
  <2>4. QED
    BY <2>2, <2>3
<1>8. Known \cup {g} = Known /\ Known \cup {g} = (DOMAIN live \cup {g}) \cup AllListed(gl)
  BY <1>7, KnownIs
<1>9. blocks' = blocks /\ heap' = heap /\ next_block_size' = next_block_size
  BY DEF Reuse
<1>10. \A c \in Known : EndsWith(g, size)[c] = Ends[c]
  <2>1. EndAs(g, size) = EndOf(g)
    BY <1>7 DEF EndAs, EndOf
  <2>2. QED
    BY <1>8, <2>1 DEF EndsWith, Ends
<1>11. LayoutOf(heap, Known, EndsWith(g, size))
  BY <1>10, LayoutSame DEF AllocInv, Layout
<1>12. Supplied(size, g, gl)
  BY <1>1, <1>6, <1>7, <1>8, <1>9, <1>11 DEF Supplied, AllocInv, Types, ExternalSound, Linked
<1>13. QED
  BY <1>12 DEF g, gl

(* A chunk that no list holds leaves the lists as they are.                *)
LEMMA FreshLists ==
  ASSUME AllocInv, NEW g \in Chunks, g \notin Known
  PROVE  /\ free_list \in [Lists -> Seq(Chunks)] /\ SoundLists(free_list, DOMAIN live \cup {g})
         /\ Known \cup {g} = (DOMAIN live \cup {g}) \cup AllListed(free_list)
         /\ g \notin DOMAIN live
<1>1. Known = DOMAIN live \cup AllListed(free_list)
  BY KnownIs
<1>2. SoundLists(free_list, DOMAIN live)
  BY DEF AllocInv
<1>3. g \notin AllListed(free_list) /\ g \notin DOMAIN live
  BY <1>1
<1>4. SoundLists(free_list, DOMAIN live \cup {g})
  BY <1>2, <1>3, FreshSound
<1>5. Known \cup {g} = (DOMAIN live \cup {g}) \cup AllListed(free_list)
  BY <1>1
<1>6. QED
  BY <1>3, <1>4, <1>5 DEF AllocInv, Types

(* alloc_set_alloc_chunk_from_block: the next chunk of the head block.     *)
LEMMA SupplyCarve ==
  ASSUME AllocInv, NEW size \in Sizes, NEW b \in Blocks, Carve(size)
  PROVE  Supplied(size, Got(size, b), Popped(size))
<1> DEFINE k == FreeIndex(size)
           s == Class[k]
           n == heap[blocks].freeptr + s + ChunkHdr
           g == Got(size, b)
           gl == Popped(size)
<1>1. /\ k \in Lists /\ size <= s /\ size <= Limit /\ ~(size > Limit) /\ free_list[k] = <<>>
      /\ Fits(s)
  BY SizeSound, IndexFits DEF Carve
<1>2. g = Chunk(blocks, heap[blocks].freeptr, s) /\ gl = free_list
  BY <1>1 DEF Got, Popped
<1>3. /\ heap' = [heap EXCEPT ![blocks].freeptr = n]
      /\ blocks' = blocks /\ next_block_size' = next_block_size
  BY DEF Carve
<1>4. /\ size \in Nat \ {0} /\ ChunkHdr \in Nat \ {0} /\ BlockHdr \in Nat /\ s \in Nat \ {0}
  BY <1>1, SizeSound
<1>5. /\ DOMAIN heap \subseteq Blocks /\ heap \in [DOMAIN heap -> BlockRecs]
      /\ blocks \in DOMAIN heap /\ Keeper \in DOMAIN heap /\ next_block_size \in Nat
      /\ heap[blocks].freeptr \in Nat /\ heap[blocks].size \in Nat
  BY DEF AllocInv, Types, BlockRecs
<1>6. n \in Nat /\ n <= heap[blocks].size /\ heap[blocks].freeptr < n
  BY <1>1, <1>4, <1>5 DEF Fits
<1>7. /\ g \in Chunks /\ ~g.external /\ g.size = s /\ g.block = blocks
      /\ g.off = heap[blocks].freeptr /\ EndAs(g, size) = n
  BY <1>2, <1>4, <1>5 DEF Chunk, Chunks, EndAs
<1> HIDE DEF k, s, n, g, gl
<1>8. /\ heap' \in [DOMAIN heap -> BlockRecs] /\ DOMAIN heap' = DOMAIN heap
      /\ heap'[blocks].freeptr = n
      /\ \A d \in DOMAIN heap : /\ heap'[d].size = heap[d].size /\ heap'[d].next = heap[d].next
                                /\ heap'[d].pres = heap[d].pres
                                /\ (d # blocks => heap'[d].freeptr = heap[d].freeptr)
  BY <1>3, <1>5, <1>6, SetFreeIs
<1>9. LayoutOf(heap, Known, Ends)
  BY DEF AllocInv, Layout
<1>10. g \notin Known
  BY <1>7, <1>9, NotKnown
<1>11. /\ free_list \in [Lists -> Seq(Chunks)] /\ SoundLists(free_list, DOMAIN live \cup {g})
       /\ Known \cup {g} = (DOMAIN live \cup {g}) \cup AllListed(free_list)
       /\ g \notin DOMAIN live
  BY <1>7, <1>10, FreshLists
<1>12. LayoutOf(heap', Known \cup {g}, EndsWith(g, size))
  <2>1. (\A c \in Known : EndsWith(g, size)[c] = Ends[c]) /\ EndsWith(g, size)[g] = n
    BY <1>7, <1>10 DEF EndsWith, Ends
  <2>2. DOMAIN heap' = DOMAIN heap \cup {g.block}
    BY <1>5, <1>7, <1>8
  <2>3. /\ heap'[g.block].freeptr = n /\ heap'[g.block].size = heap[blocks].size
        /\ \A d \in DOMAIN heap : d # g.block =>
             heap'[d].freeptr = heap[d].freeptr /\ heap'[d].size = heap[d].size
    BY <1>5, <1>7, <1>8
  <2> DEFINE f == EndsWith(g, size)
  <2> HIDE DEF f
  <2>4. (\A c \in Known : f[c] = Ends[c]) /\ f[g] = heap'[g.block].freeptr
    BY <2>1, <2>3 DEF f
  <2>5. /\ g.block \in DOMAIN heap /\ g.off = heap[g.block].freeptr
        /\ heap'[g.block].freeptr \in Nat /\ heap'[g.block].size \in Nat
        /\ heap'[g.block].freeptr <= heap'[g.block].size /\ g.off < heap'[g.block].freeptr
    BY <1>5, <1>6, <1>7, <2>3
  <2>6. LayoutOf(heap', Known \cup {g}, f)
    BY <1>7, <1>9, <2>2, <2>3, <2>4, <2>5, LayoutAdd
  <2>7. QED
    BY <2>6 DEF f
<1>13. LinkedBy(heap', blocks)
  BY <1>8, LinkSame DEF AllocInv, Linked
<1>14. \A c \in DOMAIN live : c.external =>
         c.block # blocks' /\ heap'[c.block].freeptr = heap[c.block].freeptr
  <2>1. ASSUME NEW c \in DOMAIN live, c.external
        PROVE  c.block # blocks /\ c.block \in DOMAIN heap
    BY <2>1, KnownIs DEF AllocInv, ExternalSound, Layout, LayoutOf
  <2>2. QED
    BY <1>3, <1>8, <2>1
<1>15. size <= g.size /\ \E i \in Lists : g.size = Class[i]
  BY <1>1, <1>7 DEF s
<1>16. Supplied(size, g, gl)
  <2>1. gl \in [Lists -> Seq(Chunks)] /\ SoundLists(gl, DOMAIN live \cup {g})
        /\ Known \cup {g} = (DOMAIN live \cup {g}) \cup AllListed(gl)
    BY <1>2, <1>11
  <2>2. /\ DOMAIN heap' \subseteq Blocks /\ heap' \in [DOMAIN heap' -> BlockRecs]
        /\ DOMAIN heap \subseteq DOMAIN heap' /\ blocks' \in DOMAIN heap' /\ next_block_size' \in Nat
    BY <1>3, <1>5, <1>8
  <2>3. LinkedBy(heap', blocks')
    BY <1>3, <1>13
  <2>4. QED
    BY <1>7, <1>11, <1>12, <1>14, <1>15, <2>1, <2>2, <2>3 DEF Supplied
<1>17. QED
  BY <1>16 DEF g, gl

(* alloc_set_alloc_new_block: the first chunk of a new head block.         *)
LEMMA SupplyNewBlock ==
  ASSUME AllocInv, NEW size \in Sizes, NEW b \in Blocks, NewBlock(size, b)
  PROVE  Supplied(size, Got(size, b), Popped(size))
<1> DEFINE k == FreeIndex(size)
           s == Class[k]
           need == s + BlockHdr + ChunkHdr
           r == [size |-> IF next_block_size < need THEN need ELSE next_block_size,
                 freeptr |-> need, next |-> blocks, pres |-> Null]
           h == SetPres(heap, blocks, b)
           g == Got(size, b)
           gl == Popped(size)
<1>1. /\ k \in Lists /\ size <= s /\ size <= Limit /\ ~(size > Limit) /\ free_list[k] = <<>>
      /\ ~Fits(s)
  BY SizeSound, IndexFits DEF NewBlock
<1>2. g = Chunk(b, BlockHdr, s) /\ gl = free_list
  BY <1>1 DEF Got, Popped
<1>3. /\ b \notin DOMAIN heap /\ heap' = With(h, b, r) /\ blocks' = b
      /\ next_block_size' = IF next_block_size > MaxBlock \div 2 THEN MaxBlock ELSE next_block_size * 2
  BY DEF NewBlock
<1>4. /\ size \in Nat \ {0} /\ ChunkHdr \in Nat \ {0} /\ BlockHdr \in Nat /\ s \in Nat \ {0}
  BY <1>1, SizeSound
<1>5. /\ DOMAIN heap \subseteq Blocks /\ heap \in [DOMAIN heap -> BlockRecs]
      /\ blocks \in DOMAIN heap /\ Keeper \in DOMAIN heap /\ next_block_size \in Nat
  BY DEF AllocInv, Types
<1>6. next_block_size' \in Nat
  BY <1>3, <1>5, AllocAssumption
<1>7. need \in Nat /\ BlockHdr < need
  BY <1>4
<1>8. /\ g \in Chunks /\ ~g.external /\ g.size = s /\ g.block = b
      /\ g.off = BlockHdr /\ EndAs(g, size) = need
  BY <1>2, <1>4 DEF Chunk, Chunks, EndAs
<1>9. /\ r \in BlockRecs /\ r.freeptr = need /\ r.size \in Nat /\ need <= r.size
      /\ r.next = blocks /\ r.pres = Null
  BY <1>5, <1>7 DEF BlockRecs, Pointers
<1> HIDE DEF k, s, need, r, h, g, gl
<1>10. /\ h \in [DOMAIN heap -> BlockRecs] /\ DOMAIN h = DOMAIN heap
       /\ \A d \in DOMAIN heap : /\ h[d].size = heap[d].size /\ h[d].freeptr = heap[d].freeptr
                                 /\ h[d].next = heap[d].next
                                 /\ h[d].pres = IF d = blocks THEN b ELSE heap[d].pres
  <2>1. b \in Pointers /\ blocks \in DOMAIN heap \cup {Null}
    BY <1>5 DEF Pointers
  <2> DEFINE D == DOMAIN heap
  <2>2. D \subseteq Blocks /\ heap \in [D -> BlockRecs] /\ blocks \in D \cup {Null}
    BY <1>5, <2>1
  <2> HIDE DEF D
  <2>3. /\ h \in [D -> BlockRecs] /\ DOMAIN h = D
        /\ \A d \in D : /\ h[d].size = heap[d].size /\ h[d].freeptr = heap[d].freeptr
                         /\ h[d].next = heap[d].next
                         /\ h[d].pres = IF d = blocks THEN b ELSE heap[d].pres
    BY <2>1, <2>2, SetPresIs DEF h
  <2>4. QED
    BY <2>3 DEF D
<1>11. /\ heap' \in [DOMAIN heap \cup {b} -> BlockRecs] /\ DOMAIN heap' = DOMAIN heap \cup {b}
       /\ heap'[b] = r /\ \A d \in DOMAIN heap : heap'[d] = h[d]
  <2>1. h \in [DOMAIN heap -> BlockRecs] /\ DOMAIN h = DOMAIN heap /\ r \in BlockRecs
    BY <1>9, <1>10
  <2>2. QED
    BY <1>3, <2>1 DEF With
<1>12. LayoutOf(heap, Known, Ends)
  BY DEF AllocInv, Layout
<1>13. g \notin Known
  BY <1>3, <1>8, <1>12, NotKnown
<1>14. /\ free_list \in [Lists -> Seq(Chunks)] /\ SoundLists(free_list, DOMAIN live \cup {g})
       /\ Known \cup {g} = (DOMAIN live \cup {g}) \cup AllListed(free_list)
       /\ g \notin DOMAIN live
  BY <1>8, <1>13, FreshLists
<1>15. LayoutOf(heap', Known \cup {g}, EndsWith(g, size))
  <2> DEFINE f == EndsWith(g, size)
  <2>1. (\A c \in Known : f[c] = Ends[c]) /\ f[g] = need
    BY <1>8, <1>13 DEF EndsWith, Ends
  <2> HIDE DEF f
  <2>2. /\ DOMAIN heap' = DOMAIN heap \cup {g.block} /\ g.block \notin DOMAIN heap
        /\ heap'[g.block].freeptr = need /\ heap'[g.block].size = r.size
        /\ \A d \in DOMAIN heap : d # g.block =>
             heap'[d].freeptr = heap[d].freeptr /\ heap'[d].size = heap[d].size
    BY <1>3, <1>8, <1>9, <1>10, <1>11
  <2>3. /\ heap'[g.block].freeptr \in Nat /\ heap'[g.block].size \in Nat
        /\ heap'[g.block].freeptr <= heap'[g.block].size /\ g.off < heap'[g.block].freeptr
    BY <1>7, <1>8, <1>9, <2>2
  <2>4. f[g] = heap'[g.block].freeptr
    BY <2>1, <2>2
  <2>5. LayoutOf(heap', Known \cup {g}, f)
    BY <1>8, <1>12, <2>1, <2>2, <2>3, <2>4, LayoutAdd
  <2>6. QED
    BY <2>5 DEF f
<1>16. LinkedBy(heap', b)
  <2>1. LinkedBy(heap, blocks)
    BY DEF AllocInv, Linked
  <2>2. NewHead(heap, blocks, b, heap')
    BY <1>9, <1>10, <1>11 DEF NewHead
  <2>3. QED
    BY <1>3, <1>5, <2>1, <2>2, LinkNew
<1>17. \A c \in DOMAIN live : c.external =>
         c.block # blocks' /\ heap'[c.block].freeptr = heap[c.block].freeptr
  <2>1. ASSUME NEW c \in DOMAIN live PROVE c.block \in DOMAIN heap
    BY <2>1, KnownIs DEF AllocInv, Layout, LayoutOf
  <2>2. QED
    BY <1>3, <1>10, <1>11, <2>1
<1>18. size <= g.size /\ \E i \in Lists : g.size = Class[i]
  BY <1>1, <1>8 DEF s
<1>19. Supplied(size, g, gl)
  <2>1. gl \in [Lists -> Seq(Chunks)] /\ SoundLists(gl, DOMAIN live \cup {g})
        /\ Known \cup {g} = (DOMAIN live \cup {g}) \cup AllListed(gl)
    BY <1>2, <1>14
  <2>2. /\ DOMAIN heap' \subseteq Blocks /\ heap' \in [DOMAIN heap' -> BlockRecs]
        /\ DOMAIN heap \subseteq DOMAIN heap' /\ blocks' \in DOMAIN heap'
    BY <1>3, <1>5, <1>11
  <2>3. LinkedBy(heap', blocks')
    BY <1>3, <1>16
  <2>4. QED
    BY <1>6, <1>8, <1>14, <1>15, <1>17, <1>18, <2>1, <2>2, <2>3 DEF Supplied
<1>20. QED
  BY <1>19 DEF g, gl

(* alloc_set_alloc_large: a block of its own, second in the list.          *)
LEMMA SupplyLarge ==
  ASSUME AllocInv, NEW size \in Sizes, NEW b \in Blocks, Large(size, b)
  PROVE  Supplied(size, Got(size, b), Popped(size))
<1> DEFINE need == size + BlockHdr + ChunkHdr
           x == heap[blocks].next
           r == Whole(size, x, blocks)
           h == SetPres(heap, x, b)
           i == SetNext(h, blocks, b)
           g == Got(size, b)
           gl == Popped(size)
<1>1. size > Limit /\ ~(size <= Limit)
  BY SizeSound DEF Large
<1>2. g = External(b) /\ gl = free_list
  BY <1>1 DEF Got, Popped
<1>3. /\ b \notin DOMAIN heap /\ heap' = With(i, b, r) /\ blocks' = blocks
      /\ next_block_size' = next_block_size
  BY DEF Large
<1>4. size \in Nat \ {0} /\ ChunkHdr \in Nat \ {0} /\ BlockHdr \in Nat
  BY SizeSound
<1>5. /\ DOMAIN heap \subseteq Blocks /\ heap \in [DOMAIN heap -> BlockRecs]
      /\ blocks \in DOMAIN heap /\ Keeper \in DOMAIN heap /\ next_block_size \in Nat
  BY DEF AllocInv, Types
<1>6. LinkedBy(heap, blocks)
  BY DEF AllocInv, Linked
<1>7. need \in Nat /\ BlockHdr < need
  BY <1>4
<1>8. /\ g \in Chunks /\ g.external /\ g.block = b /\ g = External(g.block)
      /\ g.off = BlockHdr /\ EndAs(g, size) = need
  BY <1>2, <1>4 DEF External, Chunks, EndAs
<1>9. x \in (DOMAIN heap) \cup {Null} /\ x \in Pointers
  BY <1>5, <1>6, LinksSound DEF Pointers
<1>10. /\ r \in BlockRecs /\ r.freeptr = need /\ r.size = need /\ r.next = x /\ r.pres = blocks
  BY <1>5, <1>7, <1>9 DEF BlockRecs, Pointers, Whole
<1> HIDE DEF need, r, h, i, g, gl
<1>11. /\ h \in [DOMAIN heap -> BlockRecs] /\ DOMAIN h = DOMAIN heap
       /\ \A d \in DOMAIN heap : /\ h[d].size = heap[d].size /\ h[d].freeptr = heap[d].freeptr
                                 /\ h[d].next = heap[d].next
                                 /\ h[d].pres = IF d = x THEN b ELSE heap[d].pres
  <2> HIDE DEF x
  <2>1. b \in Pointers
    BY DEF Pointers
  <2>2. QED
    BY <1>5, <1>9, <2>1, SetPresIs DEF h
<1>12. /\ i \in [DOMAIN heap -> BlockRecs] /\ DOMAIN i = DOMAIN heap
       /\ \A d \in DOMAIN heap : /\ i[d].size = h[d].size /\ i[d].freeptr = h[d].freeptr
                                 /\ i[d].pres = h[d].pres
                                 /\ i[d].next = IF d = blocks THEN b ELSE h[d].next
  <2>1. h \in [DOMAIN heap -> BlockRecs] /\ b \in Pointers /\ blocks \in (DOMAIN heap) \cup {Null}
    BY <1>5, <1>11 DEF Pointers
  <2> DEFINE D == DOMAIN heap
  <2> HIDE DEF D
  <2>2. D \subseteq Blocks /\ h \in [D -> BlockRecs] /\ b \in Pointers /\ blocks \in D \cup {Null}
    BY <1>5, <2>1 DEF D
  <2>3. /\ i \in [D -> BlockRecs] /\ DOMAIN i = D
        /\ \A d \in D : /\ i[d].size = h[d].size /\ i[d].freeptr = h[d].freeptr
                        /\ i[d].pres = h[d].pres
                        /\ i[d].next = IF d = blocks THEN b ELSE h[d].next
    BY <2>2, SetNextIs DEF i
  <2>4. QED
    BY <2>3 DEF D
<1>13. /\ heap' \in [DOMAIN heap \cup {b} -> BlockRecs] /\ DOMAIN heap' = DOMAIN heap \cup {b}
       /\ heap'[b] = r /\ \A d \in DOMAIN heap : heap'[d] = i[d]
  <2>1. i \in [DOMAIN heap -> BlockRecs] /\ DOMAIN i = DOMAIN heap /\ r \in BlockRecs
    BY <1>10, <1>12
  <2>2. QED
    BY <1>3, <2>1 DEF With
<1>14. LayoutOf(heap, Known, Ends)
  BY DEF AllocInv, Layout
<1>15. g \notin Known
  BY <1>3, <1>8, <1>14, NotKnown
<1>16. /\ free_list \in [Lists -> Seq(Chunks)] /\ SoundLists(free_list, DOMAIN live \cup {g})
       /\ Known \cup {g} = (DOMAIN live \cup {g}) \cup AllListed(free_list)
       /\ g \notin DOMAIN live
  BY <1>8, <1>15, FreshLists
<1>17. LayoutOf(heap', Known \cup {g}, EndsWith(g, size))
  <2> DEFINE f == EndsWith(g, size)
  <2>1. (\A c \in Known : f[c] = Ends[c]) /\ f[g] = need
    BY <1>8, <1>15 DEF EndsWith, Ends
  <2> HIDE DEF f
  <2>2. /\ DOMAIN heap' = DOMAIN heap \cup {g.block} /\ g.block \notin DOMAIN heap
        /\ heap'[g.block].freeptr = need /\ heap'[g.block].size = need
        /\ \A d \in DOMAIN heap : d # g.block =>
             heap'[d].freeptr = heap[d].freeptr /\ heap'[d].size = heap[d].size
    BY <1>3, <1>8, <1>10, <1>11, <1>12, <1>13
  <2>3. /\ heap'[g.block].freeptr \in Nat /\ heap'[g.block].size \in Nat
        /\ heap'[g.block].freeptr <= heap'[g.block].size /\ g.off < heap'[g.block].freeptr
    BY <1>7, <1>8, <2>2
  <2>4. f[g] = heap'[g.block].freeptr
    BY <2>1, <2>2
  <2>5. LayoutOf(heap', Known \cup {g}, f)
    BY <1>8, <1>14, <2>1, <2>2, <2>3, <2>4, LayoutAdd
  <2>6. QED
    BY <2>5 DEF f
<1>18. LinkedBy(heap', blocks)
  <2>1. NewSecond(heap, blocks, b, heap')
    BY <1>10, <1>11, <1>12, <1>13 DEF NewSecond
  <2>2. QED
    BY <1>3, <1>5, <1>6, <2>1, LinkSecond
<1>19. \A c \in DOMAIN live : c.external =>
         c.block # blocks' /\ heap'[c.block].freeptr = heap[c.block].freeptr
  <2>1. ASSUME NEW c \in DOMAIN live, c.external PROVE c.block \in DOMAIN heap /\ c.block # blocks
    BY <2>1, KnownIs DEF AllocInv, Layout, LayoutOf, ExternalSound
  <2>2. QED
    BY <1>3, <1>11, <1>12, <1>13, <2>1
<1>20. g.block # blocks' /\ g.block # Keeper /\ EndAs(g, size) = heap'[g.block].freeptr
  BY <1>3, <1>5, <1>8, <1>10, <1>13
<1>21. Supplied(size, g, gl)
  <2>1. gl \in [Lists -> Seq(Chunks)] /\ SoundLists(gl, DOMAIN live \cup {g})
        /\ Known \cup {g} = (DOMAIN live \cup {g}) \cup AllListed(gl)
    BY <1>2, <1>16
  <2>2. /\ DOMAIN heap' \subseteq Blocks /\ heap' \in [DOMAIN heap' -> BlockRecs]
        /\ DOMAIN heap \subseteq DOMAIN heap' /\ blocks' \in DOMAIN heap' /\ next_block_size' \in Nat
    BY <1>3, <1>5, <1>13
  <2>3. LinkedBy(heap', blocks')
    BY <1>3, <1>18
  <2>4. QED
    BY <1>8, <1>16, <1>17, <1>19, <1>20, <2>1, <2>2, <2>3 DEF Supplied
<1>22. QED
  BY <1>21 DEF g, gl

(* Every call of alloc_set_alloc supplies a sound chunk.                   *)
LEMMA AllSupplied ==
  ASSUME AllocInv, NEW size \in Sizes, NEW b \in Blocks, Obtain(size, b)
  PROVE  Supplied(size, Got(size, b), Popped(size))
BY SupplyReuse, SupplyCarve, SupplyNewBlock, SupplyLarge DEF Obtain

-----------------------------------------------------------------------------
(* ---- every call keeps the invariant ------------------------------------- *)

(* External chunks are on no free list.                                    *)
LEMMA ExternalLive ==
  ASSUME SoundLists(free_list, DOMAIN live), NEW c \in Known, c.external
  PROVE  c \in DOMAIN live
<1>1. c \notin DOMAIN live => c \in AllListed(free_list)
  BY KnownIs
<1>2. c \notin AllListed(free_list)
  BY ListedIff DEF SoundLists
<1>3. QED
  BY <1>1, <1>2

(* The layout after a call, from the ends its chunks have then.            *)
LEMMA LayoutNext ==
  ASSUME NEW K, NEW e, LayoutOf(heap', K, e), Known' = K, \A c \in K : EndOf(c)' = e[c]
  PROVE  Layout'
<1>1. \A c \in K : Ends'[c] = e[c]
  BY DEF Ends
<1>2. LayoutOf(heap', K, Ends')
  BY <1>1, LayoutSame
<1>3. QED
  BY <1>2 DEF Layout, LayoutOf

(* smalloc, scalloc and sstrdup.                                           *)
LEMMA AllocStep ==
  ASSUME AllocInv, NEW size \in Sizes, NEW b \in Blocks, Alloc(size, b)
  PROVE  AllocInv'
<1>0. PICK g : g = Got(size, b)
  OBVIOUS
<1>1. PICK gl : gl = Popped(size)
  OBVIOUS
<1>2. /\ Supplied(size, g, gl) /\ free_list' = gl /\ live' = With(live, g, size)
  BY <1>0, <1>1, AllSupplied DEF Alloc
<1>3. size \in Nat \ {0}
  BY SizeSound
<1>4. DOMAIN live \subseteq Chunks /\ live \in [DOMAIN live -> Nat \ {0}] /\ Keeper \in DOMAIN heap
  BY DEF AllocInv, Types
<1>5. /\ DOMAIN live' = DOMAIN live \cup {g} /\ live' \in [DOMAIN live' -> Nat \ {0}]
      /\ live'[g] = size /\ \A c \in DOMAIN live : c # g => live'[c] = live[c]
  BY <1>2, <1>3, <1>4 DEF With
<1>6. g \in Chunks /\ g \notin DOMAIN live
  BY <1>2 DEF Supplied
<1>7. Types'
  <2>1. /\ DOMAIN heap' \subseteq Blocks /\ heap' \in [DOMAIN heap' -> BlockRecs]
        /\ DOMAIN heap \subseteq DOMAIN heap' /\ blocks' \in DOMAIN heap' /\ next_block_size' \in Nat
        /\ free_list' \in [Lists -> Seq(Chunks)]
    BY <1>2 DEF Supplied
  <2>2. DOMAIN live' \subseteq Chunks
    BY <1>4, <1>5, <1>6
  <2>3. QED
    BY <1>4, <1>5, <2>1, <2>2 DEF Types
<1>8. Known' = Known \cup {g}
  <2>1. Known' = DOMAIN live' \cup AllListed(free_list')
    BY DEF Known, Listed, AllListed
  <2>2. Known \cup {g} = (DOMAIN live \cup {g}) \cup AllListed(gl)
    BY <1>2 DEF Supplied
  <2>3. QED
    BY <1>2, <1>5, <2>1, <2>2
<1>9. Layout'
  <2> DEFINE K == Known \cup {g}
             e == EndsWith(g, size)
  <2>1. ASSUME NEW c \in K PROVE EndOf(c)' = e[c]
    <3>1. CASE c = g
      BY <1>5, <3>1 DEF EndOf, EndsWith, EndAs
    <3>2. CASE c # g
      <4>1. c.external => c \in DOMAIN live
        BY <3>2, ExternalLive DEF AllocInv
      <4>2. QED
        BY <1>5, <3>2, <4>1 DEF EndOf, EndsWith
    <3>3. QED
      BY <3>1, <3>2
  <2>2. LayoutOf(heap', K, e)
    BY <1>2 DEF Supplied
  <2> HIDE DEF e
  <2>3. QED
    BY <1>8, <2>1, <2>2, LayoutNext
<1>10. SizedSound'
  <2>1. ~g.external => size <= g.size /\ \E i \in Lists : g.size = Class[i]
    BY <1>2 DEF Supplied
  <2>2. QED
    BY <1>5, <2>1 DEF SizedSound, AllocInv
<1>11. ExternalSound'
  <2>1. ASSUME NEW c \in DOMAIN live', c.external
        PROVE  /\ c = External(c.block) /\ c.block # blocks' /\ c.block # Keeper
               /\ EndOf(c)' = heap'[c.block].freeptr
    <3>1. CASE c = g
      <4>1. /\ c = External(c.block) /\ c.block # blocks' /\ c.block # Keeper
            /\ EndAs(c, size) = heap'[c.block].freeptr
        BY <1>2, <2>1, <3>1 DEF Supplied
      <4>2. EndOf(c)' = EndAs(c, size)
        BY <1>5, <3>1 DEF EndOf, EndAs
      <4>3. QED
        BY <4>1, <4>2
    <3>2. CASE c # g
      <4>1. c \in DOMAIN live
        BY <1>5, <3>2
      <4>2. /\ c = External(c.block) /\ c.block # Keeper /\ EndOf(c) = heap[c.block].freeptr
        BY <2>1, <4>1 DEF AllocInv, ExternalSound
      <4>3. c.block # blocks' /\ heap'[c.block].freeptr = heap[c.block].freeptr
        BY <1>2, <2>1, <4>1 DEF Supplied
      <4>4. EndOf(c)' = EndOf(c)
        BY <1>5, <3>2, <4>1 DEF EndOf
      <4>5. QED
        BY <4>2, <4>3, <4>4
    <3>3. QED
      BY <3>1, <3>2
  <2>2. QED
    BY <2>1 DEF ExternalSound
<1>12. SoundLists(free_list', DOMAIN live')
  BY <1>2, <1>5 DEF Supplied
<1>13. LinkedBy(heap', blocks')
  BY <1>2 DEF Supplied
<1>14. QED
  BY <1>7, <1>9, <1>10, <1>11, <1>12, <1>13 DEF AllocInv, Linked, SoundLists, LinkedBy, Order

(* alloc_set_free of a chunk of a size class puts it in front of the list  *)
(* of its class.                                                           *)
LEMMA PushedIs ==
  ASSUME NEW fl \in [Lists -> Seq(Chunks)], NEW c \in Chunks, NEW k \in Lists, c.size = Class[k],
         NEW gl, gl = Pushed(fl, c)
  PROVE  gl \in [Lists -> Seq(Chunks)] /\ Pushing(fl, k, c, gl)
<1> DEFINE t == <<c>> \o fl[k]
<1>1. gl = [fl EXCEPT ![k] = t]
  BY IndexOfClass DEF Pushed
<1>2. t \in Seq(Chunks)
  BY InFront
<1> HIDE DEF t
<1>3. gl \in [Lists -> Seq(Chunks)] /\ gl[k] = t /\ \A i \in Lists : i # k => gl[i] = fl[i]
  BY <1>1, <1>2
<1>4. QED
  BY <1>3 DEF t, Pushing

(* sfree of a chunk of a size class.                                       *)
LEMMA FreeChunkStep ==
  ASSUME AllocInv, NEW c \in DOMAIN live, FreeChunk(c)
  PROVE  AllocInv'
<1>0. PICK gl : gl = Pushed(free_list, c)
  OBVIOUS
<1>1. /\ ~c.external /\ free_list' = gl /\ live' = Without(live, c)
      /\ blocks' = blocks /\ heap' = heap /\ next_block_size' = next_block_size
  BY <1>0 DEF FreeChunk
<1>2. /\ free_list \in [Lists -> Seq(Chunks)] /\ SoundLists(free_list, DOMAIN live)
      /\ DOMAIN live \subseteq Chunks /\ live \in [DOMAIN live -> Nat \ {0}] /\ c \in Chunks
  BY DEF AllocInv, Types
<1>3. PICK k \in Lists : c.size = Class[k]
  BY <1>1 DEF AllocInv, SizedSound
<1>4. gl \in [Lists -> Seq(Chunks)] /\ Pushing(free_list, k, c, gl)
  BY <1>0, <1>2, <1>3, PushedIs
<1>5. /\ DOMAIN live' = DOMAIN live \ {c} /\ live' \in [DOMAIN live' -> Nat \ {0}]
      /\ \A d \in DOMAIN live' : live'[d] = live[d]
  BY <1>1, <1>2 DEF Without
<1>6. SoundLists(free_list', DOMAIN live')
  <2>1. SoundLists(gl, DOMAIN live \ {c})
    BY <1>1, <1>2, <1>3, <1>4, PushSound
  <2>2. QED
    BY <1>1, <1>5, <2>1
<1>7. Known' = Known
  <2>1. Known' = DOMAIN live' \cup AllListed(free_list')
    BY DEF Known, Listed, AllListed
  <2>2. \A d : d \in AllListed(gl) <=> d \in AllListed(free_list) \/ d = c
    BY <1>2, <1>3, <1>4, PushListed
  <2>3. QED
    BY <1>1, <1>5, <2>1, <2>2, KnownIs
<1>8. \A d \in Known : EndOf(d)' = EndOf(d)
  <2>1. ASSUME NEW d \in Known PROVE EndOf(d)' = EndOf(d)
    <3>1. d.external => d \in DOMAIN live'
      BY <1>1, <1>2, <1>5, ExternalLive
    <3>2. QED
      BY <1>5, <3>1 DEF EndOf
  <2>2. QED
    BY <2>1
<1>9. Layout'
  <2> DEFINE e == Ends
  <2>1. LayoutOf(heap', Known, e)
    BY <1>1 DEF AllocInv, Layout
  <2>2. \A d \in Known : EndOf(d)' = e[d]
    BY <1>8 DEF Ends
  <2> HIDE DEF e
  <2>3. QED
    BY <1>7, <2>1, <2>2, LayoutNext
<1>10. Types'
  BY <1>1, <1>2, <1>4, <1>5 DEF AllocInv, Types
<1>11. SizedSound'
  BY <1>5 DEF AllocInv, SizedSound
<1>12. ExternalSound'
  <2>1. ASSUME NEW d \in DOMAIN live', d.external
        PROVE  /\ d = External(d.block) /\ d.block # blocks' /\ d.block # Keeper
               /\ EndOf(d)' = heap'[d.block].freeptr
    <3>1. EndOf(d)' = EndOf(d) /\ d \in DOMAIN live
      BY <1>5, <1>8, KnownIs
    <3>2. QED
      BY <1>1, <2>1, <3>1 DEF AllocInv, ExternalSound
  <2>2. QED
    BY <2>1 DEF ExternalSound
<1>13. LinkedBy(heap', blocks')
  BY <1>1 DEF AllocInv, Linked
<1>14. QED
  BY <1>6, <1>9, <1>10, <1>11, <1>12, <1>13 DEF AllocInv, Linked, SoundLists, LinkedBy, Order

(* srealloc that moves a chunk: alloc, copy, free.                         *)
LEMMA ReallocMoveStep ==
  ASSUME AllocInv, NEW c \in DOMAIN live, NEW size \in Sizes, NEW b \in Blocks,
         ReallocMove(c, size, b)
  PROVE  AllocInv'
<1>0. PICK g : g = Got(size, b)
  OBVIOUS
<1>1. PICK fl : fl = Popped(size)
  OBVIOUS
<1>2. PICK gl : gl = Pushed(fl, c)
  OBVIOUS
<1>3. /\ ~c.external /\ Supplied(size, g, fl) /\ free_list' = gl
      /\ live' = With(Without(live, c), g, size)
  BY <1>0, <1>1, <1>2, AllSupplied DEF ReallocMove
<1>4. size \in Nat \ {0}
  BY SizeSound
<1>5. /\ DOMAIN live \subseteq Chunks /\ live \in [DOMAIN live -> Nat \ {0}] /\ c \in Chunks
      /\ Keeper \in DOMAIN heap
  BY DEF AllocInv, Types
<1>6. /\ g \in Chunks /\ g \notin DOMAIN live /\ fl \in [Lists -> Seq(Chunks)]
      /\ SoundLists(fl, DOMAIN live \cup {g})
      /\ Known \cup {g} = (DOMAIN live \cup {g}) \cup AllListed(fl)
  BY <1>3 DEF Supplied
<1>7. /\ DOMAIN live' = (DOMAIN live \cup {g}) \ {c} /\ live' \in [DOMAIN live' -> Nat \ {0}]
      /\ live'[g] = size /\ \A d \in DOMAIN live : d # c /\ d # g => live'[d] = live[d]
  <2> DEFINE l == Without(live, c)
  <2>1. /\ l \in [DOMAIN live \ {c} -> Nat \ {0}] /\ DOMAIN l = DOMAIN live \ {c}
        /\ \A d \in DOMAIN live \ {c} : l[d] = live[d]
    BY <1>5 DEF Without
  <2> HIDE DEF l
  <2>2. /\ DOMAIN live' = (DOMAIN live \ {c}) \cup {g} /\ live' \in [DOMAIN live' -> Nat \ {0}]
        /\ live'[g] = size /\ \A d \in DOMAIN live \ {c} : d # g => live'[d] = l[d]
    BY <1>3, <1>4, <2>1 DEF With, l
  <2>3. QED
    BY <1>6, <2>1, <2>2
<1>8. PICK k \in Lists : c.size = Class[k]
  BY <1>3 DEF AllocInv, SizedSound
<1>9. gl \in [Lists -> Seq(Chunks)] /\ Pushing(fl, k, c, gl)
  BY <1>2, <1>5, <1>6, <1>8, PushedIs
<1>10. SoundLists(free_list', DOMAIN live')
  <2> DEFINE D == DOMAIN live \cup {g}
  <2>1. SoundLists(fl, D) /\ c \in D
    BY <1>6
  <2> HIDE DEF D
  <2>2. SoundLists(gl, D \ {c})
    BY <1>3, <1>5, <1>6, <1>8, <1>9, <2>1, PushSound
  <2>3. QED
    BY <1>3, <1>7, <2>2 DEF D
<1>11. Known' = Known \cup {g}
  <2>1. Known' = DOMAIN live' \cup AllListed(free_list')
    BY DEF Known, Listed, AllListed
  <2>2. \A d : d \in AllListed(gl) <=> d \in AllListed(fl) \/ d = c
    BY <1>5, <1>6, <1>8, <1>9, PushListed
  <2>3. QED
    BY <1>3, <1>6, <1>7, <2>1, <2>2
<1>12. Layout'
  <2> DEFINE K == Known \cup {g}
             e == EndsWith(g, size)
  <2>1. ASSUME NEW d \in K PROVE EndOf(d)' = e[d]
    <3>1. CASE d = g
      BY <1>7, <3>1 DEF EndOf, EndsWith, EndAs
    <3>2. CASE d # g
      <4>1. d.external => d \in DOMAIN live /\ d # c
        BY <1>3, <3>2, ExternalLive DEF AllocInv
      <4>2. QED
        BY <1>7, <3>2, <4>1 DEF EndOf, EndsWith
    <3>3. QED
      BY <3>1, <3>2
  <2>2. LayoutOf(heap', K, e)
    BY <1>3 DEF Supplied
  <2> HIDE DEF e
  <2>3. QED
    BY <1>11, <2>1, <2>2, LayoutNext
<1>13. Types'
  <2>1. /\ DOMAIN heap' \subseteq Blocks /\ heap' \in [DOMAIN heap' -> BlockRecs]
        /\ DOMAIN heap \subseteq DOMAIN heap' /\ blocks' \in DOMAIN heap' /\ next_block_size' \in Nat
    BY <1>3 DEF Supplied
  <2>2. DOMAIN live' \subseteq Chunks
    BY <1>5, <1>6, <1>7
  <2>3. QED
    BY <1>3, <1>5, <1>7, <1>9, <2>1, <2>2 DEF Types
<1>14. SizedSound'
  <2>1. ~g.external => size <= g.size /\ \E i \in Lists : g.size = Class[i]
    BY <1>3 DEF Supplied
  <2>2. QED
    BY <1>7, <2>1 DEF SizedSound, AllocInv
<1>15. ExternalSound'
  <2>1. ASSUME NEW d \in DOMAIN live', d.external
        PROVE  /\ d = External(d.block) /\ d.block # blocks' /\ d.block # Keeper
               /\ EndOf(d)' = heap'[d.block].freeptr
    <3>1. CASE d = g
      <4>1. /\ d = External(d.block) /\ d.block # blocks' /\ d.block # Keeper
            /\ EndAs(d, size) = heap'[d.block].freeptr
        BY <1>3, <2>1, <3>1 DEF Supplied
      <4>2. EndOf(d)' = EndAs(d, size)
        BY <1>7, <3>1 DEF EndOf, EndAs
      <4>3. QED
        BY <4>1, <4>2
    <3>2. CASE d # g
      <4>1. d \in DOMAIN live /\ d # c
        BY <1>7, <3>2
      <4>2. /\ d = External(d.block) /\ d.block # Keeper /\ EndOf(d) = heap[d.block].freeptr
        BY <2>1, <4>1 DEF AllocInv, ExternalSound
      <4>3. d.block # blocks' /\ heap'[d.block].freeptr = heap[d.block].freeptr
        BY <1>3, <2>1, <4>1 DEF Supplied
      <4>4. EndOf(d)' = EndOf(d)
        BY <1>7, <3>2, <4>1 DEF EndOf
      <4>5. QED
        BY <4>2, <4>3, <4>4
    <3>3. QED
      BY <3>1, <3>2
  <2>2. QED
    BY <2>1 DEF ExternalSound
<1>16. LinkedBy(heap', blocks')
  BY <1>3 DEF Supplied
<1>17. QED
  BY <1>10, <1>12, <1>13, <1>14, <1>15, <1>16 DEF AllocInv, Linked, SoundLists, LinkedBy, Order

(* Fewer chunks in use: the lists stay sound.                              *)
LEMMA FewerSound ==
  ASSUME NEW fl, NEW D, SoundLists(fl, D), NEW c
  PROVE  SoundLists(fl, D \ {c})
BY DEF SoundLists

(* An external chunk: its block is in the list, and not first.             *)
LEMMA ExternalLinks ==
  ASSUME AllocInv, NEW c \in DOMAIN live, c.external
  PROVE  /\ c \in Known /\ c \in Chunks /\ c.block \in DOMAIN heap /\ c.block # blocks
         /\ c.block # Keeper /\ c = External(c.block) /\ c.off = BlockHdr
         /\ EndOf(c) = heap[c.block].freeptr /\ c \notin AllListed(free_list)
         /\ heap[c.block].next \in ((DOMAIN heap) \ {c.block}) \cup {Null}
         /\ heap[c.block].pres \in (DOMAIN heap) \ {c.block}
         /\ \A d \in DOMAIN live : d.external /\ d # c => d.block # c.block
<1>1. /\ c = External(c.block) /\ c.block # blocks /\ c.block # Keeper
      /\ EndOf(c) = heap[c.block].freeptr
      /\ \A d \in DOMAIN live : d.external => d = External(d.block)
  BY DEF AllocInv, ExternalSound
<1>2. c.off = BlockHdr
  BY <1>1 DEF External
<1>3. c \in Known /\ c \in Chunks
  BY KnownIs DEF AllocInv, Types
<1>4. c.block \in DOMAIN heap
  BY <1>3 DEF AllocInv, Layout, LayoutOf
<1>5. c \notin AllListed(free_list)
  BY ListedIff DEF AllocInv, SoundLists
<1>6. DOMAIN heap \subseteq Blocks /\ LinkedBy(heap, blocks)
  BY DEF AllocInv, Types, Linked
<1>7. /\ heap[c.block].next \in (DOMAIN heap) \cup {Null} /\ heap[c.block].next # c.block
      /\ heap[c.block].pres \in (DOMAIN heap) \cup {Null} /\ heap[c.block].pres # c.block
      /\ heap[c.block].pres # Null
  BY <1>1, <1>4, <1>6, LinksSound
<1>8. QED
  BY <1>1, <1>2, <1>3, <1>4, <1>5, <1>7

(* sfree of an external chunk.                                             *)
LEMMA FreeExternalStep ==
  ASSUME AllocInv, NEW c \in DOMAIN live, FreeExternal(c)
  PROVE  AllocInv'
<1>0. PICK x : x = c.block
  OBVIOUS
<1>1. PICK n : n = heap[x].next
  OBVIOUS
<1>2. PICK p : p = heap[x].pres
  OBVIOUS
<1> DEFINE D == DOMAIN heap
           h == SetNext(heap, p, n)
           i == SetPres(h, n, p)
<1>3. /\ c.external /\ heap' = Without(i, x) /\ live' = Without(live, c)
      /\ blocks' = (IF p = Null THEN n ELSE blocks)
      /\ free_list' = free_list /\ next_block_size' = next_block_size
  BY <1>0, <1>1, <1>2 DEF FreeExternal
<1>4. /\ c \in Known /\ c \in Chunks /\ x \in DOMAIN heap /\ x # blocks
      /\ x # Keeper /\ c.off = BlockHdr
      /\ EndOf(c) = heap[x].freeptr /\ c \notin AllListed(free_list)
      /\ n \in ((DOMAIN heap) \ {x}) \cup {Null} /\ p \in (DOMAIN heap) \ {x}
      /\ \A d \in DOMAIN live : d.external /\ d # c => d.block # x
  BY <1>0, <1>1, <1>2, <1>3, ExternalLinks
<1>5. /\ D \subseteq Blocks /\ heap \in [D -> BlockRecs] /\ blocks \in D /\ Keeper \in D
      /\ DOMAIN live \subseteq Chunks /\ live \in [DOMAIN live -> Nat \ {0}]
      /\ SoundLists(free_list, DOMAIN live)
  BY DEF AllocInv, Types
<1>6. n \in Pointers /\ p \in Pointers /\ n \in D \cup {Null} /\ p \in D \cup {Null} /\ p # Null
  BY <1>4, <1>5, AllocAssumption DEF Pointers
<1>7. blocks' = blocks
  BY <1>3, <1>6
<1> HIDE DEF D, h, i
<1>8. /\ h \in [D -> BlockRecs] /\ DOMAIN h = D
      /\ \A d \in D : /\ h[d].size = heap[d].size /\ h[d].freeptr = heap[d].freeptr
                      /\ h[d].pres = heap[d].pres
                      /\ h[d].next = IF d = p THEN n ELSE heap[d].next
  <2>1. D \subseteq Blocks /\ heap \in [D -> BlockRecs] /\ n \in Pointers /\ p \in D
    BY <1>5, <1>6
  <2>2. h \in [D -> BlockRecs] /\ DOMAIN h = D
    BY <2>1, SetNextIs DEF h
  <2>3. ASSUME NEW d \in D
        PROVE  /\ h[d].size = heap[d].size /\ h[d].freeptr = heap[d].freeptr
               /\ h[d].pres = heap[d].pres /\ h[d].next = IF d = p THEN n ELSE heap[d].next
    BY <2>1, SetNextIs DEF h
  <2>4. QED
    BY <2>2, <2>3
<1>9. /\ i \in [D -> BlockRecs]
      /\ \A d \in D : /\ i[d].size = h[d].size /\ i[d].freeptr = h[d].freeptr
                      /\ i[d].next = h[d].next
                      /\ i[d].pres = IF d = n THEN p ELSE h[d].pres
  <2>1. h \in [D -> BlockRecs]
    BY <1>8
  <2>2. QED
    BY <1>5, <1>6, <2>1, SetPresIs DEF i
<1>10. /\ DOMAIN heap' = D \ {x} /\ heap' \in [D \ {x} -> BlockRecs]
       /\ \A d \in D \ {x} : heap'[d] = i[d]
  <2>1. i \in [D -> BlockRecs] /\ DOMAIN i = D
    BY <1>9
  <2>2. QED
    BY <1>3, <2>1 DEF Without
<1>11. \A d \in D \ {x} :
         /\ heap'[d].size = heap[d].size /\ heap'[d].freeptr = heap[d].freeptr
         /\ heap'[d].next = IF d = p THEN n ELSE heap[d].next
         /\ heap'[d].pres = IF d = n THEN p ELSE heap[d].pres
  BY <1>8, <1>9, <1>10
<1>12. /\ DOMAIN live' = DOMAIN live \ {c} /\ live' \in [DOMAIN live' -> Nat \ {0}]
       /\ \A d \in DOMAIN live' : live'[d] = live[d]
  BY <1>3, <1>5 DEF Without
<1>13. SoundLists(free_list', DOMAIN live')
  BY <1>3, <1>5, <1>12, FewerSound
<1>14. Known' = Known \ {c}
  <2>1. Known' = DOMAIN live' \cup AllListed(free_list')
    BY DEF Known, Listed, AllListed
  <2>2. QED
    BY <1>3, <1>4, <1>12, <2>1, KnownIs
<1>15. \A d \in Known \ {c} : EndOf(d)' = EndOf(d)
  <2>1. ASSUME NEW d \in Known \ {c} PROVE EndOf(d)' = EndOf(d)
    <3>1. d.external => d \in DOMAIN live'
      BY <1>5, <1>12, ExternalLive
    <3>2. QED
      BY <1>12, <3>1 DEF EndOf
  <2>2. QED
    BY <2>1
<1>16. Layout'
  <2> DEFINE e == Ends
             K == Known \ {c}
  <2>1. LayoutOf(heap, Known, e) /\ e[c] = heap[c.block].freeptr
    BY <1>0, <1>4 DEF AllocInv, Layout, Ends
  <2>2. \A d \in K : EndOf(d)' = e[d]
    BY <1>15 DEF Ends
  <2> HIDE DEF e
  <2>3. /\ DOMAIN heap' = DOMAIN heap \ {c.block}
        /\ \A d \in DOMAIN heap' : heap'[d].freeptr = heap[d].freeptr /\ heap'[d].size = heap[d].size
    BY <1>0, <1>10, <1>11 DEF D
  <2>4. LayoutOf(heap', K, e)
    BY <1>4, <2>1, <2>3, LayoutDrop
  <2>5. QED
    BY <1>14, <2>2, <2>4, LayoutNext
<1>17. Types'
  BY <1>3, <1>4, <1>5, <1>7, <1>10, <1>12 DEF AllocInv, Types
<1>18. SizedSound'
  BY <1>12 DEF AllocInv, SizedSound
<1>19. ExternalSound'
  <2>1. ASSUME NEW d \in DOMAIN live', d.external
        PROVE  /\ d = External(d.block) /\ d.block # blocks' /\ d.block # Keeper
               /\ EndOf(d)' = heap'[d.block].freeptr
    <3>1. d \in DOMAIN live /\ d # c /\ d \in Known
      BY <1>12, KnownIs
    <3>2. EndOf(d)' = EndOf(d)
      BY <1>15, <3>1
    <3>3. /\ d = External(d.block) /\ d.block # blocks /\ d.block # Keeper
          /\ EndOf(d) = heap[d.block].freeptr /\ d.block \in D
      BY <2>1, <3>1, ExternalLinks DEF D
    <3>4. d.block # x
      BY <1>4, <2>1, <3>1
    <3>5. heap'[d.block].freeptr = heap[d.block].freeptr
      BY <1>11, <3>3, <3>4
    <3>6. QED
      BY <1>7, <3>2, <3>3, <3>5
  <2>2. QED
    BY <2>1 DEF ExternalSound
<1>20. LinkedBy(heap', blocks')
  <2>1. Dropped(heap, x, heap')
    BY <1>1, <1>2, <1>10, <1>11 DEF D, Dropped
  <2>2. LinkedBy(heap, blocks) /\ DOMAIN heap \subseteq Blocks
    BY <1>5 DEF AllocInv, Linked, D
  <2>3. LinkedBy(heap', blocks)
    BY <1>4, <2>1, <2>2, LinkDrop
  <2>4. QED
    BY <1>7, <2>3
<1>21. QED
  BY <1>13, <1>16, <1>17, <1>18, <1>19, <1>20 DEF AllocInv, Linked, SoundLists, LinkedBy, Order

(* srealloc within a chunk's class.                                        *)
LEMMA ReallocInPlaceStep ==
  ASSUME AllocInv, NEW c \in DOMAIN live, NEW size \in Sizes, ReallocInPlace(c, size)
  PROVE  AllocInv'
<1>1. /\ ~c.external /\ c.size >= size /\ live' = [live EXCEPT ![c] = size]
      /\ blocks' = blocks /\ heap' = heap /\ next_block_size' = next_block_size
      /\ free_list' = free_list
  BY DEF ReallocInPlace
<1>2. /\ DOMAIN live \subseteq Chunks /\ live \in [DOMAIN live -> Nat \ {0}]
      /\ SoundLists(free_list, DOMAIN live) /\ size \in Nat \ {0} /\ c.size \in Nat
  BY SizeSound DEF AllocInv, Types, Chunks
<1>3. /\ DOMAIN live' = DOMAIN live /\ live' \in [DOMAIN live' -> Nat \ {0}]
      /\ live'[c] = size /\ \A d \in DOMAIN live : d # c => live'[d] = live[d]
  BY <1>1, <1>2
<1>4. Known' = Known
  BY <1>1, <1>3 DEF Known, Listed
<1>5. \A d \in Known : EndOf(d)' = EndOf(d)
  <2>1. ASSUME NEW d \in Known PROVE EndOf(d)' = EndOf(d)
    <3>1. d.external => d \in DOMAIN live /\ d # c
      BY <1>1, <1>2, ExternalLive
    <3>2. QED
      BY <1>3, <3>1 DEF EndOf
  <2>2. QED
    BY <2>1
<1>6. Layout'
  <2> DEFINE e == Ends
  <2>1. LayoutOf(heap', Known, e)
    BY <1>1 DEF AllocInv, Layout
  <2>2. \A d \in Known : EndOf(d)' = e[d]
    BY <1>5 DEF Ends
  <2> HIDE DEF e
  <2>3. QED
    BY <1>4, <2>1, <2>2, LayoutNext
<1>7. Types'
  BY <1>1, <1>2, <1>3 DEF AllocInv, Types
<1>8. SizedSound'
  <2>1. size <= c.size
    BY <1>1, <1>2
  <2>2. ASSUME NEW d \in DOMAIN live', ~d.external
        PROVE  live'[d] <= d.size /\ \E i \in Lists : d.size = Class[i]
    BY <1>3, <2>1, <2>2 DEF AllocInv, SizedSound
  <2>3. QED
    BY <2>2 DEF SizedSound
<1>9. ExternalSound'
  <2>1. ASSUME NEW d \in DOMAIN live', d.external
        PROVE  /\ d = External(d.block) /\ d.block # blocks' /\ d.block # Keeper
               /\ EndOf(d)' = heap'[d.block].freeptr
    <3>1. EndOf(d)' = EndOf(d) /\ d \in DOMAIN live
      BY <1>3, <1>5, KnownIs
    <3>2. QED
      BY <1>1, <2>1, <3>1 DEF AllocInv, ExternalSound
  <2>2. QED
    BY <2>1 DEF ExternalSound
<1>10. SoundLists(free_list', DOMAIN live') /\ LinkedBy(heap', blocks')
  BY <1>1, <1>2, <1>3 DEF AllocInv, Linked
<1>11. QED
  BY <1>6, <1>7, <1>8, <1>9, <1>10 DEF AllocInv, Linked, SoundLists, LinkedBy, Order

(* srealloc of an external chunk: its block may move.                      *)
LEMMA ReallocExternalStep ==
  ASSUME AllocInv, NEW c \in DOMAIN live, NEW size \in Sizes, NEW b \in Blocks,
         ReallocExternal(c, size, b)
  PROVE  AllocInv'
<1>0. PICK x : x = c.block
  OBVIOUS
<1>1. PICK n : n = heap[x].next
  OBVIOUS
<1>2. PICK p : p = heap[x].pres
  OBVIOUS
<1>3. PICK g : g = External(b)
  OBVIOUS
<1> DEFINE need == size + BlockHdr + ChunkHdr
           r == Whole(size, n, p)
           h0 == Without(heap, x)
           D == ((DOMAIN heap) \ {x}) \cup {b}
           h1 == With(h0, b, r)
           h2 == SetNext(h1, p, b)
<1>4. /\ c.external /\ (b = x \/ b \notin DOMAIN heap) /\ heap' = SetPres(h2, n, b)
      /\ live' = With(Without(live, c), g, size)
      /\ blocks' = (IF p = Null THEN b ELSE blocks)
      /\ free_list' = free_list /\ next_block_size' = next_block_size
  BY <1>0, <1>1, <1>2, <1>3 DEF ReallocExternal
<1>5. /\ c \in Known /\ c \in Chunks /\ x \in DOMAIN heap /\ x # blocks
      /\ x # Keeper /\ c.off = BlockHdr /\ c = External(x)
      /\ EndOf(c) = heap[x].freeptr /\ c \notin AllListed(free_list)
      /\ n \in ((DOMAIN heap) \ {x}) \cup {Null} /\ p \in (DOMAIN heap) \ {x}
      /\ \A d \in DOMAIN live : d.external /\ d # c => d.block # x
  BY <1>0, <1>1, <1>2, <1>4, ExternalLinks
<1>6. /\ DOMAIN heap \subseteq Blocks /\ heap \in [DOMAIN heap -> BlockRecs]
      /\ blocks \in DOMAIN heap /\ Keeper \in DOMAIN heap
      /\ DOMAIN live \subseteq Chunks /\ live \in [DOMAIN live -> Nat \ {0}]
      /\ SoundLists(free_list, DOMAIN live)
  BY DEF AllocInv, Types
<1>7. /\ size \in Nat \ {0} /\ ChunkHdr \in Nat \ {0} /\ BlockHdr \in Nat
      /\ need \in Nat /\ BlockHdr < need
  BY SizeSound
<1>8. /\ D \subseteq Blocks /\ n \in Pointers /\ p \in Pointers /\ b \in Pointers
      /\ n \in D \cup {Null} /\ p \in D \cup {Null} /\ p # Null
      /\ b # n /\ b # p
  BY <1>4, <1>5, <1>6, AllocAssumption DEF Pointers
<1>9. blocks' = blocks
  BY <1>4, <1>8
<1>10. /\ r \in BlockRecs /\ r.freeptr = need /\ r.size = need /\ r.next = n /\ r.pres = p
  BY <1>7, <1>8 DEF BlockRecs, Whole
<1>11. /\ g \in Chunks /\ g.external /\ g.block = b /\ g = External(g.block)
       /\ g.off = BlockHdr /\ EndAs(g, size) = need
  BY <1>3, <1>7 DEF External, Chunks, EndAs
<1> HIDE DEF need, r, h0, h1, h2, D
<1>12. /\ h0 \in [(DOMAIN heap) \ {x} -> BlockRecs] /\ DOMAIN h0 = (DOMAIN heap) \ {x}
       /\ \A d \in (DOMAIN heap) \ {x} : h0[d] = heap[d]
  BY <1>6 DEF h0, Without
<1>13. /\ h1 \in [D -> BlockRecs] /\ h1[b] = r /\ \A d \in (DOMAIN heap) \ {x} : d # b => h1[d] = heap[d]
  <2>1. r \in BlockRecs
    BY <1>10
  <2>2. QED
    BY <1>12, <2>1 DEF h1, With, D
<1>14. /\ h2 \in [D -> BlockRecs] /\ DOMAIN h2 = D
       /\ \A d \in D : /\ h2[d].size = h1[d].size /\ h2[d].freeptr = h1[d].freeptr
                       /\ h2[d].pres = h1[d].pres
                       /\ h2[d].next = IF d = p THEN b ELSE h1[d].next
  <2>1. D \subseteq Blocks /\ h1 \in [D -> BlockRecs] /\ b \in Pointers /\ p \in D
    BY <1>8, <1>13
  <2>2. QED
    BY <2>1, SetNextIs DEF h2
<1>15. /\ heap' \in [D -> BlockRecs] /\ DOMAIN heap' = D
       /\ \A d \in D : /\ heap'[d].size = h2[d].size /\ heap'[d].freeptr = h2[d].freeptr
                       /\ heap'[d].next = h2[d].next
                       /\ heap'[d].pres = IF d = n THEN b ELSE h2[d].pres
  <2>1. D \subseteq Blocks /\ h2 \in [D -> BlockRecs] /\ b \in Pointers /\ n \in D \cup {Null}
    BY <1>8, <1>14
  <2>2. QED
    BY <1>4, <2>1, SetPresIs
<1>16. \A d \in (DOMAIN heap) \ {x} : d \in D /\ d # b
  BY <1>4, <1>5 DEF D
<1>17. \A d \in (DOMAIN heap) \ {x} :
         /\ heap'[d].size = heap[d].size /\ heap'[d].freeptr = heap[d].freeptr
         /\ heap'[d].next = IF d = p THEN b ELSE heap[d].next
         /\ heap'[d].pres = IF d = n THEN b ELSE heap[d].pres
  BY <1>13, <1>14, <1>15, <1>16
<1>18. /\ b \in D /\ heap'[b].size = need /\ heap'[b].freeptr = need
       /\ heap'[b].next = n /\ heap'[b].pres = p
  <2>1. b \in D
    BY DEF D
  <2>2. QED
    BY <1>8, <1>10, <1>13, <1>14, <1>15, <2>1
<1>19. /\ DOMAIN live' = (DOMAIN live \ {c}) \cup {g} /\ live' \in [DOMAIN live' -> Nat \ {0}]
       /\ live'[g] = size /\ \A d \in DOMAIN live : d # c /\ d # g => live'[d] = live[d]
  <2> DEFINE l == Without(live, c)
  <2>1. /\ l \in [DOMAIN live \ {c} -> Nat \ {0}] /\ DOMAIN l = DOMAIN live \ {c}
        /\ \A d \in DOMAIN live \ {c} : l[d] = live[d]
    BY <1>6 DEF Without
  <2> HIDE DEF l
  <2>2. /\ DOMAIN live' = (DOMAIN live \ {c}) \cup {g} /\ live' \in [DOMAIN live' -> Nat \ {0}]
        /\ live'[g] = size /\ \A d \in DOMAIN live \ {c} : d # g => live'[d] = l[d]
    BY <1>4, <1>7, <2>1 DEF With, l
  <2>3. QED
    BY <2>1, <2>2
<1>20. g \notin AllListed(free_list)
  BY <1>6, <1>11, ListedIff DEF SoundLists
<1>21. SoundLists(free_list', DOMAIN live')
  <2> DEFINE L == DOMAIN live \ {c}
  <2>1. SoundLists(free_list, L)
    BY <1>6, FewerSound
  <2> HIDE DEF L
  <2>2. SoundLists(free_list, L \cup {g})
    BY <1>20, <2>1, FreshSound
  <2>3. QED
    BY <1>4, <1>19, <2>2 DEF L
<1>22. Known' = (Known \ {c}) \cup {g}
  <2>1. Known' = DOMAIN live' \cup AllListed(free_list')
    BY DEF Known, Listed, AllListed
  <2>2. QED
    BY <1>4, <1>5, <1>19, <2>1, KnownIs
<1> DEFINE K0 == Known \ {c}
           e == [d \in K0 \cup {g} |-> IF d = g THEN need ELSE EndOf(d)]
<1>23. g \notin K0
  <2>1. ASSUME g \in K0 PROVE FALSE
    <3>1. g \in DOMAIN live /\ g # c /\ g.block \in DOMAIN heap
      BY <1>6, <1>11, <2>1, ExternalLive, ExternalLinks
    <3>2. g.block # x
      BY <1>5, <1>11, <3>1
    <3>3. QED
      BY <1>4, <1>11, <3>1, <3>2
  <2>2. QED
    BY <2>1
<1>24. ASSUME NEW d \in K0 \cup {g} PROVE EndOf(d)' = e[d]
  <2>1. CASE d = g
    <3>1. EndOf(d)' = EndAs(d, size)
      BY <1>19, <2>1 DEF EndOf, EndAs
    <3>2. QED
      BY <1>11, <2>1, <3>1
  <2>2. CASE d # g
    <3>1. d.external => d \in DOMAIN live /\ d # c
      BY <1>6, <2>2, ExternalLive
    <3>2. QED
      BY <1>19, <2>2, <3>1 DEF EndOf
  <2>3. QED
    BY <2>1, <2>2
<1>25. Layout'
  <2>1. LayoutOf(heap, Known, Ends) /\ Ends[c] = heap[c.block].freeptr
    BY <1>0, <1>5 DEF AllocInv, Layout, Ends
  <2>2. \A d \in K0 : e[d] = Ends[d]
    BY <1>23 DEF Ends
  <2>3. e[g] = need
    OBVIOUS
  <2> HIDE DEF e
  <2>4. /\ DOMAIN h0 = DOMAIN heap \ {c.block}
        /\ \A d \in DOMAIN h0 : h0[d].freeptr = heap[d].freeptr /\ h0[d].size = heap[d].size
    BY <1>0, <1>12
  <2>5. LayoutOf(h0, K0, e)
    <3> DEFINE e0 == Ends
    <3>1. LayoutOf(heap, Known, e0) /\ e0[c] = heap[c.block].freeptr /\ \A d \in K0 : e[d] = e0[d]
      BY <2>1, <2>2
    <3>2. c \in Known /\ c.off = BlockHdr
      BY <1>5
    <3> HIDE DEF e0
    <3>3. LayoutOf(h0, K0, e0)
      BY <2>4, <3>1, <3>2, LayoutDrop
    <3> HIDE DEF K0
    <3>4. QED
      BY <3>1, <3>3, LayoutSame
  <2> HIDE DEF K0
  <2>6. /\ DOMAIN heap' = DOMAIN h0 \cup {g.block} /\ g.block \notin DOMAIN h0
        /\ heap'[g.block].freeptr = need /\ heap'[g.block].size = need
        /\ \A d \in DOMAIN h0 : d # g.block =>
             heap'[d].freeptr = h0[d].freeptr /\ heap'[d].size = h0[d].size
    BY <1>4, <1>11, <1>12, <1>15, <1>17, <1>18 DEF D
  <2>7. /\ heap'[g.block].freeptr \in Nat /\ heap'[g.block].size \in Nat
        /\ heap'[g.block].freeptr <= heap'[g.block].size /\ g.off < heap'[g.block].freeptr
    BY <1>7, <1>11, <2>6
  <2>8. (\A d \in K0 : e[d] = e[d]) /\ e[g] = heap'[g.block].freeptr
    BY <2>3, <2>6
  <2>9. LayoutOf(heap', K0 \cup {g}, e)
    BY <1>11, <2>5, <2>6, <2>7, <2>8, LayoutAdd
  <2> DEFINE K == K0 \cup {g}
  <2>10. Known' = K /\ \A d \in K : EndOf(d)' = e[d]
    BY <1>22, <1>24 DEF K0
  <2> HIDE DEF K
  <2>11. LayoutOf(heap', K, e)
    BY <2>9 DEF K
  <2>12. QED
    BY <2>10, <2>11, LayoutNext
<1>26. Types'
  <2>1. DOMAIN heap' \subseteq Blocks /\ heap' \in [DOMAIN heap' -> BlockRecs]
    BY <1>8, <1>15
  <2>2. blocks' \in DOMAIN heap' /\ Keeper \in DOMAIN heap'
    BY <1>5, <1>6, <1>9, <1>15, <1>16
  <2>3. DOMAIN live' \subseteq Chunks
    BY <1>6, <1>11, <1>19
  <2>4. QED
    BY <1>4, <1>19, <2>1, <2>2, <2>3 DEF AllocInv, Types
<1>27. SizedSound'
  BY <1>11, <1>19 DEF AllocInv, SizedSound
<1>28. ExternalSound'
  <2>1. ASSUME NEW d \in DOMAIN live', d.external
        PROVE  /\ d = External(d.block) /\ d.block # blocks' /\ d.block # Keeper
               /\ EndOf(d)' = heap'[d.block].freeptr
    <3>1. CASE d = g
      <4>1. EndOf(d)' = need
        BY <1>24, <3>1
      <4>2. b # blocks /\ b # Keeper
        BY <1>4, <1>5, <1>6
      <4>3. QED
        BY <1>9, <1>11, <1>18, <3>1, <4>1, <4>2
    <3>2. CASE d # g
      <4>1. d \in DOMAIN live /\ d # c /\ d \in Known
        BY <1>19, <3>2, KnownIs
      <4>2. EndOf(d)' = EndOf(d)
        BY <1>24, <3>2, <4>1
      <4>3. /\ d = External(d.block) /\ d.block # blocks /\ d.block # Keeper
            /\ EndOf(d) = heap[d.block].freeptr /\ d.block \in DOMAIN heap
        BY <2>1, <4>1, ExternalLinks
      <4>4. d.block # x
        BY <1>5, <2>1, <4>1
      <4>5. heap'[d.block].freeptr = heap[d.block].freeptr
        BY <1>17, <4>3, <4>4
      <4>6. QED
        BY <1>9, <4>2, <4>3, <4>5
    <3>3. QED
      BY <3>1, <3>2
  <2>2. QED
    BY <2>1 DEF ExternalSound
<1>29. LinkedBy(heap', blocks')
  <2>1. Replaced(heap, x, b, heap')
    BY <1>1, <1>2, <1>15, <1>17, <1>18 DEF D, Replaced
  <2>2. LinkedBy(heap, blocks)
    BY DEF AllocInv, Linked
  <2>3. LinkedBy(heap', blocks)
    BY <1>4, <1>5, <1>6, <2>1, <2>2, LinkReplace
  <2>4. QED
    BY <1>9, <2>3
<1>30. QED
  BY <1>21, <1>25, <1>26, <1>27, <1>28, <1>29 DEF AllocInv, Linked, SoundLists, LinkedBy, Order

(* The keeper alone, with nothing carved off it.                           *)
LEMMA KeeperAlone ==
  ASSUME NEW h, NEW r \in BlockRecs, h = [b \in {Keeper} |-> r], r.freeptr = BlockHdr,
         BlockHdr <= r.size, r.next = Null, r.pres = Null, NEW e
  PROVE  LinkedBy(h, Keeper) /\ LayoutOf(h, {}, e)
<1>1. DOMAIN h = {Keeper} /\ h[Keeper] = r /\ BlockHdr \in Nat /\ r.size \in Nat
  BY AllocAssumption DEF BlockRecs
<1>2. LinkedBy(h, Keeper)
  <2> DEFINE m == 1
             s == [i \in 1..m |-> Keeper]
  <2>1. m \in Nat \ {0} /\ s \in [1..m -> DOMAIN h] /\ s[1] = Keeper /\ \A i \in 1..m : i = 1 /\ i = m
    BY <1>1
  <2> HIDE DEF s, m
  <2>2. Order(h, Keeper, m, s)
    BY <1>1, <2>1 DEF Order
  <2>3. QED
    BY <2>1, <2>2 DEF LinkedBy
<1>3. LayoutOf(h, {}, e)
  <2>1. \A b \in DOMAIN h : h[b].freeptr = BlockHdr
    BY <1>1
  <2>2. BlockHdr..(BlockHdr - 1) = {}
    BY <1>1
  <2>3. QED
    BY <1>1, <2>1, <2>2 DEF LayoutOf
<1>4. QED
  BY <1>2, <1>3

(* A context that holds no chunk satisfies the invariant: the state after  *)
(* alloc_set_memory_context_create and after alloc_set_reset.              *)
LEMMA EmptySound ==
  ASSUME NEW r \in BlockRecs, heap = [b \in {Keeper} |-> r], r.freeptr = BlockHdr,
         BlockHdr <= r.size, r.next = Null, r.pres = Null, blocks = Keeper,
         free_list = [i \in Lists |-> <<>>], live = [c \in {} |-> 0], next_block_size \in Nat
  PROVE  AllocInv
<1>1. DOMAIN heap = {Keeper} /\ heap \in [DOMAIN heap -> BlockRecs] /\ Keeper \in Blocks
  BY AllocAssumption
<1>2. DOMAIN live = {} /\ live \in [DOMAIN live -> Nat \ {0}]
  OBVIOUS
<1>3. /\ free_list \in [Lists -> Seq(Chunks)] /\ \A i \in Lists : DOMAIN free_list[i] = {}
  <2> DEFINE t == <<>>
  <2>1. t \in Seq(Chunks) /\ DOMAIN t = {}
    BY EmptySeq, LenProperties
  <2> HIDE DEF t
  <2>2. free_list = [i \in Lists |-> t]
    BY DEF t
  <2>3. QED
    BY <2>1, <2>2
<1>4. Known = {}
  BY <1>2, <1>3 DEF Known, Listed
<1>5. LinkedBy(heap, Keeper) /\ LayoutOf(heap, {}, Ends)
  BY KeeperAlone
<1>6. Types
  BY <1>1, <1>2, <1>3 DEF Types
<1>7. SizedSound /\ ExternalSound
  BY <1>2 DEF SizedSound, ExternalSound
<1>8. SoundLists(free_list, DOMAIN live)
  BY <1>3 DEF SoundLists
<1>9. Layout /\ Linked
  BY <1>4, <1>5 DEF Layout, Linked
<1>10. QED
  BY <1>6, <1>7, <1>8, <1>9 DEF AllocInv

(* The context when it is created.                                         *)
LEMMA InitSound == Init => AllocInv
<1> SUFFICES ASSUME Init PROVE AllocInv
  OBVIOUS
<1> DEFINE r == [size |-> InitBlock, freeptr |-> BlockHdr, next |-> Null, pres |-> Null]
<1>1. /\ r \in BlockRecs /\ r.freeptr = BlockHdr /\ BlockHdr <= r.size /\ r.next = Null /\ r.pres = Null
      /\ InitBlock \in Nat
  BY AllocAssumption DEF BlockRecs, Pointers
<1>2. /\ heap = [b \in {Keeper} |-> r] /\ blocks = Keeper /\ free_list = [i \in Lists |-> <<>>]
      /\ live = [c \in {} |-> 0] /\ next_block_size = InitBlock
  BY DEF Init
<1> HIDE DEF r
<1>3. QED
  BY <1>1, <1>2, EmptySound

(* alloc_set_reset: the keeper keeps its size.                             *)
LEMMA ResetStep == ASSUME AllocInv, Reset PROVE AllocInv'
<1> DEFINE r == [size |-> heap[Keeper].size, freeptr |-> BlockHdr, next |-> Null, pres |-> Null]
<1>1. /\ heap' = [b \in {Keeper} |-> r] /\ blocks' = Keeper /\ free_list' = [i \in Lists |-> <<>>]
      /\ live' = [c \in {} |-> 0] /\ next_block_size' = next_block_size
  BY DEF Reset
<1>2. /\ Keeper \in DOMAIN heap /\ heap[Keeper] \in BlockRecs /\ next_block_size \in Nat
      /\ heap[Keeper].size \in Nat /\ heap[Keeper].freeptr \in Nat
      /\ BlockHdr <= heap[Keeper].freeptr /\ heap[Keeper].freeptr <= heap[Keeper].size
  BY DEF AllocInv, Types, Layout, LayoutOf
<1>3. BlockHdr \in Nat /\ BlockHdr <= heap[Keeper].size
  BY <1>2, AllocAssumption
<1>4. r \in BlockRecs /\ r.freeptr = BlockHdr /\ BlockHdr <= r.size /\ r.next = Null /\ r.pres = Null
  BY <1>2, <1>3 DEF BlockRecs, Pointers
<1> HIDE DEF r
<1>5. DOMAIN heap' = {Keeper} /\ heap' \in [DOMAIN heap' -> BlockRecs] /\ Keeper \in Blocks
  BY <1>1, <1>4, AllocAssumption
<1>6. DOMAIN live' = {} /\ live' \in [DOMAIN live' -> Nat \ {0}]
  BY <1>1
<1>7. /\ free_list' \in [Lists -> Seq(Chunks)] /\ \A i \in Lists : DOMAIN free_list'[i] = {}
  <2> DEFINE t == <<>>
  <2>1. t \in Seq(Chunks) /\ DOMAIN t = {}
    BY EmptySeq, LenProperties
  <2> HIDE DEF t
  <2>2. free_list' = [i \in Lists |-> t]
    BY <1>1 DEF t
  <2>3. QED
    BY <2>1, <2>2
<1>8. Known' = {}
  BY <1>6, <1>7 DEF Known, Listed
<1>9. LinkedBy(heap', Keeper) /\ LayoutOf(heap', {}, Ends)
  BY <1>1, <1>4, KeeperAlone
<1>10. Layout'
  BY <1>8, <1>9, LayoutNext
<1>11. Types'
  BY <1>1, <1>2, <1>5, <1>6, <1>7 DEF Types
<1>12. SizedSound' /\ ExternalSound'
  BY <1>6 DEF SizedSound, ExternalSound
<1>13. SoundLists(free_list', DOMAIN live')
  BY <1>7 DEF SoundLists
<1>14. LinkedBy(heap', blocks')
  BY <1>1, <1>9
<1>15. QED
  BY <1>10, <1>11, <1>12, <1>13, <1>14 DEF AllocInv, Linked, SoundLists, LinkedBy, Order

(* The invariant says what HeapSound promises.                             *)
LEMMA InvIsSound == AllocInv => HeapSound
<1> SUFFICES ASSUME AllocInv PROVE HeapSound
  OBVIOUS
<1>1. /\ \A b \in DOMAIN heap : /\ heap[b].freeptr \in Nat /\ heap[b].size \in Nat
                                /\ BlockHdr <= heap[b].freeptr /\ heap[b].freeptr <= heap[b].size
      /\ \A c \in Known : /\ c.block \in DOMAIN heap /\ BlockHdr <= c.off
                          /\ EndOf(c) <= heap[c.block].freeptr
      /\ \A c, d \in Known : c # d => c.block # d.block \/ EndOf(c) <= d.off \/ EndOf(d) <= c.off
  BY DEF AllocInv, Layout, LayoutOf, Ends
<1>2. NothingLost
  <2>1. ASSUME NEW b \in DOMAIN heap, NEW u \in BlockHdr..(heap[b].freeptr - 1)
        PROVE  \E c \in Known : c.block = b /\ c.off <= u /\ u < EndOf(c)
    <3>1. PICK c \in Known : c.block = b /\ c.off <= u /\ u < Ends[c]
      BY <2>1 DEF AllocInv, Layout, LayoutOf
    <3>2. QED
      BY <3>1 DEF Ends
  <2>2. QED
    BY <2>1 DEF NothingLost
<1>3. ChunksDisjoint
  <2>1. \A b \in DOMAIN heap : heap[b].freeptr \in BlockHdr..heap[b].size
    BY <1>1, AllocAssumption
  <2>2. \A c, d \in Known : c # d => Apart(c, d)
    BY <1>1 DEF Apart
  <2>3. \A c \in DOMAIN live : ~c.external => live[c] <= c.size
    BY DEF AllocInv, SizedSound
  <2>4. QED
    BY <1>1, <2>1, <2>2, <2>3 DEF ChunksDisjoint
<1>4. FreeListsSound
  BY DEF AllocInv, SoundLists, FreeListsSound
<1>5. BlockListSound
  <2>1. FromHead = DOMAIN heap \cup {Null}
    BY WalkReaches DEF AllocInv
  <2>2. \A b \in DOMAIN heap : /\ heap[b].next # Null => heap[heap[b].next].pres = b
                               /\ heap[b].pres = Null <=> b = blocks
    BY LinksSound DEF AllocInv, Types, Linked
  <2>3. \A c \in DOMAIN live : c.external => c.block # blocks
    BY DEF AllocInv, ExternalSound
  <2>4. QED
    BY <2>1, <2>2, <2>3 DEF BlockListSound
<1>6. QED
  BY <1>2, <1>3, <1>4, <1>5 DEF HeapSound

-----------------------------------------------------------------------------
(* Whatever the sequence of smalloc, scalloc, srealloc, sfree and reset:   *)
(* blocks, chunks and lists keep the strengthened invariant, which says    *)
(* besides HeapSound where chunks lie without gaps, in which order the     *)
(* blocks are linked and that an external chunk fills its block.           *)
THEOREM AllocInvariant == Spec => []AllocInv
<1>1. AllocInv /\ [Next]_vars => AllocInv'
  <2> SUFFICES ASSUME AllocInv, [Next]_vars PROVE AllocInv'
    OBVIOUS
  <2>1. ASSUME NEW size \in Sizes, NEW b \in Blocks, Alloc(size, b) PROVE AllocInv'
    BY <2>1, AllocStep
  <2>2. ASSUME NEW c \in DOMAIN live, FreeChunk(c) PROVE AllocInv'
    BY <2>2, FreeChunkStep
  <2>3. ASSUME NEW c \in DOMAIN live, FreeExternal(c) PROVE AllocInv'
    BY <2>3, FreeExternalStep
  <2>4. ASSUME NEW c \in DOMAIN live, NEW size \in Sizes, ReallocInPlace(c, size) PROVE AllocInv'
    BY <2>4, ReallocInPlaceStep
  <2>5. ASSUME NEW c \in DOMAIN live, NEW size \in Sizes, NEW b \in Blocks, ReallocMove(c, size, b)
        PROVE  AllocInv'
    BY <2>5, ReallocMoveStep
  <2>6. ASSUME NEW c \in DOMAIN live, NEW size \in Sizes, NEW b \in Blocks,
               ReallocExternal(c, size, b)
        PROVE  AllocInv'
    BY <2>6, ReallocExternalStep
  <2>7. CASE Reset
    BY <2>7, ResetStep
  <2>8. CASE UNCHANGED vars
    <3>1. /\ blocks' = blocks /\ heap' = heap /\ free_list' = free_list
          /\ next_block_size' = next_block_size /\ live' = live
      BY <2>8 DEF vars
    <3>2. Known' = Known
      BY <3>1 DEF Known, Listed
    <3>3. \A c \in Known : EndOf(c)' = EndOf(c)
      BY <3>1 DEF EndOf
    <3>4. Layout'
      <4> DEFINE e == Ends
      <4>1. LayoutOf(heap', Known, e) /\ \A c \in Known : EndOf(c)' = e[c]
        BY <3>1, <3>3 DEF AllocInv, Layout, Ends
      <4> HIDE DEF e
      <4>2. QED
        BY <3>2, <4>1, LayoutNext
    <3>5. Types' /\ SizedSound' /\ ExternalSound'
      BY <3>1 DEF AllocInv, Types, SizedSound, ExternalSound, EndOf
    <3>6. SoundLists(free_list', DOMAIN live') /\ LinkedBy(heap', blocks')
      BY <3>1 DEF AllocInv, Linked
    <3>7. QED
      BY <3>4, <3>5, <3>6 DEF AllocInv, Linked, SoundLists, LinkedBy, Order
  <2>9. QED
    BY <2>1, <2>2, <2>3, <2>4, <2>5, <2>6, <2>7, <2>8 DEF Next
<1>2. QED
  BY <1>1, InitSound, PTL DEF Spec

(* The allocator is sound after any sequence of calls: no two chunks share *)
(* memory, the free lists and the block list are what the next call relies *)
(* on, and every carved unit belongs to a chunk in use or on a free list.  *)
THEOREM HeapAlwaysSound == Spec => []HeapSound
BY AllocInvariant, InvIsSound, PTL
=============================================================================
