------------------------------ MODULE AllocSet ------------------------------
(***************************************************************************)
(* The allocator behind every smalloc, scalloc, srealloc and sfree of the  *)
(* process: the AllocSet of src/src/asctx.c, used by src/src/mm.c.         *)
(*                                                                         *)
(* A request of at most the largest class is rounded up to its size class  *)
(* and taken from the free list of the class, or carved off the head       *)
(* block, or off a new block that becomes the head.  A larger request gets *)
(* a block of its own (an "external" chunk), linked in behind the head.    *)
(*                                                                         *)
(* mm.c makes every call under mm_lock, so a call is one step.  A chunk is *)
(* known by its address, the block and the offset in it; offsets and sizes *)
(* are counted in units and malloc chooses block addresses freely.         *)
(* Out of memory ends the process (fatal) and is left out.                 *)
(***************************************************************************)
EXTENDS Integers, Sequences, FiniteSets

CONSTANTS
  Blocks,      (* addresses malloc may return                              *)
  Keeper,      (* the block allocated together with the context            *)
  Null,        (* the null pointer                                         *)
  Class,       (* Class[i]: the chunk size of free list i                  *)
  NumLists,    (* ALLOC_FREELISTS_NUM                                      *)
  BlockHdr, ChunkHdr,     (* ALLOC_BLOCK_SIZE, ALLOC_CHUNK_SIZE            *)
  InitBlock,   (* MM_INIT_BLOCK_SIZE                                       *)
  MaxBlock,    (* DEFAULT_MAX_BLOCK_SIZE                                   *)
  Sizes        (* the sizes callers ask for                                *)

Lists == 0..(NumLists - 1)

ASSUME AllocAssumption ==
  /\ IsFiniteSet(Blocks) /\ Keeper \in Blocks /\ Null \notin Blocks
  /\ NumLists \in Nat \ {0}
  /\ Class \in [Lists -> Nat \ {0}]
  /\ \A i, j \in Lists : i < j => Class[i] < Class[j]
  /\ BlockHdr \in Nat /\ ChunkHdr \in Nat \ {0}
  /\ InitBlock \in Nat /\ MaxBlock \in Nat /\ BlockHdr <= InitBlock
  /\ Sizes \subseteq Nat \ {0}

VARIABLES
  blocks,      (* set->blocks, the head of the block list                  *)
  heap,        (* the allocated blocks: [size, freeptr, next, pres]        *)
  free_list,   (* set->free_list, each a sequence of chunks, first first   *)
  next_block_size,
  live         (* history: the chunks callers hold, with the size they     *)
               (* asked for                                                *)

vars == <<blocks, heap, free_list, next_block_size, live>>

-----------------------------------------------------------------------------
\* Index of the smallest class that holds size (alloc_set_free_index).
FreeIndex(size) == CHOOSE i \in Lists : size <= Class[i] /\ \A j \in 0..(i - 1) : Class[j] < size

Limit == Class[NumLists - 1]

\* A chunk's address and what its mask records of it.
Chunk(b, o, s) == [block |-> b, off |-> o, size |-> s, external |-> FALSE]
External(b) == [block |-> b, off |-> BlockHdr, size |-> 0, external |-> TRUE]

\* f with x mapped to y, and f without x.
With(f, x, y) == [z \in DOMAIN f \cup {x} |-> IF z = x THEN y ELSE f[z]]
Without(f, x) == [z \in DOMAIN f \ {x} |-> f[z]]

\* Block b's field next (pres) becomes x, unless b is the null pointer.
SetNext(h, b, x) == IF b = Null THEN h ELSE [h EXCEPT ![b].next = x]
SetPres(h, b, x) == IF b = Null THEN h ELSE [h EXCEPT ![b].pres = x]

\* alloc_set_memory_context_create: the keeper has BlockHdr less to give than
\* the block_size it was asked for.
Init ==
  /\ blocks = Keeper
  /\ heap = [b \in {Keeper} |->
               [size |-> InitBlock, freeptr |-> BlockHdr, next |-> Null, pres |-> Null]]
  /\ free_list = [i \in Lists |-> <<>>]
  /\ next_block_size = InitBlock
  /\ live = [c \in {} |-> 0]

(* ---- alloc_set_alloc ---------------------------------------------------- *)

\* The head block has room for a chunk of s units.
Fits(s) == heap[blocks].size - heap[blocks].freeptr >= s + ChunkHdr

\* The chunk that a call for size units returns, if malloc's next block is b.
Got(size, b) ==
  LET i == FreeIndex(size) IN
  IF size > Limit THEN External(b)
  ELSE IF free_list[i] # <<>> THEN Head(free_list[i])
  ELSE IF Fits(Class[i]) THEN Chunk(blocks, heap[blocks].freeptr, Class[i])
  ELSE Chunk(b, BlockHdr, Class[i])

\* The free lists after the call.
Popped(size) ==
  IF size <= Limit /\ free_list[FreeIndex(size)] # <<>>
  THEN [free_list EXCEPT ![FreeIndex(size)] = Tail(@)]
  ELSE free_list

\* A chunk from the free list: the blocks stay as they are.
Reuse(size) ==
  /\ size <= Limit /\ free_list[FreeIndex(size)] # <<>>
  /\ UNCHANGED <<blocks, heap, next_block_size>>

\* alloc_set_alloc_chunk_from_block on the head block.
Carve(size) ==
  LET s == Class[FreeIndex(size)] IN
  /\ size <= Limit /\ free_list[FreeIndex(size)] = <<>> /\ Fits(s)
  /\ heap' = [heap EXCEPT ![blocks].freeptr = @ + s + ChunkHdr]
  /\ UNCHANGED <<blocks, next_block_size>>

\* alloc_set_alloc_new_block: a new head, carved at once; what is left of the
\* old head is never used again.
NewBlock(size, b) ==
  LET s == Class[FreeIndex(size)]
      need == s + BlockHdr + ChunkHdr IN
  /\ size <= Limit /\ free_list[FreeIndex(size)] = <<>> /\ ~Fits(s)
  /\ b \notin DOMAIN heap
  /\ next_block_size' = IF next_block_size > MaxBlock \div 2 THEN MaxBlock ELSE next_block_size * 2
  /\ heap' = With(SetPres(heap, blocks, b), b,
                  [size |-> IF next_block_size < need THEN need ELSE next_block_size,
                   freeptr |-> need, next |-> blocks, pres |-> Null])
  /\ blocks' = b

\* A block that is full from the start.
Whole(size, next, pres) ==
  [size |-> size + BlockHdr + ChunkHdr, freeptr |-> size + BlockHdr + ChunkHdr,
   next |-> next, pres |-> pres]

\* Mutant of Large: the old second block still points back to the head.
LargeHalfLinked(size, b) ==
  /\ size > Limit /\ b \notin DOMAIN heap
  /\ heap' = With(SetNext(heap, blocks, b), b, Whole(size, heap[blocks].next, blocks))
  /\ UNCHANGED <<blocks, next_block_size>>

\* alloc_set_alloc_large: a block of its own, second in the list.
Large(size, b) ==
  /\ size > Limit /\ b \notin DOMAIN heap
  /\ heap' = With(SetNext(SetPres(heap, heap[blocks].next, b), blocks, b), b,
                  Whole(size, heap[blocks].next, blocks))
  /\ UNCHANGED <<blocks, next_block_size>>

Obtain(size, b) == Reuse(size) \/ Carve(size) \/ NewBlock(size, b) \/ Large(size, b)

(* ---- the calls of mm.c -------------------------------------------------- *)

\* alloc_set_free of a chunk of a size class.
Pushed(lists, c) == [lists EXCEPT ![FreeIndex(c.size)] = <<c>> \o @]

\* smalloc, scalloc, srealloc of the null pointer, sstrdup
Alloc(size, b) ==
  /\ Obtain(size, b)
  /\ free_list' = Popped(size)
  /\ live' = With(live, Got(size, b), size)

\* sfree, alloc_set_free of a chunk of a size class
FreeChunk(c) ==
  /\ ~c.external
  /\ free_list' = Pushed(free_list, c)
  /\ live' = Without(live, c)
  /\ UNCHANGED <<blocks, heap, next_block_size>>

\* sfree, alloc_set_free of an external chunk: unlink its block and free it.
FreeExternal(c) ==
  LET k == heap[c.block] IN
  /\ c.external
  /\ heap' = Without(SetPres(SetNext(heap, k.pres, k.next), k.next, k.pres), c.block)
  /\ blocks' = IF k.pres = Null THEN k.next ELSE blocks
  /\ live' = Without(live, c)
  /\ UNCHANGED <<free_list, next_block_size>>

\* srealloc to a size the chunk's class holds: the pointer stays.
ReallocInPlace(c, size) ==
  /\ ~c.external /\ c.size >= size
  /\ live' = [live EXCEPT ![c] = size]
  /\ UNCHANGED <<blocks, heap, free_list, next_block_size>>

\* srealloc to a larger size: alloc, copy, free.
ReallocMove(c, size, b) ==
  /\ ~c.external /\ c.size < size
  /\ Obtain(size, b)
  /\ free_list' = Pushed(Popped(size), c)
  /\ live' = With(Without(live, c), Got(size, b), size)

\* srealloc of an external chunk: realloc may move its block to b.
ReallocExternal(c, size, b) ==
  LET k == heap[c.block] IN
  /\ c.external /\ (b = c.block \/ b \notin DOMAIN heap)
  /\ heap' = SetPres(SetNext(With(Without(heap, c.block), b, Whole(size, k.next, k.pres)),
                             k.pres, b), k.next, b)
  /\ blocks' = IF k.pres = Null THEN b ELSE blocks
  /\ live' = With(Without(live, c), External(b), size)
  /\ UNCHANGED <<free_list, next_block_size>>

\* alloc_set_reset: everything is given up; the keeper is the only block.
Reset ==
  /\ blocks' = Keeper
  /\ heap' = [b \in {Keeper} |-> [size |-> heap[Keeper].size, freeptr |-> BlockHdr,
                                  next |-> Null, pres |-> Null]]
  /\ free_list' = [i \in Lists |-> <<>>]
  /\ live' = [c \in {} |-> 0]
  /\ UNCHANGED next_block_size

Next ==
  \/ \E size \in Sizes, b \in Blocks : Alloc(size, b)
  \/ \E c \in DOMAIN live : FreeChunk(c) \/ FreeExternal(c)
  \/ \E c \in DOMAIN live, size \in Sizes : ReallocInPlace(c, size)
  \/ \E c \in DOMAIN live, size \in Sizes, b \in Blocks :
       ReallocMove(c, size, b) \/ ReallocExternal(c, size, b)
  \/ Reset

Spec == Init /\ [][Next]_vars

-----------------------------------------------------------------------------
Listed(i) == {free_list[i][n] : n \in DOMAIN free_list[i]}
Known == DOMAIN live \cup UNION {Listed(i) : i \in Lists}

\* The units of its block that a chunk occupies: Start(c) .. EndOf(c) - 1.
EndOf(c) ==
  c.off + ChunkHdr + (IF c.external THEN live[c] ELSE c.size)

Apart(c, d) == c.block # d.block \/ EndOf(c) <= d.off \/ EndOf(d) <= c.off

(* Chunks in use or on a free list lie in the carved part of an allocated  *)
(* block and never overlap, and a chunk in use is as large as its caller   *)
(* asked: no caller writes over another's memory, over a chunk header or  *)
(* behind the end of a block.                                              *)
ChunksDisjoint ==
  /\ \A b \in DOMAIN heap : heap[b].freeptr \in BlockHdr..heap[b].size
  /\ \A c \in Known :
       /\ c.block \in DOMAIN heap
       /\ BlockHdr <= c.off /\ EndOf(c) <= heap[c.block].freeptr
  /\ \A c, d \in Known : c # d => Apart(c, d)
  /\ \A c \in DOMAIN live : ~c.external => live[c] <= c.size

(* A free list holds chunks of its class only, each once, and none that a  *)
(* caller still uses.                                                      *)
FreeListsSound ==
  \A i \in Lists :
    /\ \A n \in DOMAIN free_list[i] :
         /\ ~free_list[i][n].external /\ free_list[i][n].size = Class[i]
         /\ free_list[i][n] \notin DOMAIN live
    /\ \A n, m \in DOMAIN free_list[i] : n # m => free_list[i][n] # free_list[i][m]

\* The first blocks of the list.
FromHead ==
  LET nth[k \in 0..Cardinality(Blocks)] ==
        IF k = 0 THEN blocks ELSE IF nth[k - 1] = Null THEN Null ELSE heap[nth[k - 1]].next
  IN {nth[k] : k \in 0..Cardinality(Blocks)}

(* The block list is doubly linked, holds exactly the allocated blocks and *)
(* ends; its head is never an external block, from which nothing could be  *)
(* carved.                                                                 *)
BlockListSound ==
  /\ FromHead = DOMAIN heap \cup {Null}
  /\ \A b \in DOMAIN heap :
       /\ heap[b].next # Null => heap[heap[b].next].pres = b
       /\ heap[b].pres = Null <=> b = blocks
  /\ \A c \in DOMAIN live : c.external => c.block # blocks

(* No memory is lost while the process runs: every unit carved off a block *)
(* belongs to a chunk that is in use or on a free list.                    *)
NothingLost ==
  \A b \in DOMAIN heap : \A u \in BlockHdr..(heap[b].freeptr - 1) :
    \E c \in Known : c.block = b /\ c.off <= u /\ u < EndOf(c)

(* The allocator is sound: after any sequence of smalloc, srealloc and     *)
(* sfree no two chunks share memory, the free lists and the block list are *)
(* what the next call relies on, and nothing is lost.                      *)
HeapSound == ChunksDisjoint /\ FreeListsSound /\ BlockListSound /\ NothingLost
=============================================================================
