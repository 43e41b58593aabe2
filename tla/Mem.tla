-------------------------------- MODULE Mem ---------------------------------
(***************************************************************************)
(* The dynamic memory allocator (src/src/mem.c): a heap cut into blocks    *)
(* with a boundary tag at each end, and a first-fit list of free blocks.   *)
(*                                                                         *)
(* Addresses and block sizes are counted in words of MEM_ALIGN bytes from  *)
(* the start of mem_heap; the sizes of requests are in bytes.  A tag is    *)
(* the pair of fields that the code packs in one size_t.  tag gives every  *)
(* word of the heap a value, whether or not it is a tag now: a stale tag   *)
(* stays in memory until a client of the block overwrites it.              *)
(*                                                                         *)
(* Everything from mutex_lock(&mem_mutex) to mutex_unlock is one step.     *)
(* What mem_free reads of the block before it locks is a step of its own.  *)
(***************************************************************************)
EXTENDS Integers, Sequences, FiniteSets, Functions, List

CONSTANTS
  Thread,     \* the threads calling mem_alloc and mem_free
  NULL,
  HeapWords,  \* MEM_HEAP_SIZE / MEM_ALIGN
  SizeRange,  \* 2^32, the number of values of a size_t
  Request     \* the sizes passed to mem_alloc

Align    == 4  \* MEM_ALIGN
BtagSize == 1  \* sizeof(struct mem_btag)
MinSize  == 4  \* MEM_BLOCK_MIN_SIZE: two tags and the two pointers of a node

ASSUME MemAssumption ==
  /\ HeapWords \in Nat /\ HeapWords >= MinSize
  /\ SizeRange \in Nat /\ SizeRange % Align = 0 /\ Align * HeapWords < SizeRange
  /\ Request \subseteq 0 .. SizeRange - 1
  /\ NULL \notin Int

VARIABLES
  tag,         \* the words of mem_heap, read as boundary tags
  free_nodes,  \* mem_free_list.free_nodes: the blocks, in list order
  live,        \* the size requested for each block owned by a client, else 0
  freeing      \* the block each thread is in the course of freeing, or NULL

vars == <<tag, free_nodes, live, freeing>>

Word == 0 .. HeapWords - 1

Btag == [size : Nat, allocated : BOOLEAN]

TypeOK ==
  /\ tag \in [Word -> Btag]
  /\ free_nodes \in Seq(Word)
  /\ live \in [Word -> Nat]
  /\ freeing \in [Thread -> Word \cup {NULL}]

-----------------------------------------------------------------------------
\* Blocks, at a value m of the heap's words.

BlockEnd(m, b) == b + m[b].size       \* mem_block_end
Footer(m, b)   == BlockEnd(m, b) - 1  \* mem_block_footer_btag

\* mem_block_init
BlockInit(m, b, size) ==
  [m EXCEPT ![b] = [size |-> size, allocated |-> TRUE],
            ![b + size - 1] = [size |-> size, allocated |-> TRUE]]

\* mem_block_set_allocated and mem_block_clear_allocated
SetAllocated(m, b, flag) ==
  [m EXCEPT ![b].allocated = flag, ![Footer(m, b)].allocated = flag]

\* mem_block_prev and mem_block_next
Prev(m, b) == IF b = 0 THEN NULL ELSE b - m[b - 1].size
BlockNext(m, b) == IF BlockEnd(m, b) = HeapWords THEN NULL ELSE BlockEnd(m, b)

\* In the operators below d is a record of the allocator's two variables.

\* mem_free_list_add, at the head
FreeListAdd(d, b) ==
  [tag |-> SetAllocated(d.tag, b, FALSE), list |-> <<b>> \o d.list]

\* mem_free_list_remove
FreeListRemove(d, b) ==
  [tag  |-> SetAllocated(d.tag, b, TRUE),
   list |-> Unlink(d.list, b)]

\* Faulty variant: a block of the exact size is passed over.
FitsStrictly(d, size) == {i \in DOMAIN d.list : d.tag[d.list[i]].size > size}

\* mem_free_list_find: the first block of the list that is large enough
Fits(d, size) == {i \in DOMAIN d.list : d.tag[d.list[i]].size >= size}
FreeListFind(d, size) ==
  IF Fits(d, size) = {} THEN NULL
  ELSE d.list[CHOOSE i \in Fits(d, size) : \A j \in Fits(d, size) : i <= j]

\* Faulty variant: a remainder of any size becomes a block.
SplitAny(d, b, size) ==
  LET total == d.tag[b].size
  IN  IF total <= size THEN d
      ELSE FreeListAdd([d EXCEPT !.tag = BlockInit(BlockInit(@, b, size),
                                                   b + size, total - size)],
                       b + size)

\* mem_block_split, and the insertion in mem_alloc of the block it returns
Split(d, b, size) ==
  LET total == d.tag[b].size
  IN  IF total < size + MinSize THEN d
      ELSE FreeListAdd([d EXCEPT !.tag = BlockInit(BlockInit(@, b, size),
                                                   b + size, total - size)],
                       b + size)

\* mem_block_merge; the caller finds out which block results with Merged.
Mergeable(d, b, c) == c # NULL /\ ~d.tag[b].allocated /\ ~d.tag[c].allocated

Merged(d, b, c) == IF Mergeable(d, b, c) /\ c < b THEN c ELSE b

\* Faulty variant: the second block stays on the free list.
MergeKeepsNode(d, b, c) ==
  IF ~Mergeable(d, b, c) THEN d
  ELSE LET removed == FreeListRemove(d, b)
           size    == d.tag[b].size + d.tag[c].size
       IN  FreeListAdd([removed EXCEPT !.tag = BlockInit(@, Merged(d, b, c), size)],
                       Merged(d, b, c))

Merge(d, b, c) ==
  IF ~Mergeable(d, b, c) THEN d
  ELSE LET removed == FreeListRemove(FreeListRemove(d, b), c)
           size    == d.tag[b].size + d.tag[c].size
       IN  FreeListAdd([removed EXCEPT !.tag = BlockInit(@, Merged(d, b, c), size)],
                       Merged(d, b, c))

\* Faulty variant: the room for the tags is forgotten.
ConvertWithoutTags(n) ==
  LET size == ((n + Align - 1) % SizeRange) \div Align
  IN  IF size < MinSize THEN MinSize ELSE size

\* mem_convert_to_block_size: the words of the block for a request in bytes,
\* in the arithmetic of size_t.
ConvertToBlockSize(n) ==
  LET rounded == ((n + Align - 1) % SizeRange) \div Align
      size    == (rounded + 2 * BtagSize) % (SizeRange \div Align)
  IN  IF size < MinSize THEN MinSize ELSE size

-----------------------------------------------------------------------------
Current == [tag |-> tag, list |-> free_nodes]

Becomes(d) == tag' = d.tag /\ free_nodes' = d.list

\* mem_setup
InitialTags ==
  BlockInit([w \in Word |-> [size |-> 0, allocated |-> FALSE]], 0, HeapWords)

Init ==
  /\ LET d == FreeListAdd([tag |-> InitialTags, list |-> <<>>], 0)
     IN  tag = d.tag /\ free_nodes = d.list
  /\ live = [w \in Word |-> 0]
  /\ freeing = [t \in Thread |-> NULL]

\* mem_alloc(n) returning a block
Alloc(t, n) ==
  /\ freeing[t] = NULL
  /\ n # 0
  /\ LET size == ConvertToBlockSize(n)
         b    == FreeListFind(Current, size)
     IN  /\ b # NULL
         /\ Becomes(Split(FreeListRemove(Current, b), b, size))
         /\ live' = [live EXCEPT ![b] = n]
  /\ UNCHANGED freeing

\* mem_alloc(n) returning NULL
AllocFails(t, n) ==
  /\ freeing[t] = NULL
  /\ n = 0 \/ FreeListFind(Current, ConvertToBlockSize(n)) = NULL
  /\ UNCHANGED vars

\* mem_free of a block that a client owns, up to mutex_lock.  It reads the
\* header of the block.
FreeCall(t, b) ==
  /\ freeing[t] = NULL
  /\ live[b] # 0
  /\ live' = [live EXCEPT ![b] = 0]
  /\ freeing' = [freeing EXCEPT ![t] = b]
  /\ UNCHANGED <<tag, free_nodes>>

\* mem_free, the critical section.
Free(t) ==
  /\ freeing[t] # NULL
  /\ LET b  == freeing[t]
         d1 == FreeListAdd(Current, b)
         p  == Prev(d1.tag, b)
         d2 == Merge(d1, b, p)
         b2 == Merged(d1, b, p)
     IN  Becomes(Merge(d2, b2, BlockNext(d2.tag, b2)))
  /\ freeing' = [freeing EXCEPT ![t] = NULL]
  /\ UNCHANGED live

\* The payload that a client may use: the words that hold the n bytes it
\* asked for, after the header.
Payload(b, n) == b + BtagSize .. b + BtagSize + (n + Align - 1) \div Align - 1

\* A client writes to the memory it owns; what it writes reads as a tag.
Write(b) ==
  /\ live[b] # 0
  /\ tag' = [w \in Word |-> IF w \in Payload(b, live[b])
                             THEN [size |-> 0, allocated |-> FALSE] ELSE tag[w]]
  /\ UNCHANGED <<free_nodes, live, freeing>>

Next ==
  \/ \E t \in Thread :
       \/ \E n \in Request : Alloc(t, n) \/ AllocFails(t, n)
       \/ \E b \in Word : FreeCall(t, b)
       \/ Free(t)
  \/ \E b \in Word : Write(b)

Spec == Init /\ [][Next]_vars

-----------------------------------------------------------------------------
\* The blocks of the heap: the free ones, those of clients and those that a
\* thread is freeing.
FreeBlocks == {free_nodes[i] : i \in DOMAIN free_nodes}
UsedBlocks == {b \in Word : live[b] # 0} \cup ({freeing[t] : t \in Thread} \ {NULL})
Blocks     == FreeBlocks \cup UsedBlocks

\* The blocks tile the heap: one starts it, each ends where the next starts
\* or where the heap ends, and no two overlap.  Both tags of each block agree
\* on its size, whatever clients wrote and stale tags remain in between.
BlocksTileHeap ==
  /\ 0 \in Blocks
  /\ \A b \in Blocks :
       /\ tag[b].size >= MinSize
       /\ BlockEnd(tag, b) \in Blocks \cup {HeapWords}
       /\ tag[Footer(tag, b)] = tag[b]
       /\ \A c \in Blocks : b < c => BlockEnd(tag, b) <= c

\* The free list has every free block once and no block in use; the
\* allocation flags that mem_free trusts when it merges say the same.
FreeListExact ==
  /\ IsInjective(free_nodes)
  /\ FreeBlocks \cap UsedBlocks = {}
  /\ \A b \in Blocks : tag[b].allocated <=> b \in UsedBlocks

\* The memory a client asked for lies inside its block, between the tags:
\* clients cannot damage the tags, the free list or each other.
PayloadsFit ==
  \A b \in Word : live[b] # 0 =>
    Payload(b, live[b]) \subseteq b + BtagSize .. Footer(tag, b) - 1

\* mem_alloc of any size only fails when no run of memory outside of the blocks
\* in use is large enough: nothing is lost to fragmentation that merging could
\* mend.
UsedWords == UNION {b .. Footer(tag, b) : b \in UsedBlocks}

FailsOnlyWhenFull ==
  LET used == UsedWords
  IN  \A size \in MinSize .. HeapWords :
        FreeListFind(Current, size) = NULL =>
          \A w \in 0 .. HeapWords - size : (w .. w + size - 1) \cap used # {}
=============================================================================
