------------------------------ MODULE MemProofs -----------------------------
(***************************************************************************)
(* Proofs about the allocator and the threads that use it (Mem, ThreadMem), *)
(* for any size of the heap, any requests that the arithmetic of size_t    *)
(* can hold and any number of threads.                                     *)
(***************************************************************************)
EXTENDS ThreadMem, Basics

\* Leaves that name no prover are for Zenon; the others need arithmetic,
\* sequences or function updates and name the SMT solver.
USE ZenonT(30)

-----------------------------------------------------------------------------
\* What the invariant says of the heap, for a value d of the allocator's
\* variables and a set U of blocks in use.

Listed(d) == {d.list[i] : i \in 1 .. Len(d.list)}

\* The blocks of B cover the heap, and both tags of each give its size.
Tiled(m, B) ==
  /\ B \subseteq Word /\ 0 \in B
  /\ \A b \in B :
       /\ m[b].size >= MinSize
       /\ BlockEnd(m, b) \in B \cup {HeapWords}
       /\ m[Footer(m, b)] = m[b]
       /\ \A c \in B : b < c => BlockEnd(m, b) <= c

\* The flags of the tags tell the free blocks from those in use.
Flagged(m, F, U) ==
  /\ \A b \in F : ~m[b].allocated
  /\ \A b \in U : m[b].allocated

Sound(d, U) ==
  /\ d \in [tag : [Word -> Btag], list : Seq(Word)]
  /\ IsInjective(d.list)
  /\ Listed(d) \cap U = {}
  /\ Tiled(d.tag, Listed(d) \cup U)
  /\ Flagged(d.tag, Listed(d), U)

\* The blocks of B have the same sizes in m and n.
SameSizes(m, n, B) == \A b \in B : n[b].size = m[b].size

\* A block lies in the heap with its footer, after its header.
LEMMA BlockInHeap ==
  ASSUME NEW m \in [Word -> Btag], NEW B, Tiled(m, B), NEW b \in B
  PROVE  /\ b \in Word /\ b \in Int
         /\ m[b].size \in Nat /\ m[b].size >= 4
         /\ Footer(m, b) \in Word /\ Footer(m, b) > b
         /\ BlockEnd(m, b) = b + m[b].size /\ Footer(m, b) = b + m[b].size - 1
         /\ b + m[b].size <= HeapWords
         /\ HeapWords \in Nat
<1>1. HeapWords \in Nat
  BY MemAssumption
<1>2. b \in Word /\ b \in Nat
  BY <1>1, SMTT(30) DEF Tiled, Word
<1>3. m[b] \in Btag
  BY <1>2
<1>4. m[b].size \in Nat /\ m[b].size >= 4
  BY <1>3 DEF Btag, Tiled, MinSize
<1>5. BlockEnd(m, b) = b + m[b].size /\ Footer(m, b) = b + m[b].size - 1
  BY <1>2, <1>4, SMTT(30) DEF BlockEnd, Footer
<1>6. b + m[b].size \in Word \cup {HeapWords}
  BY <1>5 DEF Tiled
<1>7. b + m[b].size <= HeapWords
  BY <1>1, <1>2, <1>4, <1>6, SMTT(30) DEF Word
<1> QED BY <1>1, <1>2, <1>4, <1>5, <1>7, SMTT(30) DEF Word

\* Two blocks have no word in common.
LEMMA Disjoint ==
  ASSUME NEW m \in [Word -> Btag], NEW B, Tiled(m, B), NEW b \in B, NEW c \in B, b # c
  PROVE  b + m[b].size <= c \/ c + m[c].size <= b
<1>1. b \in Int /\ c \in Int
  BY BlockInHeap
<1>2. b < c \/ c < b
  BY <1>1, SMTT(30)
<1> QED BY <1>2 DEF Tiled, BlockEnd

\* Changing the flag of a block.
LEMMA SetAllocatedTiled ==
  ASSUME NEW m \in [Word -> Btag], NEW B, Tiled(m, B), NEW b \in B, NEW flag \in BOOLEAN,
         NEW n, n = SetAllocated(m, b, flag)
  PROVE  /\ n \in [Word -> Btag]
         /\ Tiled(n, B) /\ SameSizes(m, n, B)
         /\ n[b].allocated = flag
         /\ \A c \in B \ {b} : n[c].allocated = m[c].allocated
<1> DEFINE f == b + m[b].size - 1
<1>1. /\ b \in Word /\ b \in Int /\ m[b].size \in Nat /\ m[b].size >= 4
      /\ Footer(m, b) = f /\ f \in Word /\ f > b
  BY BlockInHeap
<1>2. n = [m EXCEPT ![b].allocated = flag, ![f].allocated = flag]
  BY <1>1 DEF SetAllocated
<1> HIDE DEF f
<1>3. /\ n \in [Word -> Btag]
      /\ \A w \in Word : n[w].size = m[w].size
      /\ \A w \in Word \ {b, f} : n[w] = m[w]
      /\ n[b].allocated = flag /\ n[f].allocated = flag
  BY <1>1, <1>2, SMTT(30) DEF Btag
<1>4. ASSUME NEW c \in B \ {b}
      PROVE  c \in Word \ {b, f} /\ Footer(m, c) \in Word \ {b, f}
  <2>1. /\ c \in Word /\ c \in Int /\ m[c].size \in Nat /\ m[c].size >= 4
        /\ Footer(m, c) \in Word /\ Footer(m, c) = c + m[c].size - 1
    BY BlockInHeap
  <2>2. b + m[b].size <= c \/ c + m[c].size <= b
    BY Disjoint
  <2> QED BY <1>1, <2>1, <2>2, SMTT(30) DEF f
<1>6. n[f] = n[b]
  <2>1. m[f] = m[b]
    BY <1>1 DEF Tiled
  <2>2. n[f] \in Btag /\ n[b] \in Btag /\ n[f].size = n[b].size
    BY <1>1, <1>3, <2>1
  <2> QED BY <1>3, <2>2, SMTT(30) DEF Btag
<1>7. \A c \in B : BlockEnd(n, c) = BlockEnd(m, c) /\ Footer(n, c) = Footer(m, c)
  BY <1>3, BlockInHeap DEF BlockEnd, Footer
<1>9. ASSUME NEW c \in B PROVE n[Footer(n, c)] = n[c]
  BY <1>3, <1>4, <1>6, <1>7, <1>1 DEF Tiled
<1>10. Tiled(n, B)
  BY <1>3, <1>7, <1>9 DEF Tiled
<1> QED BY <1>3, <1>4, <1>10, BlockInHeap DEF SameSizes

\* A change of the words of blocks b and c leaves the other blocks alone.
LEMMA OthersKept ==
  ASSUME NEW m \in [Word -> Btag], NEW B, Tiled(m, B), NEW b \in B, NEW c \in B,
         NEW n \in [Word -> Btag],
         \A w \in Word : \/ w \in b .. b + m[b].size - 1
                         \/ w \in c .. c + m[c].size - 1
                         \/ n[w] = m[w],
         NEW x \in B, x # b, x # c
  PROVE  /\ n[x] = m[x]
         /\ BlockEnd(n, x) = BlockEnd(m, x) /\ Footer(n, x) = Footer(m, x)
         /\ n[Footer(n, x)] = n[x]
<1>1. /\ x \in Word /\ x \in Int /\ m[x].size \in Nat /\ m[x].size >= 4
      /\ Footer(m, x) \in Word /\ Footer(m, x) = x + m[x].size - 1
  BY BlockInHeap
<1>2. /\ b \in Int /\ m[b].size \in Nat /\ m[b].size >= 4
      /\ c \in Int /\ m[c].size \in Nat /\ m[c].size >= 4
  BY BlockInHeap
<1>3. /\ b + m[b].size <= x \/ x + m[x].size <= b
      /\ c + m[c].size <= x \/ x + m[x].size <= c
  BY Disjoint
<1>4. n[x] = m[x] /\ n[Footer(m, x)] = m[Footer(m, x)]
  BY <1>1, <1>2, <1>3, SMTT(30)
<1>5. m[Footer(m, x)] = m[x]
  BY DEF Tiled
<1>6. BlockEnd(n, x) = BlockEnd(m, x) /\ Footer(n, x) = Footer(m, x)
  BY <1>4 DEF BlockEnd, Footer
<1> QED BY <1>4, <1>5, <1>6

\* mem_free_list_remove: the block is no longer free, and in use.
LEMMA RemoveSound ==
  ASSUME NEW d, NEW U, Sound(d, U), NEW b \in Listed(d),
         NEW e, e = FreeListRemove(d, b)
  PROVE  /\ Sound(e, U \cup {b})
         /\ Listed(e) = Listed(d) \ {b}
         /\ SameSizes(d.tag, e.tag, Listed(d) \cup U)
<1> DEFINE B == Listed(d) \cup U
<1>1. d.tag \in [Word -> Btag] /\ d.list \in Seq(Word) /\ IsInjective(d.list)
  BY DEF Sound
<1>2. Linked(d.list, b)
  BY DEF Listed, Linked
<1>3. e.tag = SetAllocated(d.tag, b, TRUE) /\ e.list = Unlink(d.list, b)
      /\ e = [tag |-> e.tag, list |-> e.list]
  BY DEF FreeListRemove
<1>4. /\ e.list \in Seq(Word) /\ IsInjective(e.list)
      /\ \A u : Linked(e.list, u) <=> Linked(d.list, u) /\ u # b
  <2> DEFINE r == Unlink(d.list, b)
  <2>1. e.list = r
    BY <1>3
  <2>2. /\ r \in Seq(Word) /\ IsInjective(r)
        /\ \A u : Linked(r, u) <=> Linked(d.list, u) /\ u # b
    BY <1>1, <1>2, UnlinkProperties
  <2> HIDE DEF r
  <2> QED BY <2>1, <2>2
<1>5. Listed(e) = Listed(d) \ {b}
  <2>1. \A u : u \in Listed(e) <=> Linked(e.list, u)
    BY DEF Listed, Linked
  <2>2. \A u : u \in Listed(d) <=> Linked(d.list, u)
    BY DEF Listed, Linked
  <2> QED BY <1>2, <1>4, <2>1, <2>2
<1>6. /\ e.tag \in [Word -> Btag] /\ Tiled(e.tag, B) /\ SameSizes(d.tag, e.tag, B)
      /\ e.tag[b].allocated = TRUE
      /\ \A c \in B \ {b} : e.tag[c].allocated = d.tag[c].allocated
  <2> DEFINE flag == TRUE
  <2>1. Tiled(d.tag, B) /\ b \in B /\ flag \in BOOLEAN
    BY DEF Sound
  <2>2. e.tag = SetAllocated(d.tag, b, flag)
    BY <1>3
  <2> HIDE DEF B, flag
  <2>3. /\ e.tag \in [Word -> Btag] /\ Tiled(e.tag, B) /\ SameSizes(d.tag, e.tag, B)
        /\ e.tag[b].allocated = flag
        /\ \A c \in B \ {b} : e.tag[c].allocated = d.tag[c].allocated
    BY <1>1, <2>1, <2>2, SetAllocatedTiled, SMTT(30)
  <2> QED BY <2>3 DEF flag
<1>7. Listed(e) \cup (U \cup {b}) = B
  BY <1>5
<1>8. Flagged(e.tag, Listed(e), U \cup {b})
  BY <1>5, <1>6 DEF Flagged, Sound
<1>9. Sound(e, U \cup {b})
  BY <1>3, <1>4, <1>5, <1>6, <1>7, <1>8 DEF Sound
<1> QED BY <1>5, <1>6, <1>9

\* mem_free_list_add: a block in use becomes free.
LEMMA AddSound ==
  ASSUME NEW d, NEW U, Sound(d, U), NEW b \in U,
         NEW e, e = FreeListAdd(d, b)
  PROVE  /\ Sound(e, U \ {b})
         /\ Listed(e) = Listed(d) \cup {b}
         /\ SameSizes(d.tag, e.tag, Listed(d) \cup U)
<1> DEFINE B == Listed(d) \cup U
<1>1. d.tag \in [Word -> Btag] /\ d.list \in Seq(Word) /\ IsInjective(d.list)
      /\ b \notin Listed(d)
  BY DEF Sound
<1>2. e.tag = SetAllocated(d.tag, b, FALSE) /\ e.list = <<b>> \o d.list
      /\ e = [tag |-> e.tag, list |-> e.list]
  BY DEF FreeListAdd
<1>3. b \in Word
  BY DEF Sound, Tiled
<1>4. /\ e.list \in Seq(Word) /\ Len(e.list) = Len(d.list) + 1
      /\ e.list[1] = b
      /\ \A i \in 1 .. Len(d.list) : e.list[i + 1] = d.list[i]
  BY <1>1, <1>2, <1>3, SMTT(30)
<1>5. \A k \in 1 .. Len(e.list) :
        k = 1 \/ (k - 1 \in 1 .. Len(d.list) /\ e.list[k] = d.list[k - 1])
  BY <1>1, <1>4, SMTT(30)
<1>6. Listed(e) = Listed(d) \cup {b}
  <2>1. \A k \in 1 .. Len(e.list) : e.list[k] \in Listed(d) \cup {b}
    BY <1>4, <1>5 DEF Listed
  <2>2. b \in Listed(e)
    BY <1>1, <1>4, SMTT(30) DEF Listed
  <2>3. \A i \in 1 .. Len(d.list) : d.list[i] \in Listed(e)
    BY <1>1, <1>4, SMTT(30) DEF Listed
  <2> QED BY <2>1, <2>2, <2>3 DEF Listed
<1>7. IsInjective(e.list)
  <2> SUFFICES ASSUME NEW j \in 1 .. Len(e.list), NEW k \in 1 .. Len(e.list),
                      e.list[j] = e.list[k]
               PROVE  j = k
    BY <1>4, SMTT(30) DEF IsInjective
  <2>1. \A i \in 1 .. Len(d.list) : d.list[i] # b
    BY <1>1 DEF Listed
  <2>2. \A p, q \in 1 .. Len(d.list) : d.list[p] = d.list[q] => p = q
    BY <1>1, SMTT(30) DEF IsInjective
  <2>3. \A i \in 1 .. Len(e.list) : e.list[i] = b <=> i = 1
    BY <1>1, <1>4, <1>5, <2>1
  <2>4. CASE j # 1 /\ k # 1
    <3>1. j - 1 = k - 1
      BY <1>5, <2>2, <2>4
    <3> QED BY <3>1, SMTT(30)
  <2> QED BY <1>1, <1>4, <2>3, <2>4
<1>8. /\ e.tag \in [Word -> Btag] /\ Tiled(e.tag, B) /\ SameSizes(d.tag, e.tag, B)
      /\ e.tag[b].allocated = FALSE
      /\ \A c \in B \ {b} : e.tag[c].allocated = d.tag[c].allocated
  <2> DEFINE flag == FALSE
  <2>1. Tiled(d.tag, B) /\ b \in B /\ flag \in BOOLEAN
    BY DEF Sound
  <2>2. e.tag = SetAllocated(d.tag, b, flag)
    BY <1>2
  <2> HIDE DEF B, flag
  <2>3. /\ e.tag \in [Word -> Btag] /\ Tiled(e.tag, B) /\ SameSizes(d.tag, e.tag, B)
        /\ e.tag[b].allocated = flag
        /\ \A c \in B \ {b} : e.tag[c].allocated = d.tag[c].allocated
    BY <1>1, <2>1, <2>2, SetAllocatedTiled, SMTT(30)
  <2> QED BY <2>3 DEF flag
<1>9. Listed(e) \cup (U \ {b}) = B
  BY <1>6
<1>10. Flagged(e.tag, Listed(e), U \ {b})
  BY <1>6, <1>8 DEF Flagged, Sound
<1>11. Sound(e, U \ {b})
  BY <1>1, <1>2, <1>4, <1>6, <1>7, <1>8, <1>9, <1>10 DEF Sound
<1> QED BY <1>6, <1>8, <1>11

\* mem_block_init on a block and on what follows it: a block is cut.
LEMMA CutTiled ==
  ASSUME NEW m \in [Word -> Btag], NEW B, Tiled(m, B), NEW b \in B,
         NEW size \in Nat, NEW rest \in Nat, size >= MinSize, rest >= MinSize,
         m[b].size = size + rest, NEW c, c = b + size,
         NEW n, n = BlockInit(BlockInit(m, b, size), c, rest)
  PROVE  /\ n \in [Word -> Btag] /\ Tiled(n, B \cup {c})
         /\ c \in Word /\ c \notin B
         /\ n[b].size = size /\ n[b].allocated
         /\ n[c].size = rest /\ n[c].allocated
         /\ \A x \in B \ {b} : n[x] = m[x]
<1> DEFINE t == c + rest
           X == [size |-> size, allocated |-> TRUE]
           Y == [size |-> rest, allocated |-> TRUE]
<1>1. size >= 4 /\ rest >= 4
  BY DEF MinSize
<1>2. b \in Word /\ b \in Int /\ b + m[b].size <= HeapWords /\ HeapWords \in Nat
  BY BlockInHeap
<1>3. b \in Nat /\ c \in Nat /\ t \in Nat /\ t = b + m[b].size /\ t <= HeapWords
  BY <1>2, SMTT(30) DEF Word
<1>4. /\ c - 1 = b + size - 1 /\ t - 1 = c + rest - 1
      /\ b \in Word /\ c - 1 \in Word /\ c \in Word /\ t - 1 \in Word
      /\ b # c - 1 /\ b # c /\ b # t - 1 /\ c - 1 # c /\ c - 1 # t - 1 /\ c # t - 1
  BY <1>1, <1>2, <1>3, SMTT(30) DEF Word
<1>5. n = [m EXCEPT ![b] = X, ![c - 1] = X, ![c] = Y, ![t - 1] = Y]
  BY <1>4 DEF BlockInit
<1>6. X \in Btag /\ Y \in Btag /\ X.size = size /\ Y.size = rest
  BY DEF Btag
<1> HIDE DEF t, X, Y
<1>7. /\ n \in [Word -> Btag] /\ n[b] = X /\ n[c - 1] = X /\ n[c] = Y /\ n[t - 1] = Y
      /\ \A w \in Word \ {b, c - 1, c, t - 1} : n[w] = m[w]
  BY <1>4, <1>5, <1>6, SMTT(30)
<1>8. \A w \in Word : w \in b .. b + m[b].size - 1 \/ n[w] = m[w]
  <2>1. {b, c - 1, c, t - 1} \subseteq b .. t - 1
    BY <1>1, <1>3, SMTT(30) DEF t
  <2> QED BY <1>3, <1>7, <2>1, SMTT(30)
<1>9. ASSUME NEW x \in B, x # b
      PROVE  /\ n[x] = m[x] /\ n[Footer(n, x)] = n[x]
             /\ BlockEnd(n, x) = BlockEnd(m, x)
             /\ x \in Int /\ m[x].size \in Nat /\ m[x].size >= 4
             /\ BlockEnd(m, x) = x + m[x].size
             /\ t <= x \/ x + m[x].size <= b
  <2>1. /\ n[x] = m[x] /\ n[Footer(n, x)] = n[x]
        /\ BlockEnd(n, x) = BlockEnd(m, x)
    BY <1>7, <1>8, <1>9, OthersKept, SMTT(30)
  <2>2. t <= x \/ x + m[x].size <= b
    BY <1>3, <1>9, Disjoint
  <2> QED BY <2>1, <2>2, BlockInHeap
<1>10. c \notin B
  <2> SUFFICES ASSUME c \in B PROVE FALSE
    OBVIOUS
  <2>1. m[c].size \in Nat /\ (t <= c \/ c + m[c].size <= b)
    BY <1>4, <1>9
  <2> QED BY <1>1, <1>3, <2>1, SMTT(30) DEF t
<1>11. Tiled(n, B \cup {c})
  <2>1. B \cup {c} \subseteq Word /\ 0 \in B \cup {c}
    BY <1>4 DEF Tiled
  <2>2. BlockEnd(n, b) = c /\ BlockEnd(n, c) = t
    BY <1>6, <1>7 DEF BlockEnd, t
  <2>3. Footer(n, b) = c - 1 /\ Footer(n, c) = t - 1
    BY <2>2 DEF Footer
  <2>4. t \in B \cup {HeapWords}
    BY <1>3 DEF Tiled, BlockEnd
  <2>5. ASSUME NEW x \in B, x # b
        PROVE  /\ n[x].size >= MinSize
               /\ BlockEnd(n, x) \in B \cup {HeapWords}
               /\ n[Footer(n, x)] = n[x]
               /\ \A y \in B : x < y => BlockEnd(n, x) <= y
               /\ x < c => BlockEnd(n, x) <= c
               /\ b < x => t <= x
    <3>1. x \in Int /\ m[x].size \in Nat /\ m[x].size >= 4
          /\ BlockEnd(m, x) = x + m[x].size /\ (t <= x \/ x + m[x].size <= b)
      BY <1>9, <2>5
    <3>2. x < c => BlockEnd(m, x) <= c
      BY <1>1, <1>3, <3>1, SMTT(30) DEF t
    <3>3. b < x => t <= x
      BY <1>3, <3>1, SMTT(30)
    <3> QED BY <1>9, <2>5, <3>2, <3>3 DEF Tiled
  <2>6. ASSUME NEW y \in B PROVE (c < y => t <= y) /\ (b < y => c <= y)
    <3>1. y \in Int /\ (b < y => t <= y)
      BY <1>2, <1>9, <2>5, SMTT(30)
    <3> QED BY <1>1, <1>3, <3>1, SMTT(30) DEF t
  <2>7. n[b].size >= MinSize /\ n[c].size >= MinSize
    BY <1>6, <1>7
  <2>8. n[Footer(n, b)] = n[b] /\ n[Footer(n, c)] = n[c]
    BY <1>7, <2>3
  <2>9. ASSUME NEW x \in B \cup {c}
        PROVE  /\ n[x].size >= MinSize
               /\ BlockEnd(n, x) \in (B \cup {c}) \cup {HeapWords}
               /\ n[Footer(n, x)] = n[x]
               /\ \A y \in B \cup {c} : x < y => BlockEnd(n, x) <= y
    <3>1. CASE x = b
      BY <1>3, <2>2, <2>6, <2>7, <2>8, <3>1, SMTT(30)
    <3>2. CASE x = c
      BY <1>3, <2>2, <2>4, <2>6, <2>7, <2>8, <3>2, SMTT(30)
    <3>3. CASE x \in B /\ x # b
      BY <2>5, <3>3
    <3> QED BY <3>1, <3>2, <3>3
  <2> QED BY <2>1, <2>9 DEF Tiled
<1> QED BY <1>4, <1>7, <1>9, <1>10, <1>11, SMTT(30) DEF X, Y

\* mem_block_init on two neighbours: they become one block.
LEMMA JoinTiled ==
  ASSUME NEW m \in [Word -> Btag], NEW B, Tiled(m, B), NEW b \in B, NEW c \in B,
         BlockEnd(m, b) = c, NEW size, size = m[b].size + m[c].size,
         NEW n, n = BlockInit(m, b, size)
  PROVE  /\ n \in [Word -> Btag] /\ Tiled(n, B \ {c})
         /\ n[b].size = size /\ n[b].allocated
         /\ BlockEnd(n, b) = BlockEnd(m, c)
         /\ \A x \in B \ {b, c} : n[x] = m[x]
<1> DEFINE t == b + size
           X == [size |-> size, allocated |-> TRUE]
<1>1. /\ b \in Word /\ c \in Word /\ c = b + m[b].size
      /\ m[b].size \in Nat /\ m[b].size >= 4 /\ m[c].size \in Nat /\ m[c].size >= 4
      /\ BlockEnd(m, c) = c + m[c].size /\ c + m[c].size <= HeapWords
      /\ HeapWords \in Nat
  BY BlockInHeap
<1>2. /\ b \in Nat /\ c \in Nat /\ size \in Nat /\ size >= 4 /\ t \in Nat
      /\ t = c + m[c].size /\ t = BlockEnd(m, c) /\ t <= HeapWords
      /\ t - 1 \in Word /\ t - 1 = b + size - 1 /\ b < c /\ c < t
  <2>1. b \in Nat /\ c \in Nat /\ size \in Nat
    BY <1>1, SMTT(30) DEF Word
  <2>2. t = c + m[c].size /\ size >= 4 /\ b < c /\ c < t
    BY <1>1, <2>1, SMTT(30)
  <2>3. t - 1 = b + size - 1
    BY <2>1, SMTT(30)
  <2> HIDE DEF t
  <2>4. t \in Nat /\ t <= HeapWords /\ t - 1 \in Word
    BY <1>1, <2>1, <2>2, SMTT(30) DEF Word
  <2> QED BY <1>1, <2>1, <2>2, <2>3, <2>4
<1>3. X \in Btag /\ X.size = size
  BY <1>2 DEF Btag
<1>4. n = [m EXCEPT ![b] = X, ![t - 1] = X]
  BY <1>2 DEF BlockInit
<1> HIDE DEF t, X
<1>5. /\ n \in [Word -> Btag] /\ n[b] = X /\ n[t - 1] = X
      /\ \A w \in Word \ {b, t - 1} : n[w] = m[w]
  BY <1>1, <1>2, <1>3, <1>4
<1>6. BlockEnd(n, b) = t /\ Footer(n, b) = t - 1
  BY <1>3, <1>5 DEF BlockEnd, Footer, t
<1>7. \A w \in Word : \/ w \in b .. b + m[b].size - 1
                      \/ w \in c .. c + m[c].size - 1
                      \/ n[w] = m[w]
  <2>1. b \in b .. b + m[b].size - 1 /\ t - 1 \in c .. c + m[c].size - 1
    BY <1>1, <1>2, SMTT(30)
  <2> QED BY <1>5, <2>1
<1>8. ASSUME NEW x \in B, x # b, x # c
      PROVE  /\ n[x] = m[x] /\ n[Footer(n, x)] = n[x]
             /\ BlockEnd(n, x) = BlockEnd(m, x)
             /\ BlockEnd(n, x) # c
             /\ b < x => t <= x
  <2>1. /\ n[x] = m[x] /\ n[Footer(n, x)] = n[x]
        /\ BlockEnd(n, x) = BlockEnd(m, x)
    BY <1>5, <1>7, <1>8, OthersKept, SMTT(30)
  <2>2. /\ b + m[b].size <= x \/ x + m[x].size <= b
        /\ c + m[c].size <= x \/ x + m[x].size <= c
    BY <1>8, Disjoint
  <2>3. /\ BlockEnd(m, x) = x + m[x].size /\ x \in Int
        /\ m[x].size \in Nat /\ m[x].size >= 4
    BY BlockInHeap
  <2>4. b < x => t <= x
    BY <1>1, <1>2, <2>2, <2>3, SMTT(30)
  <2>5. x + m[x].size # c
    BY <1>1, <1>2, <2>2, <2>3, SMTT(30)
  <2> QED BY <2>1, <2>3, <2>4, <2>5
<1>9. Tiled(n, B \ {c})
  <2>1. B \ {c} \subseteq Word /\ 0 \in B \ {c} /\ b \in B \ {c}
    BY <1>2, SMTT(30) DEF Tiled
  <2>2. t \in (B \ {c}) \cup {HeapWords}
    BY <1>2, SMTT(30) DEF Tiled
  <2>3. ASSUME NEW x \in B \ {c}
        PROVE  /\ n[x].size >= MinSize
               /\ BlockEnd(n, x) \in (B \ {c}) \cup {HeapWords}
               /\ n[Footer(n, x)] = n[x]
               /\ \A y \in B \ {c} : x < y => BlockEnd(n, x) <= y
    <3>1. CASE x = b
      <4>1. \A y \in B \ {c} : b < y => t <= y
        BY <1>2, <1>8, SMTT(30)
      <4>2. n[b].size >= MinSize
        BY <1>2, <1>3, <1>5 DEF MinSize
      <4> QED BY <1>5, <1>6, <2>2, <3>1, <4>1, <4>2
    <3>2. CASE x # b
      BY <1>8, <3>2 DEF Tiled
    <3> QED BY <3>1, <3>2
  <2> QED BY <2>1, <2>3 DEF Tiled
<1> QED BY <1>2, <1>5, <1>6, <1>8, <1>9, SMTT(30) DEF X

\* mem_block_prev gives the block that ends where b starts.
LEMMA PrevIsBlock ==
  ASSUME NEW m \in [Word -> Btag], NEW B, Tiled(m, B), NEW b \in B, b # 0
  PROVE  Prev(m, b) \in B /\ BlockEnd(m, Prev(m, b)) = b
<1> DEFINE S == {c \in B : c < b}
<1>1. b \in Nat /\ HeapWords \in Nat /\ b < HeapWords /\ B \subseteq Word /\ 0 \in B
  <2>1. b \in Word /\ HeapWords \in Nat /\ B \subseteq Word /\ 0 \in B
    BY BlockInHeap DEF Tiled
  <2> QED BY <2>1, SMTT(30) DEF Word
<1>2. S \in SUBSET (0 .. HeapWords) /\ S # {}
  <2>1. 0 \in S
    BY <1>1, SMTT(30)
  <2>2. B \subseteq 0 .. HeapWords
    BY <1>1, SMTT(30) DEF Word
  <2> QED BY <2>1, <2>2
<1>3. PICK p \in S : \A c \in S : c <= p
  BY <1>1, <1>2, GreatestElement
<1>4. /\ p \in B /\ p < b /\ p \in Int /\ m[p].size \in Nat /\ m[p].size >= 4
      /\ BlockEnd(m, p) = p + m[p].size /\ Footer(m, p) = p + m[p].size - 1
      /\ p + m[p].size <= b /\ p + m[p].size \in B \cup {HeapWords}
      /\ m[Footer(m, p)] = m[p]
  <2>1. p \in B /\ p < b
    BY <1>3
  <2>2. /\ p \in Int /\ m[p].size \in Nat /\ m[p].size >= 4
        /\ BlockEnd(m, p) = p + m[p].size /\ Footer(m, p) = p + m[p].size - 1
    BY <2>1, BlockInHeap
  <2> QED BY <2>1, <2>2 DEF Tiled
<1>5. p + m[p].size = b
  <2> SUFFICES ASSUME p + m[p].size # b PROVE FALSE
    OBVIOUS
  <2>1. p + m[p].size < b
    BY <1>1, <1>4, SMTT(30)
  <2>2. p + m[p].size \in S
    BY <1>1, <1>4, <2>1, SMTT(30)
  <2> QED BY <1>3, <1>4, <2>2, SMTT(30)
<1>6. m[b - 1] = m[p] /\ b - m[p].size = p
  BY <1>1, <1>4, <1>5, SMTT(30)
<1>7. Prev(m, b) = p
  BY <1>6 DEF Prev
<1> QED BY <1>4, <1>5, <1>7

\* mem_block_next gives the block that starts where b ends.
LEMMA NextIsBlock ==
  ASSUME NEW m \in [Word -> Btag], NEW B, Tiled(m, B), NEW b \in B,
         BlockNext(m, b) # NULL
  PROVE  BlockNext(m, b) \in B /\ BlockEnd(m, b) = BlockNext(m, b)
BY DEF BlockNext, Tiled

\* The remainder that mem_block_split makes is free, after it is added.
LEMMA SplitSound ==
  ASSUME NEW d, NEW U, Sound(d, U), NEW b \in U, NEW size \in Nat, size >= MinSize,
         d.tag[b].size >= size + MinSize,
         NEW e, e = Split(d, b, size)
  PROVE  /\ Sound(e, U)
         /\ b + size \notin Listed(d) \cup U
         /\ Listed(e) = Listed(d) \cup {b + size}
         /\ e.tag[b].size = size
         /\ BlockEnd(e.tag, b + size) = BlockEnd(d.tag, b)
         /\ SameSizes(d.tag, e.tag, (Listed(d) \cup U) \ {b})
<1> DEFINE m == d.tag
           B == Listed(d) \cup U
           total == m[b].size
           rest == total - size
           c == b + size
           n == BlockInit(BlockInit(m, b, size), c, rest)
           f == [tag |-> n, list |-> d.list]
<1>1. /\ d = [tag |-> m, list |-> d.list] /\ m \in [Word -> Btag] /\ Tiled(m, B)
      /\ Flagged(m, Listed(d), U) /\ b \in B
      /\ d.list \in Seq(Word) /\ IsInjective(d.list) /\ Listed(d) \cap U = {}
  BY DEF Sound
<1>2. b \in Int /\ total \in Nat
  BY <1>1, BlockInHeap
<1>3. rest \in Nat /\ rest >= MinSize /\ ~(total < size + MinSize) /\ m[b].size = size + rest
  BY <1>2, SMTT(30) DEF MinSize
<1>4. e = FreeListAdd([d EXCEPT !.tag = n], c)
  BY <1>3 DEF Split
<1>5. [d EXCEPT !.tag = n] = f
  BY <1>1, SMTT(30)
<1>6. e = FreeListAdd(f, c)
  BY <1>4, <1>5
<1> HIDE DEF m, rest, c, n
<1>7. /\ n \in [Word -> Btag] /\ Tiled(n, B \cup {c})
      /\ c \in Word /\ c \notin B
      /\ n[b].size = size /\ n[b].allocated
      /\ n[c].size = rest /\ n[c].allocated
      /\ \A x \in B \ {b} : n[x] = m[x]
  <2>1. m \in [Word -> Btag] /\ Tiled(m, B) /\ b \in B
    BY <1>1
  <2>2. rest \in Nat /\ rest >= MinSize /\ m[b].size = size + rest
    BY <1>3
  <2>3. c = b + size /\ n = BlockInit(BlockInit(m, b, size), c, rest)
    BY DEF c, n
  <2> HIDE DEF B
  <2> QED BY <2>1, <2>2, <2>3, CutTiled, SMTT(30)
<1>8. f.tag = n /\ f.list = d.list /\ Listed(f) = Listed(d)
  BY DEF Listed
<1>9. Sound(f, U \cup {c})
  <2>1. Flagged(n, Listed(d), U \cup {c})
    BY <1>1, <1>7 DEF Flagged
  <2>2. Listed(f) \cup (U \cup {c}) = B \cup {c}
    BY <1>8
  <2> HIDE DEF B
  <2> QED BY <1>1, <1>7, <1>8, <2>1, <2>2 DEF Sound, B
<1> HIDE DEF f
<1>10. /\ Sound(e, (U \cup {c}) \ {c})
       /\ Listed(e) = Listed(f) \cup {c}
       /\ SameSizes(f.tag, e.tag, Listed(f) \cup (U \cup {c}))
  BY <1>6, <1>9, AddSound
<1>11. (U \cup {c}) \ {c} = U
  BY <1>7
<1>12. e.tag[b].size = size /\ e.tag[c].size = rest
       /\ SameSizes(m, e.tag, B \ {b})
  BY <1>7, <1>8, <1>10 DEF SameSizes
<1>13. BlockEnd(e.tag, c) = BlockEnd(m, b)
  BY <1>2, <1>3, <1>12, SMTT(30) DEF BlockEnd, c, rest
<1> QED BY <1>7, <1>8, <1>10, <1>11, <1>12, <1>13 DEF c, m

\* mem_block_merge of two free neighbours: the lower one becomes the block.
LEMMA MergeSound ==
  ASSUME NEW d, NEW U, Sound(d, U), NEW b \in Listed(d), NEW c \in Listed(d),
         NEW lo, NEW hi, (b = lo /\ c = hi) \/ (b = hi /\ c = lo),
         BlockEnd(d.tag, lo) = hi, NEW e, e = Merge(d, b, c)
  PROVE  /\ Sound(e, U)
         /\ Merged(d, b, c) = lo
         /\ Listed(e) = Listed(d) \ {hi}
         /\ BlockEnd(e.tag, lo) = BlockEnd(d.tag, hi)
         /\ SameSizes(d.tag, e.tag, (Listed(d) \cup U) \ {lo, hi})
<1> DEFINE B  == Listed(d) \cup U
           r1 == FreeListRemove(d, b)
           r2 == FreeListRemove(r1, c)
           size == d.tag[b].size + d.tag[c].size
           n  == BlockInit(r2.tag, lo, size)
           f  == [tag |-> n, list |-> r2.list]
           V  == (U \cup {b}) \cup {c}
<1>1. /\ d.tag \in [Word -> Btag] /\ Tiled(d.tag, B) /\ Flagged(d.tag, Listed(d), U)
      /\ Listed(d) \cap U = {} /\ lo \in Listed(d) /\ hi \in Listed(d)
      /\ lo \in B /\ hi \in B
  BY DEF Sound
<1>2. /\ lo \in Int /\ hi \in Int /\ lo < hi
      /\ d.tag[lo].size \in Nat /\ d.tag[hi].size \in Nat
      /\ BlockEnd(d.tag, lo) = lo + d.tag[lo].size
      /\ BlockEnd(d.tag, hi) = hi + d.tag[hi].size
  <2>1. /\ lo \in Int /\ hi \in Int
        /\ d.tag[lo].size \in Nat /\ d.tag[lo].size >= 4 /\ d.tag[hi].size \in Nat
        /\ BlockEnd(d.tag, lo) = lo + d.tag[lo].size
        /\ BlockEnd(d.tag, hi) = hi + d.tag[hi].size
    BY <1>1, BlockInHeap, SMTT(30)
  <2> QED BY <2>1, SMTT(30)
<1>3. Mergeable(d, b, c)
  <2>1. c # NULL
    BY <1>2, MemAssumption
  <2>2. ~d.tag[b].allocated /\ ~d.tag[c].allocated
    BY <1>1 DEF Flagged
  <2> QED BY <2>1, <2>2 DEF Mergeable
<1>4. Merged(d, b, c) = lo
  BY <1>2, <1>3, SMTT(30) DEF Merged
<1>5. /\ Sound(r1, U \cup {b}) /\ Listed(r1) = Listed(d) \ {b}
      /\ SameSizes(d.tag, r1.tag, B)
  BY RemoveSound
<1>6. c \in Listed(r1)
  BY <1>2, <1>5, SMTT(30)
<1>7. e = FreeListAdd([r2 EXCEPT !.tag = n], lo)
  BY <1>3, <1>4 DEF Merge
<1>8. [r2 EXCEPT !.tag = n] = f
  <2>1. r2 = [tag |-> r2.tag, list |-> r2.list]
    BY DEF FreeListRemove
  <2> HIDE DEF r2, n
  <2> QED BY <2>1, SMTT(30)
<1>9. e = FreeListAdd(f, lo)
  BY <1>7, <1>8
<1> HIDE DEF r1
<1>10. /\ Sound(r2, V) /\ Listed(r2) = Listed(r1) \ {c}
       /\ SameSizes(r1.tag, r2.tag, Listed(r1) \cup (U \cup {b}))
  <2> DEFINE W == U \cup {b}
  <2>1. Sound(r1, W)
    BY <1>5
  <2> HIDE DEF W
  <2>2. /\ Sound(r2, W \cup {c}) /\ Listed(r2) = Listed(r1) \ {c}
        /\ SameSizes(r1.tag, r2.tag, Listed(r1) \cup W)
    BY <1>6, <2>1, RemoveSound
  <2> QED BY <2>2 DEF W
<1> HIDE DEF r2
<1>11. /\ Listed(r2) = Listed(d) \ {b, c} /\ Listed(r2) \cup V = B
       /\ SameSizes(d.tag, r2.tag, B)
  <2>1. Listed(r2) = Listed(d) \ {b, c}
    BY <1>5, <1>10
  <2>2. Listed(r1) \cup (U \cup {b}) = B /\ Listed(r2) \cup V = B
    BY <1>5, <2>1
  <2> QED BY <1>5, <1>10, <2>1, <2>2 DEF SameSizes
<1>12. /\ r2.tag \in [Word -> Btag] /\ r2.list \in Seq(Word) /\ IsInjective(r2.list)
       /\ Listed(r2) \cap V = {} /\ Tiled(r2.tag, B) /\ Flagged(r2.tag, Listed(r2), V)
  BY <1>10, <1>11 DEF Sound
<1>13. BlockEnd(r2.tag, lo) = hi /\ BlockEnd(r2.tag, hi) = BlockEnd(d.tag, hi)
       /\ size = r2.tag[lo].size + r2.tag[hi].size
  <2>1. r2.tag[lo].size = d.tag[lo].size /\ r2.tag[hi].size = d.tag[hi].size
    BY <1>1, <1>11 DEF SameSizes
  <2>2. size = d.tag[lo].size + d.tag[hi].size
    BY <1>2, SMTT(30)
  <2> QED BY <2>1, <2>2 DEF BlockEnd
<1> HIDE DEF size
<1>14. /\ n \in [Word -> Btag] /\ Tiled(n, B \ {hi})
       /\ n[lo].allocated /\ BlockEnd(n, lo) = BlockEnd(d.tag, hi)
       /\ \A x \in B \ {lo, hi} : n[x] = r2.tag[x]
  <2> DEFINE m == r2.tag
  <2>1. m \in [Word -> Btag] /\ Tiled(m, B) /\ lo \in B /\ hi \in B
    BY <1>1, <1>12
  <2>2. BlockEnd(m, lo) = hi /\ size = m[lo].size + m[hi].size
    BY <1>13
  <2>3. n = BlockInit(m, lo, size)
    OBVIOUS
  <2> HIDE DEF m, n, B
  <2>4. /\ n \in [Word -> Btag] /\ Tiled(n, B \ {hi})
        /\ n[lo].allocated /\ BlockEnd(n, lo) = BlockEnd(m, hi)
        /\ \A x \in B \ {lo, hi} : n[x] = m[x]
    BY <2>1, <2>2, <2>3, JoinTiled, SMTT(30)
  <2> QED BY <1>13, <2>4 DEF m
<1> HIDE DEF n
<1>15. f.tag = n /\ f.list = r2.list /\ Listed(f) = Listed(r2)
  BY DEF Listed
<1>16. Sound(f, V \ {hi})
  <2>1. Flagged(n, Listed(f), V \ {hi})
    <3>1. Listed(r2) \subseteq B \ {lo, hi} /\ V \ {lo, hi} \subseteq B \ {lo, hi}
      BY <1>11
    <3> QED BY <1>12, <1>14, <1>15, <3>1 DEF Flagged
  <2>2. Listed(f) \cup (V \ {hi}) = B \ {hi}
    <3>1. hi \notin Listed(r2) /\ Listed(r2) \cup V = B
      BY <1>11
    <3> HIDE DEF B, V
    <3> QED BY <1>15, <3>1
  <2>3. Listed(f) \cap (V \ {hi}) = {}
    BY <1>12, <1>15
  <2> HIDE DEF B, V
  <2> QED BY <1>12, <1>14, <1>15, <2>1, <2>2, <2>3 DEF Sound
<1> HIDE DEF f
<1>17. lo \in V \ {hi}
  BY <1>2, SMTT(30)
<1>18. /\ Sound(e, (V \ {hi}) \ {lo}) /\ Listed(e) = Listed(f) \cup {lo}
       /\ SameSizes(f.tag, e.tag, Listed(f) \cup (V \ {hi}))
  BY <1>9, <1>16, <1>17, AddSound
<1>19. (V \ {hi}) \ {lo} = U /\ Listed(e) = Listed(d) \ {hi}
       /\ Listed(f) \cup (V \ {hi}) = B \ {hi}
  BY <1>1, <1>2, <1>11, <1>15, <1>18, SMTT(30)
<1>20. BlockEnd(e.tag, lo) = BlockEnd(d.tag, hi)
  BY <1>1, <1>2, <1>14, <1>15, <1>18, <1>19 DEF SameSizes, BlockEnd
<1>21. SameSizes(d.tag, e.tag, B \ {lo, hi})
  BY <1>11, <1>14, <1>15, <1>18, <1>19, SMTT(30) DEF SameSizes
<1> QED BY <1>4, <1>18, <1>19, <1>20, <1>21

-----------------------------------------------------------------------------
\* What mem_alloc and mem_free do with a sound heap.

\* No two free blocks are neighbours.
Coalesced(d) == \A b \in Listed(d) : BlockEnd(d.tag, b) \notin Listed(d)

\* mem_free_list_find gives a free block that is large enough, or none is.
LEMMA FindProperties ==
  ASSUME NEW d, NEW U, Sound(d, U), NEW size \in Nat, NEW b, b = FreeListFind(d, size)
  PROVE  /\ b # NULL => b \in Listed(d) /\ d.tag[b].size >= size
         /\ b = NULL => \A c \in Listed(d) : ~(d.tag[c].size >= size)
<1> DEFINE F == Fits(d, size)
           i == CHOOSE k \in F : \A j \in F : k <= j
<1>1. d.list \in Seq(Word) /\ DOMAIN d.list = 1 .. Len(d.list) /\ Len(d.list) \in Nat
  BY SMTT(30) DEF Sound
<1>2. F = {k \in 1 .. Len(d.list) : d.tag[d.list[k]].size >= size}
  BY <1>1 DEF Fits
<1>3. CASE F = {}
  <2>1. b = NULL
    BY <1>3 DEF FreeListFind
  <2> QED BY <1>2, <1>3, <2>1 DEF Listed
<1>4. CASE F # {}
  <2>1. b = d.list[i]
    BY <1>4 DEF FreeListFind
  <2>2. F \in SUBSET Nat
    BY <1>1, <1>2, SMTT(30)
  <2> HIDE DEF F
  <2>3. \E k \in F : \A j \in F : k <= j
    BY <1>4, <2>2, LeastElement
  <2>4. i \in F
    BY <2>3
  <2> HIDE DEF i
  <2>5. i \in 1 .. Len(d.list) /\ d.tag[b].size >= size
    BY <1>2, <2>1, <2>4
  <2>6. b \in Listed(d) /\ b \in Word
    BY <1>1, <2>1, <2>5, SMTT(30) DEF Listed
  <2>7. b # NULL
    BY <2>6, MemAssumption, SMTT(30) DEF Word
  <2> QED BY <2>5, <2>6, <2>7
<1> QED BY <1>3, <1>4

\* mem_alloc takes a free block, without leaving two free neighbours.
LEMMA AllocSound ==
  ASSUME NEW d, NEW U, Sound(d, U), Coalesced(d), NEW size \in Nat, size >= MinSize,
         NEW b, b = FreeListFind(d, size), b # NULL,
         NEW e, e = Split(FreeListRemove(d, b), b, size)
  PROVE  /\ b \in Listed(d) /\ b \in Word
         /\ Sound(e, U \cup {b}) /\ Coalesced(e)
         /\ e.tag[b].size >= size
         /\ SameSizes(d.tag, e.tag, U)
<1> DEFINE r == FreeListRemove(d, b)
           B == Listed(d) \cup U
           V == U \cup {b}
<1>1. b \in Listed(d) /\ d.tag[b].size >= size
  BY FindProperties
<1>2. /\ d.tag \in [Word -> Btag] /\ Tiled(d.tag, B) /\ Listed(d) \cap U = {}
  BY DEF Sound
<1>3. /\ Sound(r, V) /\ Listed(r) = Listed(d) \ {b} /\ SameSizes(d.tag, r.tag, B)
  BY <1>1, RemoveSound
<1>4. e = Split(r, b, size)
  OBVIOUS
<1> HIDE DEF r
<1>5. /\ b \in Word /\ b \in Int /\ d.tag[b].size \in Nat
      /\ BlockEnd(d.tag, b) = b + d.tag[b].size
  BY <1>1, <1>2, BlockInHeap, SMTT(30)
<1>6. r.tag[b].size = d.tag[b].size /\ Listed(r) \cup V = B
  BY <1>1, <1>3 DEF SameSizes
<1>7. CASE r.tag[b].size < size + MinSize
  <2>1. e = r
    BY <1>4, <1>7 DEF Split
  <2>2. Coalesced(r)
    BY <1>3 DEF Coalesced, SameSizes, BlockEnd
  <2> QED BY <1>1, <1>3, <1>5, <1>6, <2>1, <2>2 DEF SameSizes
<1>8. CASE ~(r.tag[b].size < size + MinSize)
  <2> DEFINE c == b + size
  <2>1. r.tag[b].size >= size + MinSize
    BY <1>5, <1>6, <1>8, SMTT(30) DEF MinSize
  <2>2. /\ Sound(e, V) /\ c \notin Listed(r) \cup V
        /\ Listed(e) = Listed(r) \cup {c} /\ e.tag[b].size = size
        /\ BlockEnd(e.tag, c) = BlockEnd(r.tag, b)
        /\ SameSizes(r.tag, e.tag, (Listed(r) \cup V) \ {b})
    <3>1. b \in V
      OBVIOUS
    <3> HIDE DEF V
    <3> QED BY <1>3, <1>4, <2>1, <3>1, SplitSound, SMTT(30)
  <2> HIDE DEF c
  <2>3. SameSizes(d.tag, e.tag, B \ {b}) /\ BlockEnd(e.tag, c) = BlockEnd(d.tag, b)
    BY <1>3, <1>6, <2>2, SMTT(30) DEF SameSizes, BlockEnd
  <2>4. BlockEnd(e.tag, c) \notin Listed(e)
    <3>1. BlockEnd(d.tag, b) \notin Listed(d)
      BY <1>1 DEF Coalesced
    <3>2. BlockEnd(e.tag, c) # c
      <4>1. c \in Listed(e) \cup V /\ e.tag \in [Word -> Btag] /\ Tiled(e.tag, Listed(e) \cup V)
        BY <2>2 DEF Sound
      <4>2. c \in Int /\ e.tag[c].size \in Nat /\ e.tag[c].size >= 4
            /\ BlockEnd(e.tag, c) = c + e.tag[c].size
        BY <4>1, BlockInHeap, SMTT(30)
      <4> QED BY <4>2, SMTT(30)
    <3> QED BY <1>3, <2>2, <2>3, <3>1, <3>2
  <2>5. ASSUME NEW x \in Listed(e), x # c
        PROVE  BlockEnd(e.tag, x) \notin Listed(e)
    <3>1. x \in Listed(d) /\ x # b
      BY <1>3, <2>2, <2>5
    <3>2. BlockEnd(e.tag, x) = BlockEnd(d.tag, x)
      BY <2>3, <3>1 DEF SameSizes, BlockEnd
    <3>3. BlockEnd(d.tag, x) \notin Listed(d)
      BY <3>1 DEF Coalesced
    <3>4. BlockEnd(e.tag, x) # c
      <4>1. /\ x \in Listed(e) \cup V /\ b \in Listed(e) \cup V
            /\ e.tag \in [Word -> Btag] /\ Tiled(e.tag, Listed(e) \cup V)
        BY <2>2 DEF Sound
      <4>2. x + e.tag[x].size <= b \/ b + e.tag[b].size <= x
        BY <3>1, <4>1, Disjoint, SMTT(30)
      <4>3. /\ x \in Int /\ e.tag[x].size \in Nat /\ e.tag[x].size >= 4
            /\ BlockEnd(e.tag, x) = x + e.tag[x].size
        BY <4>1, BlockInHeap, SMTT(30)
      <4> QED BY <1>5, <2>2, <4>2, <4>3, SMTT(30) DEF c, MinSize
    <3> QED BY <1>3, <2>2, <3>2, <3>3, <3>4
  <2>6. Coalesced(e)
    BY <2>4, <2>5 DEF Coalesced
  <2>7. SameSizes(d.tag, e.tag, U)
    BY <1>1, <1>2, <2>3 DEF SameSizes
  <2> QED BY <1>1, <1>5, <2>2, <2>6, <2>7, SMTT(30)
<1> QED BY <1>7, <1>8

\* Only b may have a free neighbour after it.
Loose(d, b) == \A x \in Listed(d) : BlockEnd(d.tag, x) \in Listed(d) => x = b

\* The first merge of mem_free, with the block before the one it has added.
LEMMA MergePrev ==
  ASSUME NEW d, NEW U, Sound(d, U), NEW b \in Listed(d),
         \A x \in Listed(d) : BlockEnd(d.tag, x) \in Listed(d) => b \in {x, BlockEnd(d.tag, x)},
         NEW p, p = Prev(d.tag, b), NEW e, e = Merge(d, b, p), NEW c, c = Merged(d, b, p)
  PROVE  /\ Sound(e, U) /\ c \in Listed(e) /\ Loose(e, c)
         /\ SameSizes(d.tag, e.tag, U)
<1> DEFINE B == Listed(d) \cup U
<1>1. /\ d.tag \in [Word -> Btag] /\ Tiled(d.tag, B) /\ Listed(d) \cap U = {}
      /\ Flagged(d.tag, Listed(d), U) /\ b \in B
  BY DEF Sound
<1>2. CASE Mergeable(d, b, p)
  <2>1. b # 0
    BY <1>2 DEF Mergeable, Prev
  <2>2. p \in B /\ BlockEnd(d.tag, p) = b
    BY <1>1, <2>1, PrevIsBlock
  <2>3. p \in Listed(d)
    BY <1>1, <1>2, <2>2 DEF Mergeable, Flagged
  <2>4. /\ Sound(e, U) /\ c = p /\ Listed(e) = Listed(d) \ {b}
        /\ SameSizes(d.tag, e.tag, B \ {p, b})
    BY <2>2, <2>3, MergeSound, SMTT(30)
  <2>5. p # b
    <3>1. p \in Int /\ d.tag[p].size \in Nat /\ d.tag[p].size >= 4
          /\ BlockEnd(d.tag, p) = p + d.tag[p].size
      BY <1>1, <2>2, BlockInHeap
    <3> QED BY <2>2, <3>1, SMTT(30)
  <2>6. Loose(e, p)
    <3> SUFFICES ASSUME NEW x \in Listed(e), x # p, BlockEnd(e.tag, x) \in Listed(e)
                 PROVE  FALSE
      BY DEF Loose
    <3>1. x \in Listed(d) /\ x # b /\ BlockEnd(e.tag, x) = BlockEnd(d.tag, x)
      BY <2>4 DEF SameSizes, BlockEnd
    <3> QED BY <2>4, <3>1
  <2>7. SameSizes(d.tag, e.tag, U)
    BY <1>1, <2>3, <2>4 DEF SameSizes
  <2> QED BY <2>3, <2>4, <2>5, <2>6, <2>7
<1>3. CASE ~Mergeable(d, b, p)
  <2>1. e = d /\ c = b
    BY <1>3 DEF Merge, Merged
  <2>2. Loose(d, b)
    <3> SUFFICES ASSUME NEW x \in Listed(d), x # b, BlockEnd(d.tag, x) = b
                 PROVE  FALSE
      BY DEF Loose
    <3>1. /\ x \in Int /\ x >= 0 /\ d.tag[x].size \in Nat /\ d.tag[x].size >= 4
          /\ b = x + d.tag[x].size
      BY <1>1, BlockInHeap, SMTT(30) DEF Word
    <3>2. b # 0
      BY <3>1, SMTT(30)
    <3>3. p \in B /\ BlockEnd(d.tag, p) = b
      BY <1>1, <3>2, PrevIsBlock
    <3>4. /\ p \in Int /\ d.tag[p].size \in Nat /\ d.tag[p].size >= 4
          /\ b = p + d.tag[p].size
      BY <1>1, <3>3, BlockInHeap, SMTT(30)
    <3>5. p = x
      <4>1. p # x => p + d.tag[p].size <= x \/ x + d.tag[x].size <= p
        BY <1>1, <3>3, Disjoint
      <4> QED BY <3>1, <3>4, <4>1, SMTT(30)
    <3>6. p # NULL
      BY <3>4, MemAssumption
    <3> QED BY <1>1, <1>3, <3>5, <3>6 DEF Mergeable, Flagged
  <2> QED BY <2>1, <2>2 DEF SameSizes
<1> QED BY <1>2, <1>3

\* The second merge, with the block after: no free neighbours remain.
LEMMA MergeNext ==
  ASSUME NEW d, NEW U, Sound(d, U), NEW b \in Listed(d), Loose(d, b),
         NEW n, n = BlockNext(d.tag, b), NEW e, e = Merge(d, b, n)
  PROVE  Sound(e, U) /\ Coalesced(e) /\ SameSizes(d.tag, e.tag, U)
<1> DEFINE B == Listed(d) \cup U
<1>1. /\ d.tag \in [Word -> Btag] /\ Tiled(d.tag, B) /\ Listed(d) \cap U = {}
      /\ Flagged(d.tag, Listed(d), U) /\ b \in B
  BY DEF Sound
<1>2. CASE Mergeable(d, b, n)
  <2>1. n # NULL
    BY <1>2 DEF Mergeable
  <2>2. n \in B /\ BlockEnd(d.tag, b) = n
    BY <1>1, <2>1, NextIsBlock
  <2>3. n \in Listed(d)
    BY <1>1, <1>2, <2>2 DEF Mergeable, Flagged
  <2>4. /\ Sound(e, U) /\ Listed(e) = Listed(d) \ {n}
        /\ BlockEnd(e.tag, b) = BlockEnd(d.tag, n)
        /\ SameSizes(d.tag, e.tag, B \ {b, n})
    BY <2>2, <2>3, MergeSound, SMTT(30)
  <2>5. n # b
    <3>1. b \in Int /\ d.tag[b].size \in Nat /\ d.tag[b].size >= 4
          /\ BlockEnd(d.tag, b) = b + d.tag[b].size
      BY <1>1, BlockInHeap
    <3> QED BY <2>2, <3>1, SMTT(30)
  <2>6. ASSUME NEW x \in Listed(e) PROVE BlockEnd(e.tag, x) \notin Listed(e)
    <3>1. CASE x = b
      BY <2>3, <2>4, <2>5, <3>1 DEF Loose
    <3>2. CASE x # b
      <4>1. x \in Listed(d) /\ BlockEnd(e.tag, x) = BlockEnd(d.tag, x)
        BY <2>4, <3>2 DEF SameSizes, BlockEnd
      <4> QED BY <2>4, <3>2, <4>1 DEF Loose
    <3> QED BY <3>1, <3>2
  <2>7. SameSizes(d.tag, e.tag, U)
    BY <1>1, <2>3, <2>4 DEF SameSizes
  <2> QED BY <2>4, <2>6, <2>7 DEF Coalesced
<1>3. CASE ~Mergeable(d, b, n)
  <2>1. e = d
    BY <1>3 DEF Merge
  <2>2. ASSUME BlockEnd(d.tag, b) \in Listed(d) PROVE FALSE
    <3>1. BlockEnd(d.tag, b) \in Word /\ HeapWords \in Nat
      BY <1>1, <2>2, BlockInHeap, SMTT(30)
    <3>2. BlockEnd(d.tag, b) # HeapWords /\ BlockEnd(d.tag, b) # NULL
      BY <3>1, MemAssumption, SMTT(30) DEF Word
    <3>3. n = BlockEnd(d.tag, b)
      BY <3>2 DEF BlockNext
    <3> QED BY <1>1, <1>3, <2>2, <3>2, <3>3 DEF Mergeable, Flagged
  <2>3. Coalesced(d)
    BY <2>2 DEF Coalesced, Loose
  <2> QED BY <2>1, <2>3 DEF SameSizes
<1> QED BY <1>2, <1>3

\* mem_free gives a block back and leaves no free neighbours.
LEMMA FreeSound ==
  ASSUME NEW d, NEW U, Sound(d, U), Coalesced(d), NEW b \in U,
         NEW d1, d1 = FreeListAdd(d, b),
         NEW p, p = Prev(d1.tag, b), NEW d2, d2 = Merge(d1, b, p),
         NEW c, c = Merged(d1, b, p),
         NEW e, e = Merge(d2, c, BlockNext(d2.tag, c))
  PROVE  /\ Sound(e, U \ {b}) /\ Coalesced(e)
         /\ SameSizes(d.tag, e.tag, U \ {b})
<1> DEFINE V == U \ {b}
<1>1. /\ Sound(d1, V) /\ Listed(d1) = Listed(d) \cup {b}
      /\ SameSizes(d.tag, d1.tag, Listed(d) \cup U)
  BY AddSound
<1> HIDE DEF V
<1>2. ASSUME NEW x \in Listed(d1), BlockEnd(d1.tag, x) \in Listed(d1)
      PROVE  b \in {x, BlockEnd(d1.tag, x)}
  <2>1. CASE x = b
    BY <2>1
  <2>2. CASE x # b
    <3>1. x \in Listed(d) /\ BlockEnd(d1.tag, x) = BlockEnd(d.tag, x)
      BY <1>1, <2>2 DEF SameSizes, BlockEnd
    <3>2. BlockEnd(d.tag, x) \notin Listed(d)
      BY <3>1 DEF Coalesced
    <3> QED BY <1>1, <1>2, <3>1, <3>2
  <2> QED BY <2>1, <2>2
<1>3. b \in Listed(d1)
  BY <1>1
<1>4. Sound(d2, V) /\ c \in Listed(d2) /\ Loose(d2, c) /\ SameSizes(d1.tag, d2.tag, V)
  BY <1>1, <1>2, <1>3, MergePrev
<1>5. Sound(e, V) /\ Coalesced(e) /\ SameSizes(d2.tag, e.tag, V)
  BY <1>4, MergeNext, SMTT(30)
<1>6. SameSizes(d.tag, e.tag, V)
  BY <1>1, <1>4, <1>5, SMTT(30) DEF SameSizes, V
<1> QED BY <1>5, <1>6 DEF V

-----------------------------------------------------------------------------
\* The inductive invariant of the allocator.

\* The sizes for which mem_convert_to_block_size does not wrap around.
SmallRequest == 0 .. SizeRange - 3 * Align

\* A block being freed has no owner, and one thread frees it.
FreedOnce ==
  \A t \in Thread : freeing[t] # NULL =>
    /\ live[freeing[t]] = 0
    /\ \A u \in Thread : u # t => freeing[u] # freeing[t]

\* A block holds what its owner asked for and its two tags.
Roomy ==
  \A b \in Word : live[b] # 0 =>
    tag[b].size >= (live[b] + Align - 1) \div Align + 2 * BtagSize

MemInv ==
  /\ Sound(Current, UsedBlocks) /\ Coalesced(Current)
  /\ live \in [Word -> Nat] /\ freeing \in [Thread -> Word \cup {NULL}]
  /\ FreedOnce
  /\ Roomy

\* Reduction modulo m leaves the numbers below m alone.
LEMMA ModSmall ==
  ASSUME NEW m \in Nat, NEW a \in Nat, a < m
  PROVE  a % m = a
BY SMTT(30)

\* mem_convert_to_block_size makes room for the request and the tags, if the
\* arithmetic of size_t does not wrap around.
LEMMA ConvertProperties ==
  ASSUME NEW n \in SmallRequest
  PROVE  /\ ConvertToBlockSize(n) \in Nat
         /\ ConvertToBlockSize(n) >= MinSize
         /\ ConvertToBlockSize(n) >= (n + Align - 1) \div Align + 2 * BtagSize
<1> DEFINE k == SizeRange \div 4
           q == (n + 3) \div 4
<1>1. SizeRange \in Nat /\ SizeRange % 4 = 0 /\ n \in Nat /\ n + 3 <= SizeRange - 9
  BY MemAssumption, SMTT(30) DEF SmallRequest, Align
<1>2. k \in Nat /\ SizeRange = 4 * k
  BY <1>1, SMTT(30)
<1>3. q \in Nat /\ 4 * q <= n + 3
  BY <1>1, SMTT(30)
<1>4. n + 3 \in Nat /\ n + 3 < SizeRange
  BY <1>1, SMTT(30)
<1>5. (n + 3) % SizeRange = n + 3
  BY <1>1, <1>4, ModSmall
<1> HIDE DEF k, q
<1>6. q + 2 \in Nat /\ q + 2 < k
  BY <1>1, <1>2, <1>3, SMTT(30)
<1>7. (q + 2) % k = q + 2
  BY <1>2, <1>6, ModSmall
<1>8. n + Align - 1 = n + 3 /\ (n + Align - 1) \div Align = q /\ 2 * BtagSize = 2
      /\ SizeRange \div Align = k
  BY <1>1, SMTT(30) DEF Align, BtagSize, q, k
<1>9. ((n + Align - 1) % SizeRange) \div Align = q
  BY <1>5, <1>8 DEF Align, q
<1>10. ConvertToBlockSize(n) = IF q + 2 < MinSize THEN MinSize ELSE q + 2
  BY <1>7, <1>8, <1>9 DEF ConvertToBlockSize
<1> QED BY <1>3, <1>6, <1>8, <1>10, SMTT(30) DEF MinSize

\* mem_setup
LEMMA InitMem ==
  ASSUME Init
  PROVE  MemInv
<1> DEFINE m0 == [w \in Word |-> [size |-> 0, allocated |-> FALSE]]
           d0 == [tag |-> InitialTags, list |-> <<>>]
           X  == [size |-> HeapWords, allocated |-> TRUE]
<1>1. HeapWords \in Nat /\ HeapWords >= 4
  BY MemAssumption DEF MinSize
<1>2. 0 \in Word /\ HeapWords - 1 \in Word
  BY <1>1, SMTT(30) DEF Word
<1>3. InitialTags = [m0 EXCEPT ![0] = X, ![HeapWords - 1] = X]
  BY <1>1, SMTT(30) DEF InitialTags, BlockInit
<1>4. X \in Btag /\ X.size = HeapWords /\ X.allocated
  BY <1>1 DEF Btag
<1>5. m0 \in [Word -> Btag]
  BY DEF Btag
<1> HIDE DEF m0, X
<1>6. InitialTags \in [Word -> Btag] /\ InitialTags[0] = X /\ InitialTags[HeapWords - 1] = X
  BY <1>2, <1>3, <1>4, <1>5
<1>7. Tiled(InitialTags, {0})
  <2>1. BlockEnd(InitialTags, 0) = HeapWords /\ Footer(InitialTags, 0) = HeapWords - 1
    BY <1>1, <1>4, <1>6, SMTT(30) DEF BlockEnd, Footer
  <2> QED BY <1>1, <1>2, <1>4, <1>6, <2>1, SMTT(30) DEF Tiled, MinSize
<1>8. Listed(d0) = {}
  BY SMTT(30) DEF Listed
<1>9. d0.tag = InitialTags /\ d0.list = <<>>
      /\ d0 \in [tag : [Word -> Btag], list : Seq(Word)] /\ IsInjective(d0.list)
  BY <1>6, SMTT(30) DEF IsInjective
<1>10. Sound(d0, {0})
  <2>1. Listed(d0) \cup {0} = {0} /\ Flagged(InitialTags, Listed(d0), {0})
    BY <1>4, <1>6, <1>8 DEF Flagged
  <2> QED BY <1>7, <1>8, <1>9, <2>1 DEF Sound
<1> HIDE DEF d0
<1>11. tag = FreeListAdd(d0, 0).tag /\ free_nodes = FreeListAdd(d0, 0).list
  BY DEF Init, d0
<1>12. Current = FreeListAdd(d0, 0)
  BY <1>11 DEF Current, FreeListAdd
<1>13. Sound(Current, {0} \ {0}) /\ Listed(Current) = Listed(d0) \cup {0}
       /\ SameSizes(d0.tag, Current.tag, Listed(d0) \cup {0})
  BY <1>10, <1>12, AddSound
<1>14. UsedBlocks = {}
  BY DEF Init, UsedBlocks
<1>15. Sound(Current, UsedBlocks)
  <2>1. {0} \ {0} = UsedBlocks
    BY <1>14
  <2> QED BY <1>13, <2>1
<1>16. Coalesced(Current)
  <2>1. Listed(Current) = {0} /\ Current.tag[0].size = HeapWords
    BY <1>4, <1>6, <1>8, <1>9, <1>13 DEF SameSizes
  <2> QED BY <1>1, <2>1, SMTT(30) DEF Coalesced, BlockEnd
<1> QED BY <1>15, <1>16 DEF MemInv, Init, FreedOnce, Roomy

\* A change of the allocator to d is the value of Current after it.
LEMMA BecomesCurrent ==
  ASSUME NEW d, NEW U, Sound(d, U), Becomes(d)
  PROVE  Current' = d
BY DEF Becomes, Current, Sound

\* mem_alloc returning a block: it was free, and holds the request.
LEMMA AllocStep ==
  ASSUME MemInv, NEW t \in Thread, NEW n \in SmallRequest, Alloc(t, n),
         NEW b, b = FreeListFind(Current, ConvertToBlockSize(n))
  PROVE  /\ MemInv'
         /\ b \in Word /\ b \notin UsedBlocks /\ live' = [live EXCEPT ![b] = n]
<1> DEFINE size == ConvertToBlockSize(n)
           e == Split(FreeListRemove(Current, b), b, size)
<1>1. /\ Sound(Current, UsedBlocks) /\ Coalesced(Current)
      /\ live \in [Word -> Nat] /\ freeing \in [Thread -> Word \cup {NULL}]
      /\ FreedOnce /\ Roomy
  BY DEF MemInv
<1>2. /\ n # 0 /\ b # NULL /\ Becomes(e) /\ live' = [live EXCEPT ![b] = n]
      /\ freeing' = freeing
  BY DEF Alloc
<1>3. /\ size \in Nat /\ size >= MinSize
      /\ size >= (n + Align - 1) \div Align + 2 * BtagSize
  BY ConvertProperties
<1>4. b = FreeListFind(Current, size)
  OBVIOUS
<1> HIDE DEF size
<1>5. /\ b \in Listed(Current) /\ b \in Word
      /\ Sound(e, UsedBlocks \cup {b}) /\ Coalesced(e)
      /\ e.tag[b].size >= size /\ SameSizes(Current.tag, e.tag, UsedBlocks)
  <2> DEFINE d == Current
             U == UsedBlocks
  <2>1. Sound(d, U) /\ Coalesced(d)
    BY <1>1
  <2>2. e = Split(FreeListRemove(d, b), b, size) /\ b = FreeListFind(d, size) /\ b # NULL
    BY <1>2, <1>4
  <2>3. size \in Nat /\ size >= MinSize
    BY <1>3
  <2> HIDE DEF d, U, e
  <2>4. /\ b \in Listed(d) /\ b \in Word
        /\ Sound(e, U \cup {b}) /\ Coalesced(e)
        /\ e.tag[b].size >= size /\ SameSizes(d.tag, e.tag, U)
    BY <2>1, <2>2, <2>3, AllocSound
  <2> QED BY <2>4 DEF d, U
<1>6. b \notin UsedBlocks
  BY <1>1, <1>5 DEF Sound
<1> HIDE DEF e
<1>7. Current' = e /\ tag' = e.tag
  BY <1>2, <1>5, BecomesCurrent DEF Becomes
<1>8. n \in Nat
  BY SMTT(30) DEF SmallRequest
<1>9. UsedBlocks' = UsedBlocks \cup {b}
  <2>1. {x \in Word : live'[x] # 0} = {x \in Word : live[x] # 0} \cup {b}
    BY <1>1, <1>2, <1>5
  <2> QED BY <1>2, <2>1, SMTT(30) DEF UsedBlocks
<1>10. live' \in [Word -> Nat] /\ freeing' \in [Thread -> Word \cup {NULL}]
  BY <1>1, <1>2, <1>5, <1>8
<1>11. FreedOnce'
  <2>1. \A u \in Thread : freeing[u] # NULL => freeing[u] # b
    BY <1>6 DEF UsedBlocks
  <2> QED BY <1>1, <1>2, <2>1 DEF FreedOnce
<1>12. Roomy'
  <2> SUFFICES ASSUME NEW x \in Word, live'[x] # 0
               PROVE  tag'[x].size >= (live'[x] + Align - 1) \div Align + 2 * BtagSize
    BY DEF Roomy
  <2>1. CASE x = b
    <3>1. live'[b] = n
      BY <1>1, <1>2, <1>5
    <3>2. e.tag[b].size \in Nat /\ (n + Align - 1) \div Align + 2 * BtagSize \in Int
      <4>1. e.tag \in [Word -> Btag]
        BY <1>5 DEF Sound
      <4> QED BY <1>5, <1>8, <4>1, SMTT(30) DEF Btag, Align, BtagSize
    <3> QED BY <1>3, <1>5, <1>7, <2>1, <3>1, <3>2, SMTT(30)
  <2>2. CASE x # b
    <3>1. live'[x] = live[x] /\ x \in UsedBlocks
      BY <1>1, <1>2, <1>5, <2>2 DEF UsedBlocks
    <3>2. tag'[x].size = tag[x].size
      BY <1>5, <1>7, <3>1 DEF SameSizes, Current
    <3> QED BY <1>1, <3>1, <3>2 DEF Roomy
  <2> QED BY <2>1, <2>2
<1>13. Sound(Current', UsedBlocks') /\ Coalesced(Current')
  BY <1>5, <1>7, <1>9
<1> QED BY <1>2, <1>5, <1>6, <1>10, <1>11, <1>12, <1>13 DEF MemInv

\* A step that leaves the allocator alone, mem_alloc returning NULL included.
LEMMA UnchangedStep ==
  ASSUME MemInv, UNCHANGED vars
  PROVE  MemInv'
<1>1. Current' = Current /\ UsedBlocks' = UsedBlocks
  BY DEF vars, Current, UsedBlocks
<1>2. FreedOnce' /\ Roomy'
  BY DEF MemInv, vars, FreedOnce, Roomy
<1> QED BY <1>1, <1>2 DEF MemInv, vars

\* mem_free before it locks: the block changes hands.
LEMMA FreeCallStep ==
  ASSUME MemInv, NEW t \in Thread, NEW b \in Word, FreeCall(t, b)
  PROVE  MemInv'
<1>1. /\ Sound(Current, UsedBlocks) /\ Coalesced(Current)
      /\ live \in [Word -> Nat] /\ freeing \in [Thread -> Word \cup {NULL}]
      /\ FreedOnce /\ Roomy
  BY DEF MemInv
<1>2. /\ freeing[t] = NULL /\ live[b] # 0
      /\ live' = [live EXCEPT ![b] = 0] /\ freeing' = [freeing EXCEPT ![t] = b]
      /\ tag' = tag /\ free_nodes' = free_nodes
  BY DEF FreeCall
<1>3. b # NULL
  BY MemAssumption, SMTT(30) DEF Word
<1>4. Current' = Current
  BY <1>2 DEF Current
<1>5. live' \in [Word -> Nat] /\ freeing' \in [Thread -> Word \cup {NULL}]
  BY <1>1, <1>2
<1>6. UsedBlocks' = UsedBlocks
  <2>1. {x \in Word : live'[x] # 0} = {x \in Word : live[x] # 0} \ {b}
    BY <1>1, <1>2
  <2>2. {freeing'[u] : u \in Thread} \ {NULL} = ({freeing[u] : u \in Thread} \ {NULL}) \cup {b}
    <3>1. \A u \in Thread : freeing'[u] = IF u = t THEN b ELSE freeing[u]
      BY <1>1, <1>2
    <3> QED BY <1>2, <1>3, <3>1
  <2>3. b \in {x \in Word : live[x] # 0}
    BY <1>2
  <2> QED BY <2>1, <2>2, <2>3 DEF UsedBlocks
<1>7. FreedOnce'
  <2>1. \A u \in Thread : freeing[u] # b
    BY <1>1, <1>2, <1>3 DEF FreedOnce
  <2>2. \A u \in Thread : freeing'[u] = IF u = t THEN b ELSE freeing[u]
    BY <1>1, <1>2
  <2>3. \A x \in Word : live'[x] = IF x = b THEN 0 ELSE live[x]
    BY <1>1, <1>2
  <2> SUFFICES ASSUME NEW u \in Thread, freeing'[u] # NULL
               PROVE  /\ live'[freeing'[u]] = 0
                      /\ \A v \in Thread : v # u => freeing'[v] # freeing'[u]
    BY DEF FreedOnce
  <2>4. CASE u = t
    BY <2>1, <2>2, <2>3, <2>4
  <2>5. CASE u # t
    BY <1>1, <1>5, <2>1, <2>2, <2>3, <2>5, SMTT(30) DEF FreedOnce
  <2> QED BY <2>4, <2>5
<1>8. Roomy'
  <2>1. \A x \in Word : live'[x] # 0 => live'[x] = live[x]
    BY <1>1, <1>2
  <2> QED BY <1>1, <1>2, <2>1 DEF Roomy
<1>9. Sound(Current', UsedBlocks') /\ Coalesced(Current')
  BY <1>1, <1>4, <1>6
<1> QED BY <1>5, <1>7, <1>8, <1>9 DEF MemInv

\* mem_free once it has locked: the block becomes free.
LEMMA FreeStep ==
  ASSUME MemInv, NEW t \in Thread, Free(t)
  PROVE  MemInv'
<1> DEFINE b  == freeing[t]
           d1 == FreeListAdd(Current, b)
           p  == Prev(d1.tag, b)
           d2 == Merge(d1, b, p)
           c  == Merged(d1, b, p)
           e  == Merge(d2, c, BlockNext(d2.tag, c))
<1>1. /\ Sound(Current, UsedBlocks) /\ Coalesced(Current)
      /\ live \in [Word -> Nat] /\ freeing \in [Thread -> Word \cup {NULL}]
      /\ FreedOnce /\ Roomy
  BY DEF MemInv
<1>2. /\ b # NULL /\ Becomes(e) /\ freeing' = [freeing EXCEPT ![t] = NULL]
      /\ live' = live
  BY DEF Free
<1>3. b \in UsedBlocks /\ b \in Word
  BY <1>1, <1>2 DEF UsedBlocks
<1> HIDE DEF b
<1>4. /\ Sound(e, UsedBlocks \ {b}) /\ Coalesced(e)
      /\ SameSizes(Current.tag, e.tag, UsedBlocks \ {b})
  <2> DEFINE d == Current
             U == UsedBlocks
  <2>1. d1 = FreeListAdd(d, b) /\ Sound(d, U) /\ Coalesced(d) /\ b \in U
    BY <1>1, <1>3
  <2> HIDE DEF d, U, d1
  <2>2. p = Prev(d1.tag, b) /\ d2 = Merge(d1, b, p) /\ c = Merged(d1, b, p)
    OBVIOUS
  <2> HIDE DEF p, d2, c
  <2>3. e = Merge(d2, c, BlockNext(d2.tag, c))
    OBVIOUS
  <2> HIDE DEF e
  <2>4. Sound(e, U \ {b}) /\ Coalesced(e) /\ SameSizes(d.tag, e.tag, U \ {b})
    BY <2>1, <2>2, <2>3, FreeSound, SMTT(30)
  <2> QED BY <2>4 DEF d, U
<1> HIDE DEF e
<1>5. Current' = e /\ tag' = e.tag
  BY <1>2, <1>4, BecomesCurrent DEF Becomes
<1>6. \A u \in Thread : freeing'[u] = IF u = t THEN NULL ELSE freeing[u]
  BY <1>1, <1>2
<1>7. live[b] = 0 /\ \A u \in Thread : u # t => freeing[u] # b
  BY <1>1, <1>2 DEF FreedOnce, b
<1>8. UsedBlocks' = UsedBlocks \ {b}
  <2>1. {freeing'[u] : u \in Thread} \ {NULL} = ({freeing[u] : u \in Thread} \ {NULL}) \ {b}
    <3>1. freeing[t] = b
      BY DEF b
    <3> QED BY <1>6, <1>7, <3>1
  <2>2. b \notin {x \in Word : live[x] # 0}
    BY <1>7
  <2> QED BY <1>2, <2>1, <2>2 DEF UsedBlocks
<1>9. freeing' \in [Thread -> Word \cup {NULL}]
  BY <1>1, <1>2
<1>10. FreedOnce'
  BY <1>1, <1>2, <1>6 DEF FreedOnce
<1>11. Roomy'
  <2> SUFFICES ASSUME NEW x \in Word, live[x] # 0
               PROVE  tag'[x].size = tag[x].size
    BY <1>1, <1>2 DEF Roomy
  <2>1. x \in UsedBlocks \ {b}
    BY <1>7 DEF UsedBlocks
  <2> QED BY <1>4, <1>5, <2>1 DEF SameSizes, Current
<1>12. Sound(Current', UsedBlocks') /\ Coalesced(Current')
  BY <1>4, <1>5, <1>8
<1> QED BY <1>1, <1>2, <1>9, <1>10, <1>11, <1>12 DEF MemInv

\* What a client may write lies between the tags of its block.
LEMMA PayloadInside ==
  ASSUME MemInv, NEW b \in Word, live[b] # 0, NEW w \in Payload(b, live[b])
  PROVE  /\ b \in UsedBlocks /\ w \in Int /\ b < w /\ w < b + tag[b].size - 1
         /\ tag[b].size \in Nat /\ Footer(tag, b) = b + tag[b].size - 1
<1>1. b \in UsedBlocks
  BY DEF UsedBlocks
<1>2. /\ b \in Int /\ tag[b].size \in Nat /\ Footer(tag, b) = b + tag[b].size - 1
  <2>1. /\ tag \in [Word -> Btag] /\ Tiled(tag, Listed(Current) \cup UsedBlocks)
        /\ b \in Listed(Current) \cup UsedBlocks
    BY <1>1 DEF MemInv, Sound, Current
  <2> QED BY <2>1, BlockInHeap
<1> DEFINE q == (live[b] + Align - 1) \div Align
<1>3. live[b] \in Nat
  BY DEF MemInv
<1>4. q \in Int
  BY <1>3, SMTT(30) DEF Align
<1>5. tag[b].size >= q + 2 /\ w \in b + 1 .. b + 1 + q - 1
  BY SMTT(30) DEF MemInv, Roomy, Payload, BtagSize
<1> HIDE DEF q
<1>6. w \in Int /\ b < w /\ w < b + tag[b].size - 1
  BY <1>2, <1>4, <1>5, SMTT(30)
<1> QED BY <1>1, <1>2, <1>6

\* A client writing to its memory changes no tag of a block.
LEMMA WriteStep ==
  ASSUME MemInv, NEW b \in Word, Write(b)
  PROVE  MemInv'
<1> DEFINE B == Listed(Current) \cup UsedBlocks
<1>1. /\ Sound(Current, UsedBlocks) /\ Coalesced(Current)
      /\ live \in [Word -> Nat] /\ freeing \in [Thread -> Word \cup {NULL}]
      /\ FreedOnce /\ Roomy
  BY DEF MemInv
<1>2. /\ live[b] # 0 /\ free_nodes' = free_nodes /\ live' = live /\ freeing' = freeing
      /\ tag' = [w \in Word |-> IF w \in Payload(b, live[b])
                                 THEN [size |-> 0, allocated |-> FALSE] ELSE tag[w]]
  BY DEF Write
<1>3. /\ tag \in [Word -> Btag] /\ free_nodes \in Seq(Word) /\ IsInjective(free_nodes)
      /\ Listed(Current) \cap UsedBlocks = {}
      /\ Tiled(tag, B) /\ Flagged(tag, Listed(Current), UsedBlocks)
  BY <1>1 DEF Sound, Current
<1>4. tag' \in [Word -> Btag]
  BY <1>2, <1>3 DEF Btag
<1>5. \A w \in Word : w \notin Payload(b, live[b]) => tag'[w] = tag[w]
  BY <1>2
<1>6. b \in UsedBlocks /\ b \in B
  BY <1>2 DEF UsedBlocks
<1>7. \A w \in Payload(b, live[b]) : w \in Int /\ b < w /\ w < b + tag[b].size - 1
  BY <1>2, PayloadInside
<1>8. /\ b \in Int /\ tag[b].size \in Nat /\ Footer(tag, b) \in Word
      /\ Footer(tag, b) = b + tag[b].size - 1
  BY <1>3, <1>6, BlockInHeap
<1>9. tag'[b] = tag[b] /\ tag'[Footer(tag, b)] = tag[Footer(tag, b)]
  <2>1. b \notin Payload(b, live[b]) /\ Footer(tag, b) \notin Payload(b, live[b])
    BY <1>7, <1>8, SMTT(30)
  <2> QED BY <1>5, <1>8, <2>1
<1>10. ASSUME NEW x \in B
       PROVE  tag'[x] = tag[x] /\ Footer(tag', x) = Footer(tag, x)
              /\ BlockEnd(tag', x) = BlockEnd(tag, x) /\ tag'[Footer(tag', x)] = tag'[x]
  <2>1. CASE x = b
    BY <1>3, <1>9, <2>1 DEF Footer, BlockEnd, Tiled
  <2>2. CASE x # b
    <3> DEFINE n == tag'
    <3>1. \A w \in Word : w \in b .. b + tag[b].size - 1 \/ n[w] = tag[w]
      BY <1>5, <1>7, <1>8, SMTT(30)
    <3>2. n \in [Word -> Btag]
      BY <1>4
    <3> HIDE DEF n
    <3>3. /\ n[x] = tag[x] /\ n[Footer(n, x)] = n[x]
          /\ BlockEnd(n, x) = BlockEnd(tag, x) /\ Footer(n, x) = Footer(tag, x)
      <4> HIDE DEF B
      <4> QED BY <1>3, <1>6, <2>2, <3>1, <3>2, OthersKept, SMTT(30)
    <3> QED BY <3>3 DEF n
  <2> QED BY <2>1, <2>2
<1>11. UsedBlocks' = UsedBlocks /\ Listed(Current') = Listed(Current)
       /\ Current'.tag = tag' /\ Current'.list = free_nodes
       /\ Current' = [tag |-> tag', list |-> free_nodes]
       /\ Current.tag = tag
  BY <1>2 DEF UsedBlocks, Listed, Current
<1>12. Tiled(tag', B)
  BY <1>3, <1>10 DEF Tiled
<1>13. Flagged(tag', Listed(Current), UsedBlocks)
  BY <1>3, <1>10 DEF Flagged
<1>14. Sound(Current', UsedBlocks')
  BY <1>3, <1>4, <1>11, <1>12, <1>13 DEF Sound
<1>15. Coalesced(Current')
  BY <1>1, <1>10, <1>11 DEF Coalesced
<1>16. FreedOnce' /\ Roomy'
  <2>1. \A x \in Word : live[x] # 0 => tag'[x] = tag[x]
    BY <1>10 DEF UsedBlocks
  <2> QED BY <1>1, <1>2, <2>1 DEF FreedOnce, Roomy
<1> QED BY <1>1, <1>2, <1>14, <1>15, <1>16 DEF MemInv

-----------------------------------------------------------------------------
\* What the invariant gives.

\* The parts of the invariant about the tags, for the variables themselves.
LEMMA SoundCurrent ==
  ASSUME MemInv
  PROVE  /\ tag \in [Word -> Btag] /\ free_nodes \in Seq(Word) /\ IsInjective(free_nodes)
         /\ FreeBlocks = Listed(Current) /\ FreeBlocks \cap UsedBlocks = {}
         /\ Tiled(tag, Blocks) /\ Flagged(tag, FreeBlocks, UsedBlocks)
         /\ \A b \in FreeBlocks : BlockEnd(tag, b) \notin FreeBlocks
<1>1. FreeBlocks = Listed(Current) /\ Current.tag = tag /\ Current.list = free_nodes
  <2>1. free_nodes \in Seq(Word)
    BY DEF MemInv, Sound, Current
  <2>2. DOMAIN free_nodes = 1 .. Len(free_nodes)
    BY <2>1, SMTT(30)
  <2> QED BY <2>2 DEF FreeBlocks, Listed, Current
<1>2. Blocks = Listed(Current) \cup UsedBlocks
  BY <1>1 DEF Blocks
<1> QED BY <1>1, <1>2 DEF MemInv, Sound, Coalesced

\* Every word of the heap lies in a block.
LEMMA WordInBlock ==
  ASSUME NEW m \in [Word -> Btag], NEW B, Tiled(m, B), NEW w \in Word
  PROVE  \E g \in B : g <= w /\ w < g + m[g].size
<1> DEFINE S == {g \in B : g <= w}
<1>1. w \in Nat /\ HeapWords \in Nat /\ w < HeapWords /\ B \subseteq Word /\ 0 \in B
  BY MemAssumption, SMTT(30) DEF Tiled, Word
<1>2. S \in SUBSET (0 .. HeapWords) /\ S # {}
  <2>1. 0 \in S
    BY <1>1, SMTT(30)
  <2>2. B \subseteq 0 .. HeapWords
    BY <1>1, SMTT(30) DEF Word
  <2> QED BY <2>1, <2>2
<1>3. PICK g \in S : \A c \in S : c <= g
  BY <1>1, <1>2, GreatestElement
<1>4. /\ g \in B /\ g <= w /\ g \in Int /\ m[g].size \in Nat /\ m[g].size >= 4
      /\ g + m[g].size \in B \cup {HeapWords}
  <2>1. g \in B /\ g <= w
    BY <1>3
  <2>2. /\ g \in Int /\ m[g].size \in Nat /\ m[g].size >= 4
        /\ BlockEnd(m, g) = g + m[g].size
    BY <2>1, BlockInHeap
  <2> QED BY <2>1, <2>2 DEF Tiled
<1>5. w < g + m[g].size
  <2> SUFFICES ASSUME g + m[g].size <= w PROVE FALSE
    BY <1>1, <1>4, SMTT(30)
  <2>1. g + m[g].size \in S
    BY <1>1, <1>4, SMTT(30)
  <2> QED BY <1>3, <1>4, <2>1, SMTT(30)
<1> QED BY <1>4, <1>5

\* The properties of the allocator that TLC checks follow.
LEMMA MemProperties ==
  ASSUME MemInv
  PROVE  BlocksTileHeap /\ FreeListExact /\ PayloadsFit
<1>1. BlocksTileHeap
  BY SoundCurrent DEF BlocksTileHeap, Tiled
<1>2. FreeListExact
  BY SoundCurrent DEF FreeListExact, Flagged, Blocks
<1>3. PayloadsFit
  <2> SUFFICES ASSUME NEW b \in Word, live[b] # 0, NEW w \in Payload(b, live[b])
               PROVE  w \in b + BtagSize .. Footer(tag, b) - 1
    BY DEF PayloadsFit
  <2>1. /\ w \in Int /\ b < w /\ w < b + tag[b].size - 1
        /\ tag[b].size \in Nat /\ Footer(tag, b) = b + tag[b].size - 1
    BY PayloadInside
  <2>2. b \in Int
    BY MemAssumption, SMTT(30) DEF Word
  <2> QED BY <2>1, <2>2, SMTT(30) DEF BtagSize
<1> QED BY <1>1, <1>2, <1>3

LEMMA FailsProperty ==
  ASSUME MemInv
  PROVE  FailsOnlyWhenFull
<1> SUFFICES ASSUME NEW size \in MinSize .. HeapWords,
                    FreeListFind(Current, size) = NULL,
                    NEW w \in 0 .. HeapWords - size,
                    (w .. w + size - 1) \cap UsedWords = {}
             PROVE  FALSE
  BY DEF FailsOnlyWhenFull
<1>1. /\ tag \in [Word -> Btag] /\ Tiled(tag, Blocks)
      /\ \A b \in FreeBlocks : BlockEnd(tag, b) \notin FreeBlocks
      /\ FreeBlocks = Listed(Current)
  BY SoundCurrent
<1>2. /\ HeapWords \in Nat /\ size \in Nat /\ size >= 4 /\ w \in Nat
      /\ w + size <= HeapWords /\ w \in Word
  BY MemAssumption, SMTT(30) DEF MinSize, Word
<1>3. PICK g \in Blocks : g <= w /\ w < g + tag[g].size
  BY <1>1, <1>2, WordInBlock
<1>4. /\ g \in Int /\ tag[g].size \in Nat /\ BlockEnd(tag, g) = g + tag[g].size
      /\ Footer(tag, g) = g + tag[g].size - 1
  BY <1>1, <1>3, BlockInHeap
<1>5. ASSUME NEW x \in UsedBlocks, NEW v \in Int, x <= v, v < x + tag[x].size
      PROVE  v \in UsedWords
  <2>1. x \in Int /\ tag[x].size \in Nat /\ Footer(tag, x) = x + tag[x].size - 1
    <3>1. x \in Blocks
      BY DEF Blocks
    <3> QED BY <1>1, <3>1, BlockInHeap
  <2>2. v \in x .. Footer(tag, x)
    BY <1>5, <2>1, SMTT(30)
  <2> QED BY <2>2 DEF UsedWords
<1>6. w \in w .. w + size - 1
  BY <1>2, SMTT(30)
<1>7. g \in FreeBlocks
  BY <1>2, <1>3, <1>5, <1>6, SMTT(30) DEF Blocks
<1>8. ~(tag[g].size >= size)
  <2>1. Sound(Current, UsedBlocks) /\ Current.tag = tag
    BY DEF MemInv, Current
  <2> QED BY <1>1, <1>2, <1>7, <2>1, FindProperties
<1> DEFINE c == g + tag[g].size
<1>9. c < w + size /\ w < c /\ c \in Int /\ c # HeapWords
  BY <1>2, <1>3, <1>4, <1>8, SMTT(30)
<1>10. c \in Blocks
  BY <1>1, <1>3, <1>4, <1>9 DEF Tiled
<1>11. c \in UsedBlocks
  BY <1>1, <1>4, <1>7, <1>10 DEF Blocks
<1>12. tag[c].size \in Nat /\ tag[c].size >= 4
  BY <1>1, <1>10, BlockInHeap
<1> HIDE DEF c
<1>13. c \in UsedWords
  BY <1>5, <1>9, <1>11, <1>12, SMTT(30)
<1>14. c \in w .. w + size - 1
  BY <1>2, <1>9, SMTT(30)
<1> QED BY <1>13, <1>14

\* With no block in use the heap is the free block of mem_setup.
LEMMA EmptyHeap ==
  ASSUME MemInv, UsedBlocks = {}
  PROVE  free_nodes = <<0>> /\ tag[0].size = HeapWords
<1>1. /\ tag \in [Word -> Btag] /\ Tiled(tag, FreeBlocks)
      /\ free_nodes \in Seq(Word) /\ IsInjective(free_nodes)
      /\ \A b \in FreeBlocks : BlockEnd(tag, b) \notin FreeBlocks
  <2>1. Blocks = FreeBlocks
    BY DEF Blocks
  <2> QED BY <2>1, SoundCurrent
<1>2. 0 \in FreeBlocks
  BY <1>1 DEF Tiled
<1>3. tag[0].size \in Nat /\ BlockEnd(tag, 0) = 0 + tag[0].size /\ HeapWords \in Nat
  BY <1>1, <1>2, BlockInHeap
<1>4. BlockEnd(tag, 0) = HeapWords
  BY <1>1, <1>2 DEF Tiled
<1>5. tag[0].size = HeapWords
  BY <1>3, <1>4, SMTT(30)
<1>6. ASSUME NEW c \in FreeBlocks PROVE c = 0
  <2>1. c \in Nat /\ c < HeapWords
    BY <1>1, <1>3, SMTT(30) DEF Tiled, Word
  <2>2. 0 < c => HeapWords <= c
    BY <1>1, <1>2, <1>4 DEF Tiled
  <2> QED BY <1>3, <2>1, <2>2, SMTT(30)
<1>7. Len(free_nodes) \in Nat /\ DOMAIN free_nodes = 1 .. Len(free_nodes)
  BY <1>1, SMTT(30)
<1>8. \A i \in 1 .. Len(free_nodes) : free_nodes[i] = 0
  BY <1>6, <1>7 DEF FreeBlocks
<1>9. Len(free_nodes) # 0
  BY <1>2, <1>7, SMTT(30) DEF FreeBlocks
<1>10. Len(free_nodes) <= 1
  <2> SUFFICES ASSUME Len(free_nodes) > 1 PROVE FALSE
    BY <1>7, SMTT(30)
  <2>1. 1 \in 1 .. Len(free_nodes) /\ 2 \in 1 .. Len(free_nodes)
    BY <1>7, SMTT(30)
  <2> QED BY <1>1, <1>7, <1>8, <2>1, SMTT(30) DEF IsInjective
<1>11. Len(free_nodes) = 1 /\ free_nodes[1] = 0
  BY <1>7, <1>8, <1>9, <1>10, SMTT(30)
<1> QED BY <1>1, <1>5, <1>11, SMTT(30)

-----------------------------------------------------------------------------
\* The threads as owners of blocks.

\* What thread_create asks for, and the other clients.
SmallRequests == Request \cup {ThreadSize, StackSize} \subseteq SmallRequest

\* A thread owns its structure and its stack, and shares neither.
ThreadsOwn ==
  \A b \in Existing :
    /\ live[b] = ThreadSize /\ b \notin clients
    /\ threads[b].stack \in Word /\ live[threads[b].stack] = StackSize
    /\ threads[b].stack \notin clients
    /\ \A c \in Existing : threads[b].stack # c
    /\ \A c \in Existing : b # c => threads[b].stack # threads[c].stack

\* So does a call of thread_create or thread_destroy, of a structure that is
\* not yet, or no longer, that of a thread.
CallsOwn ==
  \A t \in Thread :
    /\ pc[t] = "out" <=> thread[t] = NULL
    /\ thread[t] # NULL =>
         /\ live[thread[t]] = ThreadSize
         /\ thread[t] \notin clients /\ thread[t] \notin Existing
         /\ \A b \in Existing : threads[b].stack # thread[t]
         /\ \A u \in Thread : u # t => thread[u] # thread[t]

\* Every block that is not free or being freed has an owner.
AllOwned ==
  /\ \A b \in clients : live[b] # 0
  /\ \A b \in Word : live[b] # 0 =>
       \/ b \in clients \/ b \in Existing
       \/ \E c \in Existing : threads[c].stack = b
       \/ \E t \in Thread : thread[t] = b

ThreadMemInv ==
  MemInv /\ TypeOKThreads /\ ThreadsOwn /\ CallsOwn /\ AllOwned

\* The sizes that thread_create asks for are not 0.
LEMMA Sizes == /\ ThreadSize \in Nat /\ ThreadSize # 0
               /\ StackSize \in Nat /\ StackSize # 0
BY ThreadMemAssumption, MemAssumption, SMTT(30)

\* A block that mem_alloc returns has no owner yet.
LEMMA Fresh ==
  ASSUME ThreadMemInv, NEW t \in Thread, NEW n \in SmallRequest, Alloc(t, n)
  PROVE  \E b \in Word :
           /\ b = Malloc(n) /\ live[b] = 0 /\ b # NULL /\ n \in Nat /\ n # 0
           /\ live' \in [Word -> Nat]
           /\ \A x \in Word : live'[x] = IF x = b THEN n ELSE live[x]
           /\ b \notin clients /\ b \notin Existing
           /\ \A c \in Existing : threads[c].stack # b
           /\ \A u \in Thread : thread[u] # b
           /\ MemInv'
<1> DEFINE b == FreeListFind(Current, ConvertToBlockSize(n))
<1>1. /\ MemInv' /\ b \in Word /\ b \notin UsedBlocks /\ live' = [live EXCEPT ![b] = n]
  <2>1. MemInv
    BY DEF ThreadMemInv
  <2>2. b = FreeListFind(Current, ConvertToBlockSize(n))
    OBVIOUS
  <2> HIDE DEF b
  <2> QED BY <2>1, <2>2, AllocStep
<1>2. b = Malloc(n)
  BY DEF Malloc
<1> HIDE DEF b
<1>3. live[b] = 0 /\ b # NULL /\ n \in Nat /\ n # 0
  BY <1>1, MemAssumption, SMTT(30) DEF UsedBlocks, Alloc, SmallRequest, Word
<1>4. live \in [Word -> Nat]
  BY DEF ThreadMemInv, MemInv
<1>5. \A x \in Word : live'[x] = IF x = b THEN n ELSE live[x]
  BY <1>1, <1>4
<1>6. live' \in [Word -> Nat]
  BY <1>1, <1>3, <1>4
<1>7. b \notin clients /\ b \notin Existing
  BY <1>3, Sizes DEF ThreadMemInv, AllOwned, ThreadsOwn
<1>8. \A c \in Existing : threads[c].stack # b
  BY <1>3, Sizes DEF ThreadMemInv, ThreadsOwn
<1>9. \A u \in Thread : thread[u] # b
  BY <1>3, Sizes DEF ThreadMemInv, CallsOwn
<1> QED BY <1>1, <1>2, <1>3, <1>5, <1>6, <1>7, <1>8, <1>9

\* A block given to mem_free no longer has an owner.
LEMMA GivenBack ==
  ASSUME ThreadMemInv, NEW t \in Thread, NEW b \in Word, FreeCall(t, b)
  PROVE  /\ MemInv' /\ live[b] # 0
         /\ \A x \in Word : live'[x] = IF x = b THEN 0 ELSE live[x]
<1>1. MemInv /\ live \in [Word -> Nat]
  BY DEF ThreadMemInv, MemInv
<1>2. live[b] # 0 /\ live' = [live EXCEPT ![b] = 0]
  BY DEF FreeCall
<1> QED BY <1>1, <1>2, FreeCallStep

\* The owners' part of the invariant does not depend on more than this.
LEMMA SameOwners ==
  ASSUME ThreadMemInv, MemInv', live' = live, UNCHANGED threadvars
  PROVE  ThreadMemInv'
<1>1. Existing' = Existing
  BY DEF threadvars, Existing
<1>2. TypeOKThreads'
  BY DEF ThreadMemInv, TypeOKThreads, threadvars
<1>3. ThreadsOwn' /\ CallsOwn' /\ AllOwned'
  BY <1>1, SMTT(30) DEF ThreadMemInv, ThreadsOwn, CallsOwn, AllOwned, threadvars
<1> QED BY <1>2, <1>3 DEF ThreadMemInv

LEMMA ClientAllocStep ==
  ASSUME SmallRequests, ThreadMemInv, NEW t \in Thread, NEW n \in Request, ClientAlloc(t, n)
  PROVE  ThreadMemInv'
<1>1. n \in SmallRequest
  BY DEF SmallRequests
<1>2. threads' = threads /\ pc' = pc /\ thread' = thread /\ Existing' = Existing
  BY DEF ClientAlloc, Existing
<1>3. CASE Alloc(t, n) /\ clients' = clients \cup {Malloc(n)}
  <2>1. PICK b \in Word :
          /\ b = Malloc(n) /\ live[b] = 0 /\ b # NULL /\ n \in Nat /\ n # 0
          /\ live' \in [Word -> Nat]
          /\ \A x \in Word : live'[x] = IF x = b THEN n ELSE live[x]
          /\ b \notin clients /\ b \notin Existing
          /\ \A c \in Existing : threads[c].stack # b
          /\ \A u \in Thread : thread[u] # b
          /\ MemInv'
    BY <1>1, <1>3, Fresh
  <2>2. clients' = clients \cup {b}
    BY <1>3, <2>1
  <2>3. TypeOKThreads /\ ThreadsOwn /\ CallsOwn /\ AllOwned
    BY DEF ThreadMemInv
  <2>4. TypeOKThreads'
    BY <1>2, <2>2, <2>3 DEF TypeOKThreads
  <2>5. ThreadsOwn'
    <3>1. \A c \in Existing : c \in Word
      BY DEF Existing
    <3> QED BY <1>2, <2>1, <2>2, <2>3, <3>1, SMTT(30) DEF ThreadsOwn
  <2>6. CallsOwn'
    BY <1>2, <2>1, <2>2, <2>3, SMTT(30) DEF CallsOwn, TypeOKThreads
  <2>7. AllOwned'
    BY <1>2, <2>1, <2>2, <2>3 DEF AllOwned, TypeOKThreads
  <2> QED BY <2>1, <2>4, <2>5, <2>6, <2>7 DEF ThreadMemInv
<1>4. CASE AllocFails(t, n) /\ UNCHANGED clients
  <2>1. UNCHANGED vars
    BY <1>4 DEF AllocFails
  <2>2. MemInv' /\ live' = live
    BY <2>1, UnchangedStep DEF ThreadMemInv, vars
  <2> QED BY <1>2, <1>4, <2>2, SameOwners DEF threadvars
<1> QED BY <1>3, <1>4 DEF ClientAlloc

LEMMA ClientFreeStep ==
  ASSUME ThreadMemInv, NEW t \in Thread, NEW b \in Word, ClientFree(t, b)
  PROVE  ThreadMemInv'
<1>1. threads' = threads /\ pc' = pc /\ thread' = thread /\ Existing' = Existing
  BY DEF ClientFree, Existing
<1>2. b \in clients /\ clients' = clients \ {b} /\ FreeCall(t, b)
  BY DEF ClientFree
<1>3. /\ MemInv' /\ live[b] # 0
      /\ \A x \in Word : live'[x] = IF x = b THEN 0 ELSE live[x]
  BY <1>2, GivenBack
<1>4. TypeOKThreads /\ ThreadsOwn /\ CallsOwn /\ AllOwned
  BY DEF ThreadMemInv
<1>5. TypeOKThreads'
  BY <1>1, <1>2, <1>4 DEF TypeOKThreads
<1>6. ThreadsOwn'
  <2>1. \A c \in Existing : c \in Word
    BY DEF Existing
  <2> QED BY <1>1, <1>2, <1>3, <1>4, <2>1, SMTT(30) DEF ThreadsOwn
<1>7. CallsOwn'
  BY <1>1, <1>2, <1>3, <1>4, SMTT(30) DEF CallsOwn, TypeOKThreads
<1>8. AllOwned'
  BY <1>1, <1>2, <1>3, <1>4 DEF AllOwned, TypeOKThreads
<1> QED BY <1>3, <1>5, <1>6, <1>7, <1>8 DEF ThreadMemInv

\* Where a caller is after a step, pointwise.
LEMMA AtProperties ==
  ASSUME TypeOKThreads, NEW t \in Thread, NEW label, NEW block, At(t, label, block)
  PROVE  /\ \A u \in Thread : pc'[u] = IF u = t THEN label ELSE pc[u]
         /\ \A u \in Thread : thread'[u] = IF u = t THEN block ELSE thread[u]
         /\ /\ label \in {"out", "stack", "nomem", "destroy"} /\ block \in Word \cup {NULL}
            => /\ pc' \in [Thread -> {"out", "stack", "nomem", "destroy"}]
               /\ thread' \in [Thread -> Word \cup {NULL}]
BY DEF TypeOKThreads, At

LEMMA CreateThreadStep ==
  ASSUME SmallRequests, ThreadMemInv, NEW t \in Thread, CreateThread(t)
  PROVE  ThreadMemInv'
<1>1. ThreadSize \in SmallRequest
  BY DEF SmallRequests
<1>2. threads' = threads /\ clients' = clients /\ Existing' = Existing /\ pc[t] = "out"
  BY DEF CreateThread, Existing
<1>3. CASE Alloc(t, ThreadSize) /\ At(t, "stack", Malloc(ThreadSize))
  <2>1. PICK b \in Word :
          /\ b = Malloc(ThreadSize) /\ live[b] = 0 /\ b # NULL
          /\ live' \in [Word -> Nat]
          /\ \A x \in Word : live'[x] = IF x = b THEN ThreadSize ELSE live[x]
          /\ b \notin clients /\ b \notin Existing
          /\ \A c \in Existing : threads[c].stack # b
          /\ \A u \in Thread : thread[u] # b
          /\ MemInv'
    BY <1>1, <1>3, Fresh, SMTT(30)
  <2>2. TypeOKThreads /\ ThreadsOwn /\ CallsOwn /\ AllOwned
    BY DEF ThreadMemInv
  <2>3. At(t, "stack", b)
    BY <1>3, <2>1
  <2>4. /\ \A u \in Thread : pc'[u] = IF u = t THEN "stack" ELSE pc[u]
        /\ \A u \in Thread : thread'[u] = IF u = t THEN b ELSE thread[u]
        /\ pc' \in [Thread -> {"out", "stack", "nomem", "destroy"}]
        /\ thread' \in [Thread -> Word \cup {NULL}]
    BY <2>2, <2>3, AtProperties, SMTT(30)
  <2>5. TypeOKThreads'
    BY <1>2, <2>2, <2>4 DEF TypeOKThreads
  <2>6. ThreadsOwn'
    <3>1. \A c \in Existing : c \in Word
      BY DEF Existing
    <3> QED BY <1>2, <2>1, <2>2, <3>1, SMTT(30) DEF ThreadsOwn
  <2>7. CallsOwn'
    <3> SUFFICES ASSUME NEW u \in Thread
                 PROVE  /\ pc'[u] = "out" <=> thread'[u] = NULL
                        /\ thread'[u] # NULL =>
                             /\ live'[thread'[u]] = ThreadSize
                             /\ thread'[u] \notin clients' /\ thread'[u] \notin Existing'
                             /\ \A c \in Existing' : threads'[c].stack # thread'[u]
                             /\ \A v \in Thread : v # u => thread'[v] # thread'[u]
      BY DEF CallsOwn
    <3>1. CASE u = t
      BY <1>2, <2>1, <2>4, <3>1
    <3>2. CASE u # t
      BY <1>2, <2>1, <2>2, <2>4, <3>2, SMTT(30) DEF CallsOwn, TypeOKThreads
    <3> QED BY <3>1, <3>2
  <2>8. AllOwned'
    <3>1. thread[t] = NULL
      BY <1>2, <2>2 DEF CallsOwn
    <3>2. \A c \in clients' : live'[c] # 0
      BY <1>2, <2>1, <2>2 DEF AllOwned, TypeOKThreads
    <3>3. ASSUME NEW x \in Word, live'[x] # 0
          PROVE  \/ x \in clients' \/ x \in Existing'
                 \/ \E c \in Existing' : threads'[c].stack = x
                 \/ \E u \in Thread : thread'[u] = x
      <4>1. CASE x = b
        BY <2>4, <4>1
      <4>2. CASE x # b /\ \E u \in Thread : thread[u] = x
        <5>1. PICK u \in Thread : thread[u] = x
          BY <4>2
        <5>2. u # t
          BY <3>1, <5>1, MemAssumption, SMTT(30) DEF Word
        <5> QED BY <2>4, <5>1, <5>2
      <4>3. CASE x # b /\ ~\E u \in Thread : thread[u] = x
        BY <1>2, <2>1, <2>2, <3>3, <4>3 DEF AllOwned
      <4> QED BY <4>1, <4>2, <4>3
    <3> QED BY <3>2, <3>3 DEF AllOwned
  <2> QED BY <2>1, <2>5, <2>6, <2>7, <2>8 DEF ThreadMemInv
<1>4. CASE AllocFails(t, ThreadSize) /\ UNCHANGED <<pc, thread>>
  <2>1. UNCHANGED vars
    BY <1>4 DEF AllocFails
  <2>2. MemInv' /\ live' = live
    BY <2>1, UnchangedStep DEF ThreadMemInv, vars
  <2> QED BY <1>2, <1>4, <2>2, SameOwners DEF threadvars
<1> QED BY <1>3, <1>4 DEF CreateThread

LEMMA CreateStackStep ==
  ASSUME SmallRequests, ThreadMemInv, NEW t \in Thread, CreateStack(t)
  PROVE  ThreadMemInv'
<1> DEFINE s == thread[t]
<1>1. StackSize \in SmallRequest
  BY DEF SmallRequests
<1>2. clients' = clients /\ pc[t] = "stack"
  BY DEF CreateStack
<1>3. TypeOKThreads /\ ThreadsOwn /\ CallsOwn /\ AllOwned
  BY DEF ThreadMemInv
<1>4. /\ s # NULL /\ s \in Word /\ live[s] = ThreadSize
      /\ s \notin clients /\ s \notin Existing
      /\ \A c \in Existing : threads[c].stack # s
      /\ \A u \in Thread : u # t => thread[u] # s
  <2>1. s # NULL
    BY <1>2, <1>3 DEF CallsOwn
  <2> QED BY <1>3, <2>1 DEF CallsOwn, TypeOKThreads
<1>5. CASE /\ Alloc(t, StackSize)
           /\ threads' = [threads EXCEPT ![s] = [stack |-> Malloc(StackSize), state |-> "running"]]
           /\ At(t, "out", NULL)
  <2>1. PICK b \in Word :
          /\ b = Malloc(StackSize) /\ live[b] = 0 /\ b # NULL
          /\ live' \in [Word -> Nat]
          /\ \A x \in Word : live'[x] = IF x = b THEN StackSize ELSE live[x]
          /\ b \notin clients /\ b \notin Existing
          /\ \A c \in Existing : threads[c].stack # b
          /\ \A u \in Thread : thread[u] # b
          /\ MemInv'
    BY <1>1, <1>5, Fresh, SMTT(30)
  <2>2. /\ \A u \in Thread : pc'[u] = IF u = t THEN "out" ELSE pc[u]
        /\ \A u \in Thread : thread'[u] = IF u = t THEN NULL ELSE thread[u]
        /\ pc' \in [Thread -> {"out", "stack", "nomem", "destroy"}]
        /\ thread' \in [Thread -> Word \cup {NULL}]
    BY <1>3, <1>5, AtProperties, SMTT(30)
  <2> DEFINE R == [stack |-> b, state |-> "running"]
  <2>3. threads' = [threads EXCEPT ![s] = R]
    BY <1>5, <2>1
  <2>4. R \in [stack : Word \cup {NULL}, state : {"none", "running", "dead"}]
        /\ R.stack = b /\ R.state # "none"
    OBVIOUS
  <2> HIDE DEF R, s
  <2>5. /\ threads' \in [Word -> [stack : Word \cup {NULL}, state : {"none", "running", "dead"}]]
        /\ \A x \in Word : threads'[x] = IF x = s THEN R ELSE threads[x]
    BY <1>3, <1>4, <2>3, <2>4 DEF TypeOKThreads
  <2>6. Existing' = Existing \cup {s}
    BY <1>4, <2>4, <2>5 DEF Existing
  <2>7. /\ \A c \in Existing : c \in Word /\ c # s /\ threads'[c] = threads[c]
        /\ threads'[s].stack = b
    BY <1>4, <2>4, <2>5 DEF Existing
  <2>8. s # b
    BY <1>4, <2>1, Sizes
  <2>9. live'[s] = ThreadSize /\ live'[b] = StackSize
    BY <1>4, <2>1, <2>8
  <2>10. TypeOKThreads'
    BY <1>2, <1>3, <2>2, <2>5 DEF TypeOKThreads
  <2>11. ThreadsOwn'
    <3> SUFFICES ASSUME NEW x \in Existing'
                 PROVE  /\ live'[x] = ThreadSize /\ x \notin clients'
                        /\ threads'[x].stack \in Word /\ live'[threads'[x].stack] = StackSize
                        /\ threads'[x].stack \notin clients'
                        /\ \A c \in Existing' : threads'[x].stack # c
                        /\ \A c \in Existing' : x # c => threads'[x].stack # threads'[c].stack
      BY DEF ThreadsOwn
    <3>1. CASE x = s
      BY <1>2, <1>4, <2>1, <2>6, <2>7, <2>8, <2>9, <3>1
    <3>2. CASE x \in Existing
      <4>1. /\ live'[x] = ThreadSize /\ x \notin clients'
            /\ threads'[x].stack \in Word /\ live'[threads'[x].stack] = StackSize
            /\ threads'[x].stack \notin clients'
        BY <1>2, <1>3, <2>1, <2>7, <3>2, SMTT(30) DEF ThreadsOwn
      <4> QED BY <1>3, <1>4, <2>1, <2>6, <2>7, <3>2, <4>1, SMTT(30) DEF ThreadsOwn
    <3> QED BY <2>6, <3>1, <3>2
  <2>12. CallsOwn'
    <3> SUFFICES ASSUME NEW u \in Thread
                 PROVE  /\ pc'[u] = "out" <=> thread'[u] = NULL
                        /\ thread'[u] # NULL =>
                             /\ live'[thread'[u]] = ThreadSize
                             /\ thread'[u] \notin clients' /\ thread'[u] \notin Existing'
                             /\ \A c \in Existing' : threads'[c].stack # thread'[u]
                             /\ \A v \in Thread : v # u => thread'[v] # thread'[u]
      BY DEF CallsOwn
    <3>1. CASE u = t
      BY <2>2, <3>1
    <3>2. CASE u # t
      <4>1. thread'[u] = thread[u] /\ pc'[u] = pc[u]
        BY <2>2, <3>2
      <4>2. ASSUME thread[u] # NULL
            PROVE  /\ thread[u] \in Word /\ live[thread[u]] = ThreadSize
                   /\ thread[u] \notin clients /\ thread[u] \notin Existing
                   /\ \A c \in Existing : threads[c].stack # thread[u]
                   /\ \A v \in Thread : v # u => thread[v] # thread[u]
        BY <1>3, <4>2, SMTT(30) DEF CallsOwn, TypeOKThreads
      <4>3. ASSUME thread[u] # NULL
            PROVE  live'[thread[u]] = ThreadSize /\ thread[u] \notin Existing'
                   /\ \A c \in Existing' : threads'[c].stack # thread[u]
        BY <1>4, <2>1, <2>6, <2>7, <3>2, <4>2, <4>3
      <4>4. ASSUME thread[u] # NULL, NEW v \in Thread, v # u
            PROVE  thread'[v] # thread[u]
        BY <2>2, <4>2, <4>4
      <4>5. pc[u] = "out" <=> thread[u] = NULL
        BY <1>3 DEF CallsOwn
      <4> QED BY <1>2, <4>1, <4>2, <4>3, <4>4, <4>5
    <3> QED BY <3>1, <3>2
  <2>13. AllOwned'
    <3>1. \A c \in clients' : live'[c] # 0
      BY <1>2, <1>3, <2>1 DEF AllOwned, TypeOKThreads
    <3>2. ASSUME NEW x \in Word, live'[x] # 0
          PROVE  \/ x \in clients' \/ x \in Existing'
                 \/ \E c \in Existing' : threads'[c].stack = x
                 \/ \E u \in Thread : thread'[u] = x
      <4>1. CASE x = b
        BY <2>6, <2>7, <4>1
      <4>2. CASE x = s
        BY <2>6, <4>2
      <4>3. CASE x # b /\ x # s
        <5>1. live[x] # 0
          BY <2>1, <3>2, <4>3
        <5>2. \A u \in Thread : thread[u] = x => thread'[u] = x
          BY <2>2, <4>3 DEF s
        <5> QED BY <1>2, <1>3, <2>6, <2>7, <5>1, <5>2, SMTT(30) DEF AllOwned
      <4> QED BY <4>1, <4>2, <4>3
    <3> QED BY <3>1, <3>2 DEF AllOwned
  <2> QED BY <2>1, <2>10, <2>11, <2>12, <2>13 DEF ThreadMemInv
<1>6. CASE AllocFails(t, StackSize) /\ At(t, "nomem", s) /\ UNCHANGED threads
  <2>1. UNCHANGED vars
    BY <1>6 DEF AllocFails
  <2>2. MemInv' /\ live' = live
    BY <2>1, UnchangedStep DEF ThreadMemInv, vars
  <2>3. /\ \A u \in Thread : pc'[u] = IF u = t THEN "nomem" ELSE pc[u]
        /\ \A u \in Thread : thread'[u] = thread[u]
        /\ pc' \in [Thread -> {"out", "stack", "nomem", "destroy"}]
        /\ thread' \in [Thread -> Word \cup {NULL}]
    BY <1>3, <1>4, <1>6, AtProperties, SMTT(30)
  <2>4. Existing' = Existing
    BY <1>6 DEF Existing
  <2>5. TypeOKThreads'
    BY <1>2, <1>3, <1>6, <2>3 DEF TypeOKThreads
  <2>6. ThreadsOwn'
    BY <1>2, <1>3, <1>6, <2>2, <2>4, SMTT(30) DEF ThreadsOwn
  <2>7. CallsOwn'
    BY <1>2, <1>3, <1>4, <1>6, <2>2, <2>3, <2>4, SMTT(30) DEF CallsOwn
  <2>8. AllOwned'
    BY <1>2, <1>3, <1>6, <2>2, <2>3, <2>4, SMTT(30) DEF AllOwned
  <2> QED BY <2>2, <2>5, <2>6, <2>7, <2>8 DEF ThreadMemInv
<1> QED BY <1>2, <1>5, <1>6 DEF CreateStack

\* free(thread), at the end of thread_destroy or of a thread_create that fails.
LEMMA CallEndsStep ==
  ASSUME ThreadMemInv, NEW t \in Thread, CreateFails(t) \/ DestroyStruct(t)
  PROVE  ThreadMemInv'
<1> DEFINE s == thread[t]
<1>1. /\ pc[t] # "out" /\ FreeCall(t, s) /\ At(t, "out", NULL)
      /\ threads' = threads /\ clients' = clients /\ Existing' = Existing
  BY DEF CreateFails, DestroyStruct, Existing
<1>2. TypeOKThreads /\ ThreadsOwn /\ CallsOwn /\ AllOwned
  BY DEF ThreadMemInv
<1>3. /\ s # NULL /\ s \in Word
      /\ s \notin clients /\ s \notin Existing
      /\ \A c \in Existing : threads[c].stack # s
      /\ \A u \in Thread : u # t => thread[u] # s
  <2>1. s # NULL
    BY <1>1, <1>2 DEF CallsOwn
  <2> QED BY <1>2, <2>1 DEF CallsOwn, TypeOKThreads
<1>4. /\ MemInv' /\ \A x \in Word : live'[x] = IF x = s THEN 0 ELSE live[x]
  BY <1>1, <1>3, GivenBack
<1>5. /\ \A u \in Thread : pc'[u] = IF u = t THEN "out" ELSE pc[u]
      /\ \A u \in Thread : thread'[u] = IF u = t THEN NULL ELSE thread[u]
      /\ pc' \in [Thread -> {"out", "stack", "nomem", "destroy"}]
      /\ thread' \in [Thread -> Word \cup {NULL}]
  BY <1>1, <1>2, AtProperties
<1> HIDE DEF s
<1>6. TypeOKThreads'
  BY <1>1, <1>2, <1>5 DEF TypeOKThreads
<1>7. ThreadsOwn'
  <2>1. \A c \in Existing : c \in Word
    BY DEF Existing
  <2> QED BY <1>1, <1>2, <1>3, <1>4, <2>1, SMTT(30) DEF ThreadsOwn
<1>8. CallsOwn'
  <2> SUFFICES ASSUME NEW u \in Thread
               PROVE  /\ pc'[u] = "out" <=> thread'[u] = NULL
                      /\ thread'[u] # NULL =>
                           /\ live'[thread'[u]] = ThreadSize
                           /\ thread'[u] \notin clients' /\ thread'[u] \notin Existing'
                           /\ \A c \in Existing' : threads'[c].stack # thread'[u]
                           /\ \A v \in Thread : v # u => thread'[v] # thread'[u]
    BY DEF CallsOwn
  <2>1. CASE u = t
    BY <1>5, <2>1
  <2>2. CASE u # t
    BY <1>1, <1>2, <1>3, <1>4, <1>5, <2>2, SMTT(30) DEF CallsOwn, TypeOKThreads
  <2> QED BY <2>1, <2>2
<1>9. AllOwned'
  <2>1. \A c \in clients' : live'[c] # 0
    BY <1>1, <1>2, <1>3, <1>4 DEF AllOwned, TypeOKThreads
  <2>2. ASSUME NEW x \in Word, live'[x] # 0
        PROVE  \/ x \in clients' \/ x \in Existing'
               \/ \E c \in Existing' : threads'[c].stack = x
               \/ \E u \in Thread : thread'[u] = x
    <3>1. x # s /\ live[x] # 0
      BY <1>4, <2>2
    <3>2. \A u \in Thread : thread[u] = x => thread'[u] = x
      BY <1>5, <3>1 DEF s
    <3> QED BY <1>1, <1>2, <3>1, <3>2 DEF AllOwned
  <2> QED BY <2>1, <2>2 DEF AllOwned
<1> QED BY <1>4, <1>6, <1>7, <1>8, <1>9 DEF ThreadMemInv

LEMMA ExitStep ==
  ASSUME ThreadMemInv, NEW b \in Word, Exit(b)
  PROVE  ThreadMemInv'
<1>1. /\ threads[b].state = "running" /\ threads' = [threads EXCEPT ![b].state = "dead"]
      /\ UNCHANGED vars /\ live' = live /\ pc' = pc /\ thread' = thread /\ clients' = clients
  BY DEF Exit, vars
<1>2. MemInv'
  BY <1>1, UnchangedStep DEF ThreadMemInv
<1>3. TypeOKThreads /\ ThreadsOwn /\ CallsOwn /\ AllOwned
  BY DEF ThreadMemInv
<1>4. /\ threads' \in [Word -> [stack : Word \cup {NULL}, state : {"none", "running", "dead"}]]
      /\ \A x \in Word : /\ threads'[x].stack = threads[x].stack
                         /\ threads'[x].state = "none" <=> threads[x].state = "none"
  BY <1>1, <1>3 DEF TypeOKThreads
<1>5. Existing' = Existing /\ \A c \in Existing : c \in Word
  BY <1>4 DEF Existing
<1>6. TypeOKThreads'
  BY <1>1, <1>3, <1>4 DEF TypeOKThreads
<1>7. ThreadsOwn'
  BY <1>1, <1>3, <1>4, <1>5, SMTT(30) DEF ThreadsOwn
<1>8. CallsOwn'
  BY <1>1, <1>3, <1>4, <1>5, SMTT(30) DEF CallsOwn
<1>9. AllOwned'
  BY <1>1, <1>3, <1>4, <1>5, SMTT(30) DEF AllOwned
<1> QED BY <1>2, <1>6, <1>7, <1>8, <1>9 DEF ThreadMemInv

LEMMA DestroyStep ==
  ASSUME ThreadMemInv, NEW t \in Thread, NEW b \in Word, Destroy(t, b)
  PROVE  ThreadMemInv'
<1> DEFINE s == threads[b].stack
<1>1. /\ pc[t] = "out" /\ threads[b].state = "dead" /\ FreeCall(t, s)
      /\ threads' = [threads EXCEPT ![b] = NoThread]
      /\ At(t, "destroy", b) /\ clients' = clients
  BY DEF Destroy
<1>2. TypeOKThreads /\ ThreadsOwn /\ CallsOwn /\ AllOwned
  BY DEF ThreadMemInv
<1>3. b \in Existing /\ b # NULL
  BY <1>1, MemAssumption, SMTT(30) DEF Existing, Word
<1>4. /\ s \in Word /\ s # b /\ s \notin clients /\ live[b] = ThreadSize /\ b \notin clients
      /\ \A c \in Existing : s # c /\ threads[c].stack # b
      /\ \A c \in Existing : c # b => threads[c].stack # s
      /\ \A u \in Thread : thread[u] # b /\ thread[u] # s
  <2>1. \A u \in Thread : thread[u] # b /\ (thread[u] # NULL => thread[u] # s)
    BY <1>2, <1>3 DEF CallsOwn
  <2>2. s \in Word /\ s # NULL
    BY <1>2, <1>3, MemAssumption, SMTT(30) DEF ThreadsOwn, Word
  <2> QED BY <1>2, <1>3, <2>1, <2>2 DEF ThreadsOwn
<1>5. /\ MemInv' /\ \A x \in Word : live'[x] = IF x = s THEN 0 ELSE live[x]
  BY <1>1, <1>4, GivenBack
<1>6. /\ \A u \in Thread : pc'[u] = IF u = t THEN "destroy" ELSE pc[u]
      /\ \A u \in Thread : thread'[u] = IF u = t THEN b ELSE thread[u]
      /\ pc' \in [Thread -> {"out", "stack", "nomem", "destroy"}]
      /\ thread' \in [Thread -> Word \cup {NULL}]
  BY <1>1, <1>2, AtProperties, SMTT(30)
<1>7. NoThread \in [stack : Word \cup {NULL}, state : {"none", "running", "dead"}]
      /\ NoThread.state = "none"
  BY DEF NoThread
<1> HIDE DEF s
<1>8. /\ threads' \in [Word -> [stack : Word \cup {NULL}, state : {"none", "running", "dead"}]]
      /\ \A x \in Word : threads'[x] = IF x = b THEN NoThread ELSE threads[x]
  BY <1>1, <1>2, <1>7 DEF TypeOKThreads
<1>9. Existing' = Existing \ {b}
  BY <1>7, <1>8 DEF Existing
<1>10. \A c \in Existing \ {b} : c \in Word /\ threads'[c] = threads[c]
  BY <1>8 DEF Existing
<1>11. TypeOKThreads'
  BY <1>1, <1>2, <1>6, <1>8 DEF TypeOKThreads
<1>12. ThreadsOwn'
  <2> SUFFICES ASSUME NEW x \in Existing \ {b}
               PROVE  /\ live'[x] = ThreadSize /\ x \notin clients
                      /\ threads[x].stack \in Word /\ live'[threads[x].stack] = StackSize
                      /\ threads[x].stack \notin clients
                      /\ \A c \in Existing : threads[x].stack # c
                      /\ \A c \in Existing : x # c => threads[x].stack # threads[c].stack
    BY <1>1, <1>9, <1>10, SMTT(30) DEF ThreadsOwn
  <2> QED BY <1>2, <1>4, <1>5, <1>10 DEF ThreadsOwn
<1>13. CallsOwn'
  <2> SUFFICES ASSUME NEW u \in Thread
               PROVE  /\ pc'[u] = "out" <=> thread'[u] = NULL
                      /\ thread'[u] # NULL =>
                           /\ live'[thread'[u]] = ThreadSize
                           /\ thread'[u] \notin clients' /\ thread'[u] \notin Existing'
                           /\ \A c \in Existing' : threads'[c].stack # thread'[u]
                           /\ \A v \in Thread : v # u => thread'[v] # thread'[u]
    BY DEF CallsOwn
  <2>1. CASE u = t
    BY <1>1, <1>3, <1>4, <1>5, <1>6, <1>9, <1>10, <2>1
  <2>2. CASE u # t
    <3>1. thread'[u] = thread[u] /\ pc'[u] = pc[u] /\ thread[u] # s /\ thread[u] # b
      BY <1>4, <1>6, <2>2
    <3>2. thread[u] # NULL => live'[thread[u]] = live[thread[u]]
      BY <1>2, <1>5, <3>1 DEF TypeOKThreads
    <3>3. \A v \in Thread : v # u /\ thread[u] # NULL => thread'[v] # thread[u]
      BY <1>2, <1>6, <3>1, SMTT(30) DEF CallsOwn
    <3> QED BY <1>1, <1>2, <1>9, <1>10, <3>1, <3>2, <3>3, SMTT(30) DEF CallsOwn
  <2> QED BY <2>1, <2>2
<1>14. AllOwned'
  <2>1. \A c \in clients' : live'[c] # 0
    BY <1>1, <1>2, <1>4, <1>5 DEF AllOwned, TypeOKThreads
  <2>2. ASSUME NEW x \in Word, live'[x] # 0
        PROVE  \/ x \in clients' \/ x \in Existing'
               \/ \E c \in Existing' : threads'[c].stack = x
               \/ \E u \in Thread : thread'[u] = x
    <3>1. x # s /\ live[x] # 0
      BY <1>5, <2>2
    <3>2. CASE x = b
      BY <1>6, <3>2
    <3>3. CASE x # b /\ \E u \in Thread : thread[u] = x
      <4>1. PICK u \in Thread : thread[u] = x
        BY <3>3
      <4>2. u # t
        <5>1. thread[t] = NULL
          BY <1>1, <1>2 DEF CallsOwn
        <5> QED BY <4>1, <5>1, MemAssumption, SMTT(30) DEF Word
      <4> QED BY <1>6, <4>1, <4>2
    <3>4. CASE x # b /\ \E c \in Existing : threads[c].stack = x
      <4>1. PICK c \in Existing : threads[c].stack = x
        BY <3>4
      <4>2. c # b
        BY <3>1, <4>1 DEF s
      <4> QED BY <1>9, <1>10, <4>1, <4>2
    <3>5. CASE x # b /\ (x \in clients \/ x \in Existing)
      BY <1>1, <1>9, <3>5
    <3> QED BY <1>2, <3>1, <3>2, <3>3, <3>4, <3>5 DEF AllOwned
  <2> QED BY <2>1, <2>2 DEF AllOwned
<1> QED BY <1>5, <1>11, <1>12, <1>13, <1>14 DEF ThreadMemInv

-----------------------------------------------------------------------------
\* The invariant holds at boot and every step keeps it.
LEMMA ThreadMemInit ==
  ASSUME ThreadInit
  PROVE  ThreadMemInv
<1>1. /\ Init /\ threads = [w \in Word |-> NoThread] /\ pc = [t \in Thread |-> "out"]
      /\ thread = [t \in Thread |-> NULL] /\ clients = {}
  BY DEF ThreadInit
<1>2. MemInv /\ live = [w \in Word |-> 0]
  BY <1>1, InitMem DEF Init
<1>3. NoThread \in [stack : Word \cup {NULL}, state : {"none", "running", "dead"}]
      /\ NoThread.state = "none"
  BY DEF NoThread
<1>4. TypeOKThreads /\ Existing = {}
  BY <1>1, <1>3 DEF TypeOKThreads, Existing
<1>5. ThreadsOwn /\ CallsOwn /\ AllOwned
  BY <1>1, <1>2, <1>4 DEF ThreadsOwn, CallsOwn, AllOwned
<1> QED BY <1>2, <1>4, <1>5 DEF ThreadMemInv

LEMMA ThreadMemStep ==
  ASSUME SmallRequests, ThreadMemInv, [ThreadNext]_allvars
  PROVE  ThreadMemInv'
<1>1. ASSUME NEW t \in Thread, NEW n \in Request, ClientAlloc(t, n) PROVE ThreadMemInv'
  BY <1>1, ClientAllocStep
<1>2. ASSUME NEW t \in Thread, NEW b \in Word, ClientFree(t, b) PROVE ThreadMemInv'
  BY <1>2, ClientFreeStep
<1>3. ASSUME NEW t \in Thread, NEW b \in Word, Destroy(t, b) PROVE ThreadMemInv'
  BY <1>3, DestroyStep
<1>4. ASSUME NEW t \in Thread, CreateThread(t) PROVE ThreadMemInv'
  BY <1>4, CreateThreadStep
<1>5. ASSUME NEW t \in Thread, CreateStack(t) PROVE ThreadMemInv'
  BY <1>5, CreateStackStep
<1>6. ASSUME NEW t \in Thread, CreateFails(t) \/ DestroyStruct(t) PROVE ThreadMemInv'
  BY <1>6, CallEndsStep
<1>7. ASSUME NEW t \in Thread, Free(t), UNCHANGED threadvars PROVE ThreadMemInv'
  <2>1. MemInv' /\ live' = live
    BY <1>7, FreeStep DEF ThreadMemInv, Free
  <2> QED BY <1>7, <2>1, SameOwners
<1>8. ASSUME NEW b \in Word, Exit(b) PROVE ThreadMemInv'
  BY <1>8, ExitStep
<1>9. ASSUME NEW b \in Word, Write(b), UNCHANGED threadvars PROVE ThreadMemInv'
  <2>1. MemInv' /\ live' = live
    BY <1>9, WriteStep DEF ThreadMemInv, Write
  <2> QED BY <1>9, <2>1, SameOwners
<1>10. CASE UNCHANGED allvars
  <2>1. UNCHANGED vars /\ UNCHANGED threadvars /\ live' = live
    BY <1>10 DEF allvars, vars, threadvars
  <2>2. MemInv'
    BY <2>1, UnchangedStep DEF ThreadMemInv
  <2> QED BY <2>1, <2>2, SameOwners
<1> QED BY <1>1, <1>2, <1>3, <1>4, <1>5, <1>6, <1>7, <1>8, <1>9, <1>10 DEF ThreadNext

LEMMA ThreadMemInvariant ==
  ASSUME SmallRequests
  PROVE  ThreadSpec => []ThreadMemInv
<1>1. ThreadInit => ThreadMemInv
  BY ThreadMemInit
<1>2. ThreadMemInv /\ [ThreadNext]_allvars => ThreadMemInv'
  BY ThreadMemStep
<1> QED BY <1>1, <1>2, PTL DEF ThreadSpec

\* mem.c keeps the heap tiled by blocks with matching tags at both ends, for
\* every heap and any threads and clients that allocate, write to, and free
\* blocks, as long as no request makes mem_convert_to_block_size wrap around.
THEOREM HeapStaysTiled ==
  ASSUME SmallRequests
  PROVE  ThreadSpec => []BlocksTileHeap
<1>1. ThreadMemInv => BlocksTileHeap
  BY MemProperties DEF ThreadMemInv
<1> QED BY <1>1, ThreadMemInvariant, PTL

\* The free list of mem.c and the allocation flags in the tags agree on which
\* blocks are free.
THEOREM FreeListStaysExact ==
  ASSUME SmallRequests
  PROVE  ThreadSpec => []FreeListExact
<1>1. ThreadMemInv => FreeListExact
  BY MemProperties DEF ThreadMemInv
<1> QED BY <1>1, ThreadMemInvariant, PTL

\* The bytes that mem_alloc was asked for lie between the tags of the block.
THEOREM PayloadsStayInside ==
  ASSUME SmallRequests
  PROVE  ThreadSpec => []PayloadsFit
<1>1. ThreadMemInv => PayloadsFit
  BY MemProperties DEF ThreadMemInv
<1> QED BY <1>1, ThreadMemInvariant, PTL

\* mem_free merges all that can be merged: mem_alloc fails only when no gap
\* between the blocks in use is large enough.
THEOREM MergingIsComplete ==
  ASSUME SmallRequests
  PROVE  ThreadSpec => []FailsOnlyWhenFull
<1>1. ThreadMemInv => FailsOnlyWhenFull
  BY FailsProperty DEF ThreadMemInv
<1> QED BY <1>1, ThreadMemInvariant, PTL

\* thread_create and thread_destroy: the structure and the stack of a thread
\* are its own for as long as it exists.
THEOREM MemoryStaysOwn ==
  ASSUME SmallRequests
  PROVE  ThreadSpec => []ThreadsKeepMemory
<1>1. ThreadMemInv => ThreadsKeepMemory
  <2> SUFFICES ASSUME ThreadMemInv PROVE ThreadsKeepMemory
    OBVIOUS
  <2> QED BY SMTT(30) DEF ThreadMemInv, ThreadsOwn, ThreadsKeepMemory
<1> QED BY <1>1, ThreadMemInvariant, PTL

\* No path through thread_create and thread_destroy loses a block, and an
\* idle heap is the one free block that mem_setup made.
THEOREM MemoryIsReturned ==
  ASSUME SmallRequests
  PROVE  ThreadSpec => []NothingLeaked
<1>1. ThreadMemInv => NothingLeaked
  <2> SUFFICES ASSUME ThreadMemInv PROVE NothingLeaked
    OBVIOUS
  <2> DEFINE Owners == clients \cup Existing \cup {threads[b].stack : b \in Existing}
                       \cup ({thread[t] : t \in Thread} \ {NULL})
  <2>1. TypeOKThreads /\ ThreadsOwn /\ CallsOwn /\ AllOwned /\ MemInv
    BY DEF ThreadMemInv
  <2>2. ASSUME NEW x \in Word, live[x] # 0 PROVE x \in Owners
    <3>1. x # NULL
      BY MemAssumption, SMTT(30) DEF Word
    <3> QED BY <2>1, <2>2, <3>1 DEF AllOwned
  <2>3. ASSUME NEW x \in Owners PROVE x \in Word /\ live[x] # 0
    <3>1. CASE x \in clients
      BY <2>1, <3>1 DEF AllOwned, TypeOKThreads
    <3>2. CASE x \in Existing
      BY <2>1, <3>2, Sizes DEF ThreadsOwn, Existing
    <3>3. CASE x \in {threads[b].stack : b \in Existing}
      BY <2>1, <3>3, Sizes DEF ThreadsOwn
    <3>4. CASE x \in {thread[t] : t \in Thread} \ {NULL}
      BY <2>1, <3>4, Sizes, SMTT(30) DEF CallsOwn, TypeOKThreads
    <3> QED BY <3>1, <3>2, <3>3, <3>4
  <2>4. {b \in Word : live[b] # 0} = Owners
    <3> HIDE DEF Owners
    <3> QED BY <2>2, <2>3
  <2>5. UsedBlocks = {} => free_nodes = <<0>> /\ tag[0].size = HeapWords
    BY <2>1, EmptyHeap
  <2> QED BY <2>4, <2>5 DEF NothingLeaked
<1> QED BY <1>1, ThreadMemInvariant, PTL
=============================================================================
