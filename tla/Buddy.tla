-------------------------------- MODULE Buddy --------------------------------
(* The buddy allocator of buddy.c, from bd_init() on a heap of some size to    *)
(* any sequence of bd_malloc() and bd_free() by a client that frees what it    *)
(* was given, once.  Addresses are byte offsets from bd_base; the alloc and    *)
(* split arrays are one set of bit addresses, as they lie in memory, so a read *)
(* past the end of one array finds the bits of the next.                       *)
EXTENDS Integers, Sequences, FiniteSets, TLC
LOCAL INSTANCE FiniteSetsExt

CONSTANTS Heaps,      \* sizes end - base, in bytes
          MaxLive     \* bound: blocks the client holds

VARIABLES bd,      \* end, nsizes, where the arrays and the heap start; free lists; set bits
          blocks,  \* the client's blocks: [p, k], pointer and size asked for
          bdpanic  \* panic("bd_init: free mem")
bdVars == <<bd, blocks, bdpanic>>

LEAF_SIZE == 16
SZ_INFO == 32        \* sizeof(Sz_info)
BLK_SIZE(k) == 2^k * LEAF_SIZE
ROUNDUP(n, sz) == (((n - 1) \div sz) + 1) * sz
bd_log2(n) == CHOOSE k \in 0..n : 2^k <= n /\ n < 2^(k + 1)
nsizesOf(end) == LET n == bd_log2(end \div LEAF_SIZE) + 1 IN
                 IF end > BLK_SIZE(n - 1) THEN n + 1 ELSE n
blk_index(k, p) == p \div BLK_SIZE(k)
blk_index_next(k, p) == (p + BLK_SIZE(k) - 1) \div BLK_SIZE(k)
bdaddr(k, bi) == bi * BLK_SIZE(k)
buddyOf(bi) == IF bi % 2 = 0 THEN bi + 1 ELSE bi - 1

\* bd_init() lays out bd_sizes, the alloc arrays and the split arrays: where the
\* array of size k starts, given the first one's place, and the end of the last.
NBLK(n, k) == 2^(n - 1 - k)
Arrays(n, first, start) ==
  LET f[k \in first..n] == IF k = first THEN start
                           ELSE f[k - 1] + ROUNDUP(NBLK(n, k - 1), 8) \div 8 IN f
BlkSizes(h, n, alloc) ==
  LET split == Arrays(n, 1, alloc[n]) IN
  [end |-> h, nsizes |-> n, alloc |-> alloc, split |-> split,
   meta |-> ROUNDUP(split[n], LEAF_SIZE)]
Layout(h, n) == BlkSizes(h, n, Arrays(n, 0, SZ_INFO * n))
HEAP_SIZE(b) == BLK_SIZE(b.nsizes - 1)
allocBit(b, k, bi) == 8 * b.alloc[k] + bi
splitBit(b, k, bi) == 8 * b.split[k] + bi

\* bd_mark(): every block that meets [start, stop) is allocated and split.
bd_mark(b, start, stop) ==
  UNION {UNION {{allocBit(b, k, bi)} \cup (IF k > 0 THEN {splitBit(b, k, bi)} ELSE {})
                : bi \in blk_index(k, start)..blk_index_next(k, stop) - 1}
         : k \in 0..b.nsizes - 1}
unavailable(b) == LET u == HEAP_SIZE(b) - b.end IN
                  IF u > 0 THEN ROUNDUP(u, LEAF_SIZE) ELSE u
bd_end(b) == HEAP_SIZE(b) - unavailable(b)
MarkedBits(b) == bd_mark(b, 0, b.meta) \cup bd_mark(b, bd_end(b), HEAP_SIZE(b))

\* bd_initfree(): at each size, the pairs at the left and the right edge.
bd_initfree_pair(b, bits, k, bi) ==
  IF (allocBit(b, k, bi) \in bits) = (allocBit(b, k, buddyOf(bi)) \in bits) THEN <<>>
  ELSE <<bdaddr(k, IF allocBit(b, k, bi) \in bits THEN buddyOf(bi) ELSE bi)>>
InitFree(b, bits, k, left, right) ==
  (IF right <= left THEN <<>> ELSE bd_initfree_pair(b, bits, k, right))
  \o bd_initfree_pair(b, bits, k, left)
bd_initfree(b, bits) ==
  [k \in 0..b.nsizes - 1 |->
     IF k = b.nsizes - 1 THEN <<>>
     ELSE InitFree(b, bits, k, blk_index_next(k, b.meta), blk_index(k, bd_end(b)))]
FreeBytes(b) ==
  LET f[k \in 0..b.nsizes] == IF k = 0 THEN 0 ELSE f[k - 1] + Len(b.free[k - 1]) * BLK_SIZE(k - 1)
  IN f[b.nsizes]
Fresh(b, bits) == b @@ [bits |-> bits, free |-> bd_initfree(b, bits)]
Made(b) == Fresh(b, MarkedBits(b))
bd_init(h) == Made(Layout(h, nsizesOf(h)))
BdInit == /\ \E h \in Heaps : bd = bd_init(h)
          /\ blocks = {}
          /\ bdpanic = (FreeBytes(bd) # HEAP_SIZE(bd) - bd.meta - unavailable(bd))

\* bd_malloc() of size fk: the head of the first free list that has one, split
\* down to fk, its right halves going to the heads of the smaller lists.
Taken(b, fk, k, p) ==
  {allocBit(b, j, blk_index(j, p)) : j \in fk..k} \cup
  {splitBit(b, j, blk_index(j, p)) : j \in fk + 1..k}
SplitDown(free, fk, k, p) ==
  [j \in DOMAIN free |-> IF j = k THEN Tail(free[j])
                         ELSE IF j \in fk..k - 1 THEN <<p + BLK_SIZE(j)>> \o free[j]
                         ELSE free[j]]
bd_malloc(fk) ==
  /\ ~bdpanic
  /\ Cardinality(blocks) < MaxLive
  /\ \E k \in fk..bd.nsizes - 1 :
       /\ bd.free[k] # <<>>
       /\ \A j \in fk..k - 1 : bd.free[j] = <<>>
       /\ bd' = [bd EXCEPT !.bits = @ \cup Taken(bd, fk, k, Head(bd.free[k])),
                           !.free = SplitDown(@, fk, k, Head(bd.free[k]))]
       /\ blocks' = blocks \cup {[p |-> Head(bd.free[k]), k |-> fk]}
  /\ UNCHANGED bdpanic

\* size(): the first k whose block of size k + 1 is split.  The loop would read
\* beyond bd_sizes at k = nsizes - 1.
SplitAbove(b, p) == {k \in 0..b.nsizes - 2 :
                       splitBit(b, k + 1, blk_index(k + 1, p)) \in b.bits}
sizeof(b, p) == CHOOSE k \in SplitAbove(b, p) : \A j \in SplitAbove(b, p) : k <= j

\* The loop of bd_free(): merge with the buddy while that is not allocated.
lst_remove(l, q) == SelectSeq(l, LAMBDA e : e # q)
lst_push(b, k, p) == [b EXCEPT !.free[k] = <<p>> \o @]
RECURSIVE FreeFrom(_, _, _)
Merge(b, k, p, q) ==
  FreeFrom([b EXCEPT !.free[k] = lst_remove(@, q),
                     !.bits = @ \ {splitBit(b, k + 1, blk_index(k + 1, p))}],
           k + 1, IF q < p THEN q ELSE p)
FreeBit(b, k, p) == [b EXCEPT !.bits = @ \ {allocBit(b, k, blk_index(k, p))}]
BuddyTaken(b, k, p) == allocBit(b, k, buddyOf(blk_index(k, p))) \in b.bits
\* Mutant: the merged pair stays marked as split.
MergeMutant(b, k, p, q) ==
  FreeFrom([b EXCEPT !.free[k] = lst_remove(@, q)], k + 1, IF q < p THEN q ELSE p)
MergeWith(b, k, p, q) == Merge(b, k, p, q)
FreeFrom(b, k, p) ==
  IF k = b.nsizes - 1 THEN lst_push(b, k, p)
  ELSE IF BuddyTaken(b, k, p) THEN lst_push(FreeBit(b, k, p), k, p)
  ELSE MergeWith(FreeBit(b, k, p), k, p, bdaddr(k, buddyOf(blk_index(k, p))))
bd_free(x) ==
  /\ ~bdpanic /\ x \in blocks
  /\ bd' = FreeFrom(bd, sizeof(bd, x.p), x.p)
  /\ blocks' = blocks \ {x}
  /\ UNCHANGED bdpanic

BdNext == \/ \E k \in 0..bd.nsizes - 1 : bd_malloc(k)
          \/ \E x \in blocks : bd_free(x)
BdSpec == BdInit /\ [][BdNext]_bdVars

-----------------------------------------------------------------------------
(* Properties                                                              *)

\* [a, l, n]: address and length of the n-th block of a free list (n = 0: of an
\* owner that has one).
FreeBlocks(k) == {[a |-> bd.free[k][n], l |-> BLK_SIZE(k), n |-> n] : n \in DOMAIN bd.free[k]}
Extents == {[a |-> 0, l |-> bd.meta, n |-> 0], [a |-> bd_end(bd), l |-> unavailable(bd), n |-> 0]}
           \cup {[a |-> x.p, l |-> BLK_SIZE(x.k), n |-> 0] : x \in blocks}
           \cup UNION {FreeBlocks(k) : k \in 0..bd.nsizes - 1}
Disjoint(x, y) == x.a + x.l <= y.a \/ y.a + y.l <= x.a

\* After any sequence of allocations and frees every leaf of the heap is in
\* exactly one of: the allocator's own tables, the part beyond the end, one block
\* of the client, one block of one free list.  size() finds for each block the
\* size it was allocated with and never looks past its table, and no two buddies
\* are both free, so memory that was split is always put together again.
HeapPartitioned ==
  ~bdpanic =>
  /\ \A x, y \in Extents : x # y => Disjoint(x, y)
  /\ MapThenSumSet(LAMBDA x : x.l, Extents) = HEAP_SIZE(bd)
  /\ \A x \in blocks : SplitAbove(bd, x.p) # {} /\ sizeof(bd, x.p) = x.k
  /\ \A k \in 0..bd.nsizes - 1 : \A x, y \in FreeBlocks(k) :
       blk_index(k, x.a) # buddyOf(blk_index(k, y.a))
=============================================================================
