------------------------------ MODULE FileData ------------------------------
(* The content of inodes: the block map, readi(), writei() and itrunc() of  *)
(* fs.c, the transactions of filewrite() in file.c, and the image that mkfs   *)
(* starts from.  Every file has its bytes as a sequence beside it, as the     *)
(* reference the block map is compared with.                                  *)
EXTENDS Integers, Sequences, FiniteSets

CONSTANTS BSIZE, NDIRECT, NINDIRECT, FSBLOCKS,
          OPBLOCKS,     \* MAXOPBLOCKS: blocks that fit into one transaction
          UINT,         \* 2^32 of the code
          Writers,      \* processes that write
          Sizes,        \* bytes a write() asks for
          ReadSize,     \* bytes a read() asks for
          CopyFail,     \* where a copyin() that fails stops
          MkfsSizes,    \* bytes of the files mkfs is given
          MaxFileCalls  \* bound: calls of read() and write()

FInums == {1, 2}
FileOf == [f \in {"f", "g", "h"} |-> IF f = "h" THEN 2 ELSE 1]  \* open files
FBlocks == 1..FSBLOCKS
MAXFILE == NDIRECT + NINDIRECT
Cells == 0..(IF BSIZE > NINDIRECT THEN BSIZE ELSE NINDIRECT) - 1
Bitmap == 0      \* what fs.log calls the bitmap's block
InodeBlock == -1 \* and the inode's
Least(a, b) == IF a < b THEN a ELSE b

VARIABLES fs,        \* inodes, blocks, bitmap; log: the blocks of this transaction
          bytes,     \* reference: the bytes of each inode
          foff,      \* f->off
          w,         \* what each writer has left of its write()
          fcalls

fdVars == <<fs, bytes, foff, w, fcalls>>

-----------------------------------------------------------------------------
(* Blocks                                                                  *)

ZeroBlock == [c \in Cells |-> 0]
\* Mutant: the block keeps what a removed file left in it.
ballocMutant(d) ==
  LET b == CHOOSE x \in FBlocks \ d.used : \A y \in FBlocks \ d.used : x <= y IN
  [fs |-> [d EXCEPT !.used = @ \cup {b}, !.log = @ \cup {b, Bitmap}], addr |-> b]
\* balloc(): the first free block, zeroed; both the block and the bitmap are logged.
data_balloc(d) ==
  LET b == CHOOSE x \in FBlocks \ d.used : \A y \in FBlocks \ d.used : x <= y IN
  [fs |-> [d EXCEPT !.used = @ \cup {b}, !.blk[b] = ZeroBlock,
                    !.log = @ \cup {b, Bitmap}], addr |-> b]

\* bmap(): the block of block bn of inode i, allocated if there is none; the
\* map of a block beyond the direct ones is in a block of its own.
bmap(d, i, bn) ==
  IF bn < NDIRECT
    THEN IF d.addrs[i][bn] # 0 THEN [fs |-> d, addr |-> d.addrs[i][bn]]
         ELSE LET r == data_balloc(d) IN
              [r EXCEPT !.fs.addrs[i][bn] = r.addr]
    ELSE LET k == bn - NDIRECT
             t == d.addrs[i][NDIRECT]
             r == data_balloc(d)
             top == IF t # 0 THEN [fs |-> d, addr |-> t]
                    ELSE [r EXCEPT !.fs.addrs[i][NDIRECT] = r.addr] IN
         IF top.fs.blk[top.addr][k] # 0
           THEN [top EXCEPT !.addr = top.fs.blk[top.addr][k]]
           ELSE LET l == data_balloc(top.fs) IN
                [l EXCEPT !.fs.blk[top.addr][k] = l.addr, !.fs.log = @ \cup {top.addr}]

\* itrunc(): every mapped block, the indirect one last, and the size.
Mapped(d, i) ==
  LET t == d.addrs[i][NDIRECT] IN
  ({d.addrs[i][k] : k \in 0..NDIRECT} \cup
   (IF t = 0 THEN {} ELSE {d.blk[t][k] : k \in 0..NINDIRECT - 1})) \ {0}
bfree(d, blocks) == [d EXCEPT !.used = @ \ blocks]
itrunc(d, i) ==
  [bfree(d, Mapped(d, i)) EXCEPT !.addrs[i] = [k \in 0..NDIRECT |-> 0],
                                 !.size[i] = 0]

-----------------------------------------------------------------------------
(* readi() and writei()                                                    *)

RECURSIVE ReadLoop(_, _, _, _)
ReadLoop(d, i, off, n) ==
  IF n = 0 THEN <<>>
  ELSE LET m == Least(n, BSIZE - (off % BSIZE))
           b == d.blk[bmap(d, i, off \div BSIZE).addr] IN
       [k \in 1..m |-> b[(off % BSIZE) + k - 1]] \o ReadLoop(d, i, off + m, n - m)

\* The bytes read, or the sequence <<-1>> for an error.
readi(d, i, off, n) ==
  IF off > d.size[i] \/ (off + n) % UINT < off THEN <<-1>>
  ELSE ReadLoop(d, i, off, Least(n, d.size[i] - off))

\* The loop of writei(): v is written up to where copyin() fails, c bytes from
\* here.  A piece that fails half-way has changed the buffer and does not log it:
\* the bytes stay if the block is in the transaction anyway or if somebody logs
\* it later (kept), and are gone when the buffer is recycled.  That may as well
\* be at once: no step before it depends on what is in a data block.
RECURSIVE WriteLoop(_, _, _, _, _, _, _)
WriteLoop(d, i, off, n, v, c, kept) ==
  IF n = 0 THEN [fs |-> d, off |-> off]
  ELSE LET m == Least(n, BSIZE - (off % BSIZE))
           r == bmap(d, i, off \div BSIZE)
           o == off % BSIZE
           e == [r.fs EXCEPT !.blk[r.addr] =
                  [k \in Cells |-> IF k >= o /\ k < o + Least(m, c) THEN v ELSE @[k]]] IN
       IF c < m THEN [fs |-> IF kept \/ r.addr \in r.fs.log THEN e ELSE r.fs, off |-> off]
       ELSE WriteLoop([e EXCEPT !.log = @ \cup {r.addr}], i, off + m, n - m, v, c - m, kept)

\* writei(), and what it returns: the size follows the pieces that were written,
\* the result does not tell a failed copyin() from success.
WriteBad(d, i, off, n) ==
  off > d.size[i] \/ (off + n) % UINT < off \/ off + n > MAXFILE * BSIZE
writei(d, i, off, n, v, c, kept) ==
  LET r == WriteLoop(d, i, off, n, v, c, kept) IN
  IF WriteBad(d, i, off, n) \/ n = 0 THEN d
  ELSE [r.fs EXCEPT !.size[i] = IF r.off > @ THEN r.off ELSE @,
                    !.log = @ \cup {InodeBlock}]

-----------------------------------------------------------------------------
(* mkfs                                                                    *)

\* iappend(): blocks come from a counter, in the order they are first needed.
RECURSIVE iappend(_, _, _, _)
iappend(d, i, n, v) ==
  IF n = 0 THEN d
  ELSE LET off == d.size[i]
           n1 == Least(n, BSIZE - (off % BSIZE))
           r == bmap(d, i, off \div BSIZE) IN
       iappend([r.fs EXCEPT !.size[i] = off + n1, !.blk[r.addr] =
                 [k \in Cells |-> IF k >= off % BSIZE /\ k < (off % BSIZE) + n1
                                  THEN v ELSE @[k]]], i, n - n1, v)

NoFiles == [addrs |-> [i \in FInums |-> [k \in 0..NDIRECT |-> 0]],
            size |-> [i \in FInums |-> 0],
            blk |-> [b \in FBlocks |-> ZeroBlock], used |-> {}, log |-> {}]

FdInit ==
  /\ \E n1, n2 \in MkfsSizes :
       /\ fs = [iappend(iappend(NoFiles, 1, n1, 1), 2, n2, 1) EXCEPT !.log = {}]
       /\ bytes = << [k \in 1..n1 |-> 1], [k \in 1..n2 |-> 1] >>
  /\ foff = [f \in DOMAIN FileOf |-> 0]
  /\ w = [p \in Writers |-> [n |-> 0, f |-> "f", v |-> 0]]
  /\ fcalls = 0

-----------------------------------------------------------------------------
(* write(), and the truncation of a file that was unlinked                 *)

FileWrite(p, f, n) ==
  /\ w[p].n = 0 /\ fcalls < MaxFileCalls
  /\ fcalls' = fcalls + 1
  /\ w' = [w EXCEPT ![p] = [n |-> n, f |-> f, v |-> fcalls + 2]]
  /\ UNCHANGED <<fs, bytes, foff>>

\* The bytes of one transaction of filewrite(): inode, indirect block, two blocks
\* for an unaligned write; and a bitmap block with each of the others.
\* Mutant: no room for the inode, the indirect block and the bitmap.
maxMutant == (OPBLOCKS - 1) * BSIZE
max == ((OPBLOCKS - 1 - 1 - 2) \div 2) * BSIZE

\* One transaction, of which copyin() copies c bytes; stays: the bytes of those
\* that the file has for good.
Chunk(p, c, kept, off) ==
  LET f == w[p].f  i == FileOf[f]  n1 == Least(w[p].n, max)
      d == writei([fs EXCEPT !.log = {}], i, off, n1, w[p].v, c, kept)
      stays == IF kept \/ c = n1 THEN foff[f] + c
               ELSE ((foff[f] + c) \div BSIZE) * BSIZE IN
  /\ w[p].n > 0 /\ c <= n1
  /\ fs' = d
  /\ IF WriteBad(fs, i, off, n1)
       THEN w' = [w EXCEPT ![p].n = 0] /\ UNCHANGED <<bytes, foff>>
       ELSE /\ w' = [w EXCEPT ![p].n = @ - n1]
            /\ foff' = [foff EXCEPT ![f] = @ + n1]
            /\ bytes' = [bytes EXCEPT ![i] = [k \in 1..d.size[i] |->
                 IF k > foff[f] /\ k <= stays THEN w[p].v
                 ELSE IF k \in DOMAIN @ THEN @[k] ELSE 0]]
  /\ UNCHANGED fcalls
\* Mutant: the pieces of one write() all go to its first offset.
ChunkOffMutant(p, c, kept) == Chunk(p, c, kept, Least(foff[w[p].f], max))
FileWriteChunk(p, c, kept) == Chunk(p, c, kept, foff[w[p].f])

\* A second open(), with an offset of its own at the start of the file.
Reopen == /\ foff["g"] # 0 /\ foff' = [foff EXCEPT !["g"] = 0]
          /\ UNCHANGED <<fs, bytes, w, fcalls>>

\* fileread() through "g", whatever it reads.
FileRead(n) ==
  LET i == FileOf["g"]  r == readi(fs, i, foff["g"], n) IN
  /\ fcalls < MaxFileCalls /\ fcalls' = fcalls + 1
  /\ foff' = [foff EXCEPT !["g"] = IF r = <<-1>> THEN @ ELSE @ + Len(r)]
  /\ UNCHANGED <<fs, bytes, w>>

Truncate == /\ \A p \in Writers : w[p].n = 0 \/ FileOf[w[p].f] # 2
            /\ fs' = itrunc(fs, 2)
            /\ bytes' = [bytes EXCEPT ![2] = <<>>]
            /\ foff' = [foff EXCEPT !["h"] = 0]
            /\ UNCHANGED <<w, fcalls>>

FdNext ==
  \/ \E p \in Writers : \/ \E f \in DOMAIN FileOf, n \in Sizes : FileWrite(p, f, n)
                        \/ \E c \in {CopyFail, Least(w[p].n, max)}, kept \in BOOLEAN :
                             FileWriteChunk(p, c, kept)
  \/ Reopen \/ Truncate \/ FileRead(ReadSize)

FdSpec == FdInit /\ [][FdNext]_fdVars

-----------------------------------------------------------------------------
(* Properties                                                              *)

\* Any window of a file that readi() is asked for is the bytes last written there
\* (but for those of a copy that failed, which may be gone), whatever blocks were
\* freed and taken again, for direct and indirect blocks and at every boundary; a
\* window that wraps around is refused.
ContentIntact ==
  \A i \in FInums, n \in {1, MAXFILE * BSIZE, UINT - 1} :
  \A off \in {0, 1, NDIRECT * BSIZE, Len(bytes[i]), Len(bytes[i]) + 1} :
    readi(fs, i, off, n) =
      IF off > Len(bytes[i]) \/ off + n >= UINT THEN <<-1>>
      ELSE SubSeq(bytes[i], off + 1, Least(off + n, Len(bytes[i])))

\* The bitmap is the union of the blocks mapped by the inodes, which share none;
\* a file maps the blocks below its size, the indirect block and, after a
\* copyin() that failed, the block the failed piece was to go to.
BlocksOwned ==
  /\ fs.used = Mapped(fs, 1) \cup Mapped(fs, 2)
  /\ Mapped(fs, 1) \cap Mapped(fs, 2) = {}
  /\ \A i \in FInums :
       LET need == (fs.size[i] + BSIZE - 1) \div BSIZE
           data == Cardinality(Mapped(fs, i) \ {fs.addrs[i][NDIRECT]}) IN
       data >= need /\ data <= need + 1

\* No transaction of filewrite() logs more blocks than end_op() has room for.
TxFits == Cardinality(fs.log) <= OPBLOCKS
=============================================================================
