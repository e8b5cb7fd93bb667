------------------------------ MODULE FsProofs ------------------------------
(* Invariance proofs for Fs, for every number of processes, inodes, blocks    *)
(* and names, and every set of calls that are well formed.                    *)
(*                                                                            *)
(* The argument: a step changes what one process points to, so ip->ref must   *)
(* change as the pointers of that process do (StepInv).  Which of ip and dp a *)
(* call points to depends on how far it is (CallOK); and an inode is locked   *)
(* only by a process that points to it (LockInv), so a last reference that    *)
(* another process is about to put cannot be locked.                          *)
EXTENDS Fs, ArithFacts, FiniteSetTheorems, SequenceTheorems, TLAPS

USE DEF Freeing

\* The locals of a call, by how far it is: dp is in use in create() and unlink()
\* while the parent is locked, and in link() from its second path on.
CallOK(c) ==
  /\ c.pc = "user" => c = Idle
  /\ c.pc \in Freeing => c.put # <<>> /\ c.back # "user"
  /\ HoldsIp(c) => c.ip # 0
  /\ HoldsDp(c) => (c.dp # 0 <=> \/ Doing(c) \in {"create_ip", "unlink_ip", "link_dp", "link_bad"}
                                 \/ Doing(c) = "namex" /\ c.then = "link_dp")
  /\ Doing(c) \in {"namex", "link_ip"} => c.path2 \in Targets /\ c.then # "end"
CallInv == \A p \in Procs : CallOK(s[p])

\* A process that has a file open does not open another one.
FileInv == \A p \in Procs : HoldsIp(s[p]) /\ s[p].call = "open" => file[p] = 0

\* The inodes a call has locked.
LockedBy(c, i) ==
  \/ Doing(c) \in {"create_ip", "unlink_ip"} /\ c.dp = i
  \/ Doing(c) \in {"opened", "unlink_fin"} /\ c.ip = i
  \/ c.pc \in {"itrunc", "ifree"} /\ Head(c.put) = i
LockInv ==
  \A i \in Inums : ic[i].lock # NoProc => ic[i].lock \in Procs /\ LockedBy(s[ic[i].lock], i)

IInv == TypeOK /\ CallInv /\ FileInv /\ LockInv /\ RefsCounted

-----------------------------------------------------------------------------
(* Disks and cache entries.                                                  *)

LEMMA InumFacts ==
  /\ 0 \notin Inums /\ Inums \subseteq Nat /\ ROOTINO \in Inums /\ 2 \in Inums
  /\ Inums \cup {0} = 0..NINODES - 1
  /\ Blocks \subseteq 0..NBLOCKS /\ Blocks \subseteq Nat /\ 0 \notin Blocks
BY FsAssumption DEF Inums, ROOTINO, Blocks

LEMMA IupdateType ==
  ASSUME NEW d \in Disks, NEW i \in Inums, NEW c, c.type \in Types, c.nlink \in Int,
         c.blk \in 0..NBLOCKS
  PROVE  iupdate(d, i, c) \in Disks
BY DEF Disks, iupdate

LEMMA EntryType ==
  ASSUME NEW d \in Disks, NEW b \in 0..NBLOCKS, NEW n \in Names \cup Dots,
         NEW i \in 0..NINODES - 1
  PROVE  [d EXCEPT !.data[b][n] = i] \in Disks
BY DEF Disks

LEMMA BallocType ==
  ASSUME NEW d \in Disks, NEW b \in Blocks
  PROVE  balloc(d, b) \in Disks
<1>1. Zeroed \in [Names \cup Dots -> 0..NINODES - 1]
  BY FsAssumption DEF Zeroed
<1> QED BY <1>1, InumFacts DEF Disks, balloc

LEMMA FreeBlockType ==
  ASSUME NEW d \in Disks
  PROVE  FreeBlock(d) \in Blocks \cup {0}
<1>1. CASE Blocks \subseteq d.used
  BY <1>1 DEF FreeBlock
<1>2. CASE ~(Blocks \subseteq d.used)
  <2>1. \E b \in Blocks \ d.used : \A c \in Blocks \ d.used : b <= c
    <3>1. Blocks \ d.used \subseteq Nat /\ Blocks \ d.used # {}
      BY <1>2, InumFacts
    <3> QED BY <3>1, LeastMember
  <2> QED BY <1>2, <2>1 DEF FreeBlock
<1> QED BY <1>1, <1>2

LEMMA IlockType ==
  ASSUME TypeOK, NEW p \in Procs, NEW i \in Inums
  PROVE  /\ ilock(p, i) \in Entries /\ iunlock(ilock(p, i)) \in Entries
         /\ ilock(p, i).ref = ic[i].ref /\ ilock(p, i).lock = p
         /\ iunlock(ilock(p, i)).ref = ic[i].ref /\ iunlock(ilock(p, i)).lock = NoProc
BY DEF TypeOK, Entries, Disks, ilock, iunlock, Types

LEMMA DirlookupType ==
  ASSUME NEW d \in Disks, NEW c \in Entries, NEW n \in Names \cup Dots
  PROVE  dirlookup(d, c, n) \in Inums \cup {0}
<1>1. dirlookup(d, c, n) \in 0..NINODES - 1
  <2>1. c.blk \in 0..NBLOCKS
    BY DEF Entries
  <2>2. d.data \in [0..NBLOCKS -> [Names \cup Dots -> 0..NINODES - 1]]
    BY DEF Disks
  <2>3. d.data[c.blk] \in [Names \cup Dots -> 0..NINODES - 1]
    BY <2>1, <2>2
  <2> QED BY <2>3 DEF dirlookup
<1> QED BY <1>1, InumFacts

LEMMA EntryFields ==
  ASSUME NEW x \in Entries
  PROVE  /\ x.type \in Types /\ x.nlink \in Int /\ x.blk \in 0..NBLOCKS /\ x.ref \in Nat
         /\ \A k \in Int : LET y == [x EXCEPT !.nlink = k] IN
                            y \in Entries /\ y.ref = x.ref /\ y.lock = x.lock
BY DEF Entries

LEMMA IgetEntry ==
  ASSUME NEW c \in Entries
  PROVE  LET e == [c EXCEPT !.ref = @ + 1, !.valid = c.valid /\ c.ref > 0] IN
         e \in Entries /\ e.ref = c.ref + 1 /\ e.lock = c.lock
<1> DEFINE e == [c EXCEPT !.ref = @ + 1, !.valid = c.valid /\ c.ref > 0]
<1>1. c.ref + 1 \in Nat
  BY DEF Entries
<1>2. e \in Entries
  BY <1>1 DEF Entries
<1>3. e.ref = c.ref + 1 /\ e.lock = c.lock
  BY DEF Entries
<1> QED BY <1>2, <1>3

LEMMA IgetType ==
  ASSUME NEW c \in [Inums -> Entries], NEW i \in Inums
  PROVE  /\ iget(c, i) \in [Inums -> Entries]
         /\ \A j \in Inums : /\ iget(c, i)[j].lock = c[j].lock
                             /\ iget(c, i)[j].ref = c[j].ref + One(i = j)
<1> DEFINE e == [c[i] EXCEPT !.ref = @ + 1, !.valid = c[i].valid /\ c[i].ref > 0]
<1>1. iget(c, i) = [c EXCEPT ![i] = e]
  BY DEF iget
<1>2. c[i] \in Entries
  OBVIOUS
<1>3. e \in Entries /\ e.ref = c[i].ref + 1 /\ e.lock = c[i].lock
  BY <1>2, IgetEntry
<1> HIDE DEF e
<1>4. \A j \in Inums : c[j].ref \in Nat
  BY DEF Entries
<1> QED BY <1>1, <1>3, <1>4 DEF One

\* iget() once the entry of another inode has been changed.
Recached(i, x, n) == iget([ic EXCEPT ![i] = x], n)

LEMMA CacheGet ==
  ASSUME ic \in [Inums -> Entries], NEW i \in Inums, NEW x \in Entries, x.ref = ic[i].ref,
         NEW n \in Inums
  PROVE  LET y == Recached(i, x, n) IN
         /\ y \in [Inums -> Entries]
         /\ \A j \in Inums : /\ y[j].ref = ic[j].ref + One(n = j)
                             /\ y[j].lock = IF j = i THEN x.lock ELSE ic[j].lock
<1> DEFINE z == [ic EXCEPT ![i] = x]
<1>1. /\ z \in [Inums -> Entries]
      /\ \A j \in Inums : z[j] = IF j = i THEN x ELSE ic[j]
  OBVIOUS
<1> HIDE DEF z
<1>2. /\ iget(z, n) \in [Inums -> Entries]
      /\ \A j \in Inums : iget(z, n)[j].lock = z[j].lock /\ iget(z, n)[j].ref = z[j].ref + One(n = j)
  BY <1>1, IgetType
<1>3. \A j \in Inums : /\ z[j].ref = ic[j].ref
                       /\ z[j].lock = IF j = i THEN x.lock ELSE ic[j].lock
  BY <1>1
<1> QED BY <1>2, <1>3 DEF z, Recached

\* Two entries changed, the second one last.
TwoSet(i, a, d, b) == [ic EXCEPT ![i] = a, ![d] = b]

LEMMA CacheTwo ==
  ASSUME ic \in [Inums -> Entries], NEW i \in Inums, NEW a \in Entries, a.ref = ic[i].ref,
         NEW d \in Inums, NEW b \in Entries, b.ref = ic[d].ref, ic' = TwoSet(i, a, d, b)
  PROVE  /\ ic' \in [Inums -> Entries]
         /\ \A j \in Inums : /\ ic'[j].ref = ic[j].ref
                             /\ ic'[j].lock = IF j = d THEN b.lock ELSE
                                              IF j = i THEN a.lock ELSE ic[j].lock
<1>1. /\ ic' \in [Inums -> Entries]
      /\ \A j \in Inums : ic'[j] = IF j = d THEN b ELSE IF j = i THEN a ELSE ic[j]
  BY DEF TwoSet
<1> QED BY <1>1

LEMMA NewEntry ==
  ASSUME NEW x \in Entries, NEW m \in Int, NEW k \in 0..NBLOCKS
  PROVE  LET y == [x EXCEPT !.nlink = m, !.blk = k] IN
         y \in Entries /\ y.ref = x.ref /\ y.lock = x.lock
<1> DEFINE y == [x EXCEPT !.nlink = m, !.blk = k]
<1>1. y \in Entries
  BY DEF Entries
<1>2. y.ref = x.ref /\ y.lock = x.lock
  BY DEF Entries
<1> QED BY <1>1, <1>2

LEMMA UnlockEntry ==
  ASSUME NEW x \in Entries, NEW k \in Int
  PROVE  LET y == [x EXCEPT !.lock = NoProc, !.nlink = k]
             z == [iunlock(x) EXCEPT !.nlink = k] IN
         /\ y \in Entries /\ y.ref = x.ref /\ y.lock = NoProc /\ y.blk = x.blk
         /\ z \in Entries /\ z.ref = x.ref /\ z.lock = NoProc
         /\ iunlock(x) \in Entries /\ iunlock(x).ref = x.ref /\ iunlock(x).lock = NoProc
BY DEF Entries, iunlock

-----------------------------------------------------------------------------
(* Counting the pointers to an inode.                                        *)

\* The pointers to i of a process in the call c, with p->cwd w and the open file f.
Owns(c, w, f, i) ==
  One(w = i) + One(f = i) + One(HoldsIp(c) /\ c.ip = i) + One(HoldsDp(c) /\ c.dp = i)
  + One(1 <= Len(c.put) /\ c.put[1] = i) + One(2 <= Len(c.put) /\ c.put[2] = i)

Cwds(i) == {p \in Procs : cwd[p] = i}
Open(i) == {p \in Procs : file[p] = i}
Ips(i) == {p \in Procs : HoldsIp(s[p]) /\ s[p].ip = i}
Dps(i) == {p \in Procs : HoldsDp(s[p]) /\ s[p].dp = i}

Refs(i) == Cardinality(Cwds(i)) + Cardinality(Open(i)) + Cardinality(Ips(i))
           + Cardinality(Dps(i)) + Cardinality(InPut(i))

\* What one process points to changes.
OnlyCallOf(p) ==
  \A q \in Procs \ {p} : s'[q] = s[q] /\ cwd'[q] = cwd[q] /\ file'[q] = file[q]

LEMMA FiniteParts == IsFiniteSet(Procs) /\ IsFiniteSet(Procs \X (1..2))
<1>1. IsFiniteSet(1..2)
  <2>1. 1 \in Int /\ 2 \in Int
    OBVIOUS
  <2> QED BY <2>1, FS_Interval
<1> QED BY <1>1, FsAssumption, FS_Product

LEMMA CountsAreNat ==
  ASSUME NEW i
  PROVE  /\ Cardinality(Cwds(i)) \in Nat /\ Cardinality(Open(i)) \in Nat
         /\ Cardinality(Ips(i)) \in Nat /\ Cardinality(Dps(i)) \in Nat
         /\ Cardinality(InPut(i)) \in Nat
<1>1. /\ Cwds(i) \subseteq Procs /\ Open(i) \subseteq Procs /\ Ips(i) \subseteq Procs
      /\ Dps(i) \subseteq Procs /\ InPut(i) \subseteq Procs \X (1..2)
  BY DEF Cwds, Open, Ips, Dps, InPut
<1> QED BY <1>1, FiniteParts, CountType

\* The number of pointers to i changes as those of p do.
LEMMA RefsMove ==
  ASSUME NEW p \in Procs, OnlyCallOf(p), NEW i
  PROVE  /\ Refs(i)' = Refs(i) + Owns(s'[p], cwd'[p], file'[p], i)
                                - Owns(s[p], cwd[p], file[p], i)
         /\ Refs(i) \in Nat
<1>1. Cardinality(Cwds(i))' = Cardinality(Cwds(i)) + One(cwd'[p] = i) - One(cwd[p] = i)
  <2> DEFINE A == Cwds(i)
             C == Cwds(i)'
  <2>1. /\ A \subseteq Procs /\ C \subseteq Procs
        /\ \A q \in Procs : q # p => (q \in A <=> q \in C)
        /\ p \in A <=> (cwd[p] = i)
        /\ p \in C <=> (cwd'[p] = i)
    BY DEF Cwds, OnlyCallOf
  <2> HIDE DEF A, C
  <2>2. Cardinality(C) = Cardinality(A) + One(p \in C) - One(p \in A)
    BY <2>1, FsAssumption, OneMoves
  <2> QED BY <2>1, <2>2 DEF A, C, One
<1>2. Cardinality(Open(i))' = Cardinality(Open(i)) + One(file'[p] = i) - One(file[p] = i)
  <2> DEFINE A == Open(i)
             C == Open(i)'
  <2>1. /\ A \subseteq Procs /\ C \subseteq Procs
        /\ \A q \in Procs : q # p => (q \in A <=> q \in C)
        /\ p \in A <=> (file[p] = i)
        /\ p \in C <=> (file'[p] = i)
    BY DEF Open, OnlyCallOf
  <2> HIDE DEF A, C
  <2>2. Cardinality(C) = Cardinality(A) + One(p \in C) - One(p \in A)
    BY <2>1, FsAssumption, OneMoves
  <2> QED BY <2>1, <2>2 DEF A, C, One
<1>3. Cardinality(Ips(i))' = Cardinality(Ips(i)) + One(HoldsIp(s'[p]) /\ s'[p].ip = i) - One(HoldsIp(s[p]) /\ s[p].ip = i)
  <2> DEFINE A == Ips(i)
             C == Ips(i)'
  <2>1. /\ A \subseteq Procs /\ C \subseteq Procs
        /\ \A q \in Procs : q # p => (q \in A <=> q \in C)
        /\ p \in A <=> (HoldsIp(s[p]) /\ s[p].ip = i)
        /\ p \in C <=> (HoldsIp(s'[p]) /\ s'[p].ip = i)
    BY DEF Ips, OnlyCallOf
  <2> HIDE DEF A, C
  <2>2. Cardinality(C) = Cardinality(A) + One(p \in C) - One(p \in A)
    BY <2>1, FsAssumption, OneMoves
  <2> QED BY <2>1, <2>2 DEF A, C, One
<1>4. Cardinality(Dps(i))' = Cardinality(Dps(i)) + One(HoldsDp(s'[p]) /\ s'[p].dp = i) - One(HoldsDp(s[p]) /\ s[p].dp = i)
  <2> DEFINE A == Dps(i)
             C == Dps(i)'
  <2>1. /\ A \subseteq Procs /\ C \subseteq Procs
        /\ \A q \in Procs : q # p => (q \in A <=> q \in C)
        /\ p \in A <=> (HoldsDp(s[p]) /\ s[p].dp = i)
        /\ p \in C <=> (HoldsDp(s'[p]) /\ s'[p].dp = i)
    BY DEF Dps, OnlyCallOf
  <2> HIDE DEF A, C
  <2>2. Cardinality(C) = Cardinality(A) + One(p \in C) - One(p \in A)
    BY <2>1, FsAssumption, OneMoves
  <2> QED BY <2>1, <2>2 DEF A, C, One
<1>5. Cardinality(InPut(i))' = Cardinality(InPut(i))
        + One(1 <= Len(s'[p].put) /\ s'[p].put[1] = i) - One(1 <= Len(s[p].put) /\ s[p].put[1] = i)
        + One(2 <= Len(s'[p].put) /\ s'[p].put[2] = i) - One(2 <= Len(s[p].put) /\ s[p].put[2] = i)
  <2> DEFINE A == InPut(i)
             C == InPut(i)'
             x == <<p, 1>>
             y == <<p, 2>>
             T == Procs \X (1..2)
  <2>1. A \subseteq T /\ C \subseteq T /\ x # y
    BY DEF InPut
  <2>2. \A z \in T : z # x /\ z # y => (z \in A <=> z \in C)
    BY DEF InPut, OnlyCallOf
  <2>3. /\ x \in A <=> (1 <= Len(s[p].put) /\ s[p].put[1] = i)
        /\ y \in A <=> (2 <= Len(s[p].put) /\ s[p].put[2] = i)
        /\ x \in C <=> (1 <= Len(s'[p].put) /\ s'[p].put[1] = i)
        /\ y \in C <=> (2 <= Len(s'[p].put) /\ s'[p].put[2] = i)
    BY DEF InPut
  <2>4. IsFiniteSet(T)
    BY FiniteParts
  <2> HIDE DEF A, C, x, y, T
  <2>5. A \ {x, y} = C \ {x, y}
    BY <2>1, <2>2
  <2>6. Cardinality(C) = Cardinality(A) + One(x \in C) - One(x \in A)
                                        + One(y \in C) - One(y \in A)
    BY <2>1, <2>4, <2>5, TwoMove DEF One
  <2> QED BY <2>3, <2>6 DEF A, C, One
<1>6. /\ Cardinality(Cwds(i)) \in Nat /\ Cardinality(Open(i)) \in Nat
      /\ Cardinality(Ips(i)) \in Nat /\ Cardinality(Dps(i)) \in Nat
      /\ Cardinality(InPut(i)) \in Nat
  BY CountsAreNat
<1> DEFINE c0 == One(cwd[p] = i)
           c1 == One(cwd'[p] = i)
           f0 == One(file[p] = i)
           f1 == One(file'[p] = i)
           i0 == One(HoldsIp(s[p]) /\ s[p].ip = i)
           i1 == One(HoldsIp(s'[p]) /\ s'[p].ip = i)
           d0 == One(HoldsDp(s[p]) /\ s[p].dp = i)
           d1 == One(HoldsDp(s'[p]) /\ s'[p].dp = i)
           a0 == One(1 <= Len(s[p].put) /\ s[p].put[1] = i)
           a1 == One(1 <= Len(s'[p].put) /\ s'[p].put[1] = i)
           b0 == One(2 <= Len(s[p].put) /\ s[p].put[2] = i)
           b1 == One(2 <= Len(s'[p].put) /\ s'[p].put[2] = i)
<1>7. /\ c0 \in Int /\ c1 \in Int /\ f0 \in Int /\ f1 \in Int /\ i0 \in Int /\ i1 \in Int
      /\ d0 \in Int /\ d1 \in Int /\ a0 \in Int /\ a1 \in Int /\ b0 \in Int /\ b1 \in Int
  BY DEF One
<1>8. /\ Owns(s[p], cwd[p], file[p], i) = c0 + f0 + i0 + d0 + a0 + b0
      /\ Owns(s'[p], cwd'[p], file'[p], i) = c1 + f1 + i1 + d1 + a1 + b1
  BY DEF Owns
<1> HIDE DEF c0, c1, f0, f1, i0, i1, d0, d1, a0, a1, b0, b1
<1>9. /\ Cardinality(Cwds(i))' = Cardinality(Cwds(i)) + c1 - c0
      /\ Cardinality(Open(i))' = Cardinality(Open(i)) + f1 - f0
  BY <1>1, <1>2 DEF c0, c1, f0, f1
<1>10. /\ Cardinality(Ips(i))' = Cardinality(Ips(i)) + i1 - i0
       /\ Cardinality(Dps(i))' = Cardinality(Dps(i)) + d1 - d0
  BY <1>3, <1>4 DEF i0, i1, d0, d1
<1>11. Cardinality(InPut(i))' = Cardinality(InPut(i)) + a1 - a0 + b1 - b0
  BY <1>5 DEF a0, a1, b0, b1
<1> QED BY <1>6, <1>7, <1>8, <1>9, <1>10, <1>11 DEF Refs

-----------------------------------------------------------------------------
(* The frame of a step.                                                      *)

LEMMA RefsSplit == RefsCounted <=> \A i \in Inums : ic[i].ref = Refs(i)
BY DEF RefsCounted, Refs, Cwds, Open, Ips, Dps

LEMMA RefsSplitNext == RefsCounted' <=> \A i \in Inums : ic'[i].ref = Refs(i)'
BY DEF RefsCounted, Refs, Cwds, Open, Ips, Dps

\* A step of p keeps the invariant if ip->ref changes as what p points to, and if
\* p has locked no inode that its call does not say it has.
LEMMA StepInv ==
  ASSUME IInv, NEW p \in Procs,
         s' = [s EXCEPT ![p] = s'[p]], s'[p] \in CallStates, Len(s'[p].put) <= 2,
         CallOK(s'[p]), HoldsIp(s'[p]) /\ s'[p].call = "open" => file'[p] = 0,
         cwd' = [cwd EXCEPT ![p] = cwd'[p]], cwd'[p] \in Inums,
         file' = [file EXCEPT ![p] = file'[p]], file'[p] \in Inums \cup {0},
         disk' \in Disks, durable' \in Disks, ic' \in [Inums -> Entries],
         \A i \in Inums : ic'[i].ref = ic[i].ref + Owns(s'[p], cwd'[p], file'[p], i)
                                                 - Owns(s[p], cwd[p], file[p], i),
         \A i \in Inums : \/ ic'[i].lock = NoProc
                          \/ ic'[i].lock = p /\ LockedBy(s'[p], i)
                          \/ ic'[i].lock = ic[i].lock /\ (LockedBy(s[p], i) => LockedBy(s'[p], i))
  PROVE  IInv'
<1>1. TypeOK /\ CallInv /\ FileInv /\ LockInv /\ RefsCounted
  BY DEF IInv
<1>2. \A q \in Procs \ {p} : s'[q] = s[q] /\ cwd'[q] = cwd[q] /\ file'[q] = file[q]
  BY <1>1 DEF TypeOK
<1>3. TypeOK'
  <2>1. s' \in [Procs -> CallStates] /\ cwd' \in [Procs -> Inums]
        /\ file' \in [Procs -> Inums \cup {0}]
    BY <1>1 DEF TypeOK
  <2>2. \A q \in Procs : Len(s'[q].put) <= 2
    BY <1>1, <1>2 DEF TypeOK
  <2> QED BY <2>1, <2>2 DEF TypeOK
<1>4. CallInv'
  BY <1>1, <1>2 DEF CallInv
<1>7. FileInv'
  BY <1>1, <1>2 DEF FileInv
<1>5. LockInv'
  <2> SUFFICES ASSUME NEW i \in Inums, ic'[i].lock # NoProc
               PROVE  ic'[i].lock \in Procs /\ LockedBy(s'[ic'[i].lock], i)
    BY DEF LockInv
  <2>1. CASE ic'[i].lock = p /\ LockedBy(s'[p], i)
    BY <2>1
  <2>2. CASE ic'[i].lock = ic[i].lock /\ (LockedBy(s[p], i) => LockedBy(s'[p], i))
    <3>1. ic[i].lock \in Procs /\ LockedBy(s[ic[i].lock], i)
      BY <1>1, <2>2 DEF LockInv
    <3> QED BY <1>2, <2>2, <3>1
  <2> QED BY <2>1, <2>2
<1>6. RefsCounted'
  <2> SUFFICES ASSUME NEW i \in Inums PROVE ic'[i].ref = Refs(i)'
    BY RefsSplitNext
  <2>1. ic[i].ref = Refs(i)
    BY <1>1, RefsSplit
  <2>2. /\ Refs(i)' = Refs(i) + Owns(s'[p], cwd'[p], file'[p], i)
                               - Owns(s[p], cwd[p], file[p], i)
        /\ Refs(i) \in Nat
    BY <1>2, RefsMove DEF OnlyCallOf
  <2> QED BY <2>1, <2>2
<1> QED BY <1>3, <1>4, <1>5, <1>6, <1>7 DEF IInv

\* A panic, or a step that is none, changes nothing of it.
LEMMA SameInv ==
  ASSUME IInv, UNCHANGED <<disk, durable, ic, s, cwd, file>>
  PROVE  IInv'
BY DEF IInv, TypeOK, CallInv, FileInv, LockInv, RefsCounted, InPut

\* After mkfs or a crash, only the root is pointed to.
LEMMA RunningInv ==
  ASSUME Running, disk \in Disks, durable \in Disks
  PROVE  IInv
<1>1. TypeOK
  <2>1. Uncached \in Entries /\ [Uncached EXCEPT !.ref = Cardinality(Procs)] \in Entries
    <3>1. Cardinality(Procs) \in Nat /\ 0 \in 0..NBLOCKS
      BY FsAssumption, FS_CardinalityType
    <3>2. Uncached \in Entries
      BY <3>1 DEF Uncached, Entries, Types
    <3> QED BY <3>1, <3>2 DEF Entries
  <2>2. Idle \in CallStates /\ Idle.put = <<>>
    BY DEF Idle, CallStates, Pcs, Dots
  <2> QED BY <2>1, <2>2, InumFacts DEF TypeOK, Running
<1>2. CallInv
  BY DEF CallInv, Running, CallOK, Idle, HoldsIp, HoldsDp, Doing
<1>5. FileInv
  BY DEF FileInv, Running
<1>3. LockInv
  BY DEF LockInv, Running, Uncached
<1>4. RefsCounted
  <2> SUFFICES ASSUME NEW i \in Inums PROVE ic[i].ref = Refs(i)
    BY RefsSplit
  <2>1. Open(i) = {} /\ Ips(i) = {} /\ Dps(i) = {}
    BY InumFacts DEF Open, Ips, Dps, Running, Idle, HoldsIp, HoldsDp, Doing
  <2>2. InPut(i) = {}
    BY DEF InPut, Running, Idle
  <2>3. Cwds(i) = IF i = ROOTINO THEN Procs ELSE {}
    BY DEF Cwds, Running
  <2>4. Cardinality({}) = 0 /\ Cardinality(Procs) \in Nat
    BY FS_EmptySet, FsAssumption, FS_CardinalityType
  <2>5. ic[i].ref = IF i = ROOTINO THEN Cardinality(Procs) ELSE 0
    BY DEF Running, Uncached
  <2> QED BY <2>1, <2>2, <2>3, <2>4, <2>5 DEF Refs
<1> QED BY <1>1, <1>2, <1>3, <1>4, <1>5 DEF IInv

-----------------------------------------------------------------------------
(* What a process points to is counted.                                      *)

LEMMA CallFacts ==
  ASSUME IInv, NEW p \in Procs
  PROVE  /\ s[p] \in CallStates /\ Len(s[p].put) <= 2 /\ CallOK(s[p])
         /\ s = [s EXCEPT ![p] = s[p]]
         /\ cwd[p] \in Inums /\ cwd = [cwd EXCEPT ![p] = cwd[p]]
         /\ file[p] \in Inums \cup {0} /\ file = [file EXCEPT ![p] = file[p]]
         /\ disk \in Disks /\ durable \in Disks /\ ic \in [Inums -> Entries] /\ TypeOK
         /\ s[p].put \in Seq(Inums)
         /\ \A i \in Inums : ic[i].ref \in Nat
<1>1. s[p] \in CallStates /\ ic \in [Inums -> Entries]
  BY DEF IInv, TypeOK
<1>2. s[p].put \in Seq(Inums) /\ \A i \in Inums : ic[i].ref \in Nat
  BY <1>1 DEF CallStates, Entries
<1> QED BY <1>1, <1>2 DEF IInv, TypeOK, CallInv

\* The list of inodes to put, and what is left of it.
LEMMA PutFacts ==
  ASSUME NEW q \in Seq(Inums), q # <<>>, Len(q) <= 2
  PROVE  /\ Head(q) = q[1] /\ Head(q) \in Inums /\ Len(q) \in 1..2
         /\ Tail(q) \in Seq(Inums) /\ Len(Tail(q)) = Len(q) - 1
         /\ Len(q) = 2 => Tail(q)[1] = q[2]
<1>1. Len(q) \in Nat /\ Len(q) # 0
  BY EmptySeq, LenProperties
<1>2. Len(q) \in 1..2
  <2>1. \A n \in Nat : n # 0 /\ n <= 2 => n \in 1..2
    OBVIOUS
  <2> QED BY <1>1, <2>1
<1>3. q[1] \in Inums /\ Head(q) = q[1]
  BY <1>2
<1>4. Tail(q) \in Seq(Inums) /\ Len(Tail(q)) = Len(q) - 1
  BY <1>1, HeadTailProperties
<1>5. Len(q) = 2 => Tail(q)[1] = q[2]
  <2>1. \A j \in 1..Len(Tail(q)) : Tail(q)[j] = q[j + 1]
    BY HeadTailProperties
  <2>2. Len(q) = 2 => 1 \in 1..Len(Tail(q)) /\ 1 + 1 = 2
    BY <1>4, SMTT(30)
  <2> QED BY <2>1, <2>2
<1> QED BY <1>2, <1>3, <1>4, <1>5

\* An inode that is yet to be put has a reference.
LEMMA PutCounted ==
  ASSUME IInv, NEW p \in Procs, s[p].put # <<>>
  PROVE  /\ Head(s[p].put) \in Inums /\ ic[Head(s[p].put)].ref - 1 \in Nat
<1> DEFINE i == Head(s[p].put)
<1>1. s[p].put \in Seq(Inums) /\ Len(s[p].put) <= 2
  BY CallFacts
<1>2. i = s[p].put[1] /\ i \in Inums /\ Len(s[p].put) \in 1..2
  BY <1>1, PutFacts
<1>3. <<p, 1>> \in InPut(i) /\ InPut(i) \subseteq Procs \X (1..2)
  BY <1>2 DEF InPut
<1>4. Cardinality(InPut(i)) >= 1
  BY <1>3, FiniteParts, CountType, CountOne
<1>5. ic[i].ref = Refs(i)
  BY <1>2, RefsSplit DEF IInv
<1> QED BY <1>2, <1>4, <1>5, CountsAreNat DEF Refs

LEMMA OwnsType == ASSUME NEW c, NEW w, NEW f, NEW i PROVE Owns(c, w, f, i) \in Int
BY DEF Owns, One

\* Between its first step and its last, a call stays the call it is.
Goes(c, e) == HoldsIp(e) => HoldsIp(c) /\ e.call = c.call

LEMMA GoesOpen ==
  ASSUME IInv, NEW p \in Procs, Goes(s[p], s'[p]), file' = file
  PROVE  HoldsIp(s'[p]) /\ s'[p].call = "open" => file'[p] = 0
BY DEF IInv, FileInv, Goes

\* A step of p that changes neither what p points to nor ip->ref.
LEMMA SameRefs ==
  ASSUME IInv, NEW p \in Procs,
         s' = [s EXCEPT ![p] = s'[p]], s'[p] \in CallStates, Len(s'[p].put) <= 2,
         CallOK(s'[p]), Goes(s[p], s'[p]), cwd' = cwd, file' = file,
         disk' \in Disks, durable' \in Disks, ic' \in [Inums -> Entries],
         \A i \in Inums : /\ ic'[i].ref = ic[i].ref
                          /\ Owns(s'[p], cwd[p], file[p], i) = Owns(s[p], cwd[p], file[p], i),
         \A i \in Inums : \/ ic'[i].lock = NoProc
                          \/ ic'[i].lock = p /\ LockedBy(s'[p], i)
                          \/ ic'[i].lock = ic[i].lock /\ (LockedBy(s[p], i) => LockedBy(s'[p], i))
  PROVE  IInv'
<1>1. /\ cwd[p] \in Inums /\ cwd = [cwd EXCEPT ![p] = cwd[p]]
      /\ file[p] \in Inums \cup {0} /\ file = [file EXCEPT ![p] = file[p]]
      /\ \A i \in Inums : ic[i].ref \in Nat
  BY CallFacts
<1>2. \A i \in Inums : ic'[i].ref = ic[i].ref + Owns(s'[p], cwd'[p], file'[p], i)
                                               - Owns(s[p], cwd[p], file[p], i)
  BY <1>1, OwnsType
<1>3. cwd' = [cwd EXCEPT ![p] = cwd'[p]] /\ file' = [file EXCEPT ![p] = file'[p]]
      /\ cwd'[p] \in Inums /\ file'[p] \in Inums \cup {0}
  BY <1>1
<1> QED BY <1>2, <1>3, GoesOpen, StepInv

\* The records that the calls change their locals to.
LEMMA SeqsOfInums ==
  ASSUME NEW i \in Inums
  PROVE  /\ <<i>> \in Seq(Inums) /\ Len(<<i>>) = 1 /\ <<i>>[1] = i /\ <<i>> # <<>>
         /\ \A j \in Inums : /\ <<i, j>> \in Seq(Inums) /\ Len(<<i, j>>) = 2
                             /\ <<i, j>>[1] = i /\ <<i, j>>[2] = j
OBVIOUS

\* The changes of a call's locals, by the fields they set.
SetPc(c, l) == [c EXCEPT !.pc = l]
SetPut(c, w) == [c EXCEPT !.put = w]
SetPcPut(c, l, w) == [c EXCEPT !.pc = l, !.put = w]
SetPcNamePath(c, l, n, q) == [c EXCEPT !.pc = l, !.name = n, !.path = q]
SetPcBack(c, l, b) == [c EXCEPT !.pc = l, !.back = b]
Put1(c, l, i) == [c EXCEPT !.pc = l, !.put = <<i>>]
Put2(c, l, i, j) == [c EXCEPT !.pc = l, !.put = <<i, j>>]
LinkPath(c, q, i, d) ==
  [c EXCEPT !.pc = "namex", !.path = q, !.parent = TRUE, !.then = "link_dp", !.ip = i, !.dp = d]
SetPcIpDp(c, l, i, d) == [c EXCEPT !.pc = l, !.ip = i, !.dp = d]
PcIpPut1(c, l, i, d) == [c EXCEPT !.pc = l, !.ip = i, !.put = <<d>>]
Drop1(c, l, d) == [c EXCEPT !.pc = l, !.put = <<d>>, !.dp = 0]
Drop2(c, l, i, d) == [c EXCEPT !.pc = l, !.put = <<i, d>>, !.dp = 0]
SetIpPutPath(c, i, w, q) == [c EXCEPT !.ip = i, !.put = w, !.path = q]

LEMMA EditPc ==
  ASSUME NEW c \in CallStates, NEW l \in Pcs \cup Freeing
  PROVE  LET e == SetPc(c, l) IN
         /\ e \in CallStates /\ e.call = c.call /\ e.pc = l /\ e.put = c.put /\ e.ip = c.ip /\ e.dp = c.dp
         /\ e.path2 = c.path2 /\ e.then = c.then /\ e.back = c.back
BY ZenonT(30) DEF CallStates, SetPc

LEMMA EditPut ==
  ASSUME NEW c \in CallStates, NEW w \in Seq(Inums)
  PROVE  LET e == SetPut(c, w) IN
         /\ e \in CallStates /\ e.call = c.call /\ e.pc = c.pc /\ e.put = w /\ e.ip = c.ip /\ e.dp = c.dp
         /\ e.path2 = c.path2 /\ e.then = c.then /\ e.back = c.back
BY ZenonT(30) DEF CallStates, SetPut

LEMMA EditPcPut ==
  ASSUME NEW c \in CallStates, NEW l \in Pcs, NEW w \in Seq(Inums)
  PROVE  LET e == SetPcPut(c, l, w) IN
         /\ e \in CallStates /\ e.call = c.call /\ e.pc = l /\ e.put = w /\ e.ip = c.ip /\ e.dp = c.dp
         /\ e.path2 = c.path2 /\ e.then = c.then /\ e.back = c.back
BY ZenonT(30) DEF CallStates, SetPcPut

LEMMA EditPcNamePath ==
  ASSUME NEW c \in CallStates, NEW l \in Pcs, NEW n \in Names \cup Dots,
         NEW q \in Seq(Names \cup Dots)
  PROVE  LET e == SetPcNamePath(c, l, n, q) IN
         /\ e \in CallStates /\ e.call = c.call /\ e.pc = l /\ e.put = c.put /\ e.ip = c.ip /\ e.dp = c.dp
         /\ e.path2 = c.path2 /\ e.then = c.then /\ e.back = c.back
BY ZenonT(30) DEF CallStates, SetPcNamePath

LEMMA EditIpPutPath ==
  ASSUME NEW c \in CallStates, NEW i \in Inums, NEW w \in Seq(Inums),
         NEW q \in Seq(Names \cup Dots)
  PROVE  LET e == SetIpPutPath(c, i, w, q) IN
         /\ e \in CallStates /\ e.call = c.call /\ e.pc = c.pc /\ e.put = w /\ e.ip = i /\ e.dp = c.dp
         /\ e.path2 = c.path2 /\ e.then = c.then /\ e.back = c.back
BY ZenonT(30) DEF CallStates, SetIpPutPath

LEMMA EditPcBack ==
  ASSUME NEW c \in CallStates, NEW l \in Pcs \cup Freeing, NEW b \in Pcs
  PROVE  LET e == SetPcBack(c, l, b) IN
         /\ e \in CallStates /\ e.call = c.call /\ e.pc = l /\ e.put = c.put /\ e.ip = c.ip /\ e.dp = c.dp
         /\ e.path2 = c.path2 /\ e.then = c.then /\ e.back = b
BY ZenonT(30) DEF CallStates, SetPcBack

LEMMA EditPut1 ==
  ASSUME NEW c \in CallStates, NEW l \in Pcs, NEW i \in Inums
  PROVE  LET e == Put1(c, l, i) IN
         /\ e \in CallStates /\ e.pc = l /\ Len(e.put) = 1 /\ e.put[1] = i
         /\ e.ip = c.ip /\ e.dp = c.dp
<1> DEFINE w == <<i>>
           e == SetPcPut(c, l, w)
<1>1. w \in Seq(Inums)
  BY SeqsOfInums
<1>2. Len(w) = 1 /\ w[1] = i
  BY SeqsOfInums
<1>3. Put1(c, l, i) = e
  BY DEF Put1, SetPcPut
<1> HIDE DEF w
<1>4. e \in CallStates /\ e.pc = l /\ e.put = w /\ e.ip = c.ip /\ e.dp = c.dp
  BY <1>1, EditPcPut
<1> HIDE DEF e
<1>5. Len(e.put) = 1 /\ e.put[1] = i
  BY <1>2, <1>4
<1> QED BY <1>3, <1>4, <1>5

LEMMA EditPut2 ==
  ASSUME NEW c \in CallStates, NEW l \in Pcs, NEW i \in Inums, NEW j \in Inums
  PROVE  LET e == Put2(c, l, i, j) IN
         /\ e \in CallStates /\ e.pc = l /\ Len(e.put) = 2 /\ e.put[1] = i /\ e.put[2] = j
<1> DEFINE w == <<i, j>>
           e == SetPcPut(c, l, w)
<1>1. w \in Seq(Inums)
  BY SeqsOfInums
<1>2. Len(w) = 2 /\ w[1] = i /\ w[2] = j
  BY SeqsOfInums
<1>3. Put2(c, l, i, j) = e
  BY DEF Put2, SetPcPut
<1> HIDE DEF w
<1>4. e \in CallStates /\ e.pc = l /\ e.put = w
  BY <1>1, EditPcPut
<1> HIDE DEF e
<1>5. Len(e.put) = 2 /\ e.put[1] = i /\ e.put[2] = j
  BY <1>2, <1>4
<1> QED BY <1>3, <1>4, <1>5

LEMMA EditPath ==
  ASSUME NEW c \in CallStates, NEW q \in Seq(Names \cup Dots), NEW i \in Inums, NEW d \in Inums
  PROVE  LET e == LinkPath(c, q, i, d) IN
         /\ e \in CallStates /\ e.call = c.call /\ e.pc = "namex" /\ e.put = c.put /\ e.ip = i /\ e.dp = d
         /\ e.then = "link_dp" /\ e.path2 = c.path2
<1>1. "namex" \in Pcs /\ TRUE \in BOOLEAN
  BY DEF Pcs
<1>2. LinkPath(c, q, i, d) \in CallStates
  BY <1>1 DEF CallStates, LinkPath
<1> QED BY <1>2 DEF CallStates, LinkPath

LEMMA EditPcIpDp ==
  ASSUME NEW c \in CallStates, NEW l \in Pcs, NEW i \in Inums, NEW d \in Inums
  PROVE  LET e == SetPcIpDp(c, l, i, d) IN
         /\ e \in CallStates /\ e.call = c.call /\ e.pc = l /\ e.put = c.put /\ e.ip = i /\ e.dp = d
BY DEF CallStates, SetPcIpDp

LEMMA EditPcIpPut1 ==
  ASSUME NEW c \in CallStates, NEW l \in Pcs, NEW i \in Inums, NEW d \in Inums
  PROVE  LET e == PcIpPut1(c, l, i, d) IN
         /\ e \in CallStates /\ e.call = c.call /\ e.pc = l /\ Len(e.put) = 1 /\ e.put[1] = d
         /\ e.ip = i /\ e.dp = c.dp
<1> DEFINE w == <<d>>
           e == [c EXCEPT !.pc = l, !.ip = i, !.put = w]
<1>1. w \in Seq(Inums) /\ 0 \in Inums \cup {0}
  BY SeqsOfInums
<1>2. Len(w) = 1 /\ w[1] = d
  BY SeqsOfInums
<1>3. PcIpPut1(c, l, i, d) = e
  BY DEF PcIpPut1
<1> HIDE DEF w
<1>4. e \in CallStates
  BY <1>1 DEF CallStates
<1>5. e.call = c.call /\ e.pc = l /\ e.put = w /\ e.ip = i /\ e.dp = c.dp
  BY <1>1 DEF CallStates
<1> HIDE DEF e
<1>6. Len(e.put) = 1 /\ e.put[1] = d
  BY <1>2, <1>5
<1> QED BY <1>3, <1>4, <1>5, <1>6

LEMMA EditDrop1 ==
  ASSUME NEW c \in CallStates, NEW l \in Pcs, NEW d \in Inums
  PROVE  LET e == Drop1(c, l, d) IN
         /\ e \in CallStates /\ e.call = c.call /\ e.pc = l /\ Len(e.put) = 1 /\ e.put[1] = d
         /\ e.ip = c.ip /\ e.dp = 0
<1> DEFINE w == <<d>>
           e == [c EXCEPT !.pc = l, !.put = w, !.dp = 0]
<1>1. w \in Seq(Inums) /\ 0 \in Inums \cup {0}
  BY SeqsOfInums
<1>2. Len(w) = 1 /\ w[1] = d
  BY SeqsOfInums
<1>3. Drop1(c, l, d) = e
  BY DEF Drop1
<1> HIDE DEF w
<1>4. e \in CallStates
  BY <1>1 DEF CallStates
<1>5. e.call = c.call /\ e.pc = l /\ e.put = w /\ e.ip = c.ip /\ e.dp = 0
  BY <1>1 DEF CallStates
<1> HIDE DEF e
<1>6. Len(e.put) = 1 /\ e.put[1] = d
  BY <1>2, <1>5
<1> QED BY <1>3, <1>4, <1>5, <1>6

LEMMA EditDrop2 ==
  ASSUME NEW c \in CallStates, NEW l \in Pcs, NEW i \in Inums, NEW d \in Inums
  PROVE  LET e == Drop2(c, l, i, d) IN
         /\ e \in CallStates /\ e.pc = l /\ Len(e.put) = 2 /\ e.put[1] = i /\ e.put[2] = d
         /\ e.ip = c.ip /\ e.dp = 0
<1> DEFINE w == <<i, d>>
           e == [c EXCEPT !.pc = l, !.put = w, !.dp = 0]
<1>1. w \in Seq(Inums) /\ 0 \in Inums \cup {0}
  BY SeqsOfInums
<1>2. Len(w) = 2 /\ w[1] = i /\ w[2] = d
  BY SeqsOfInums
<1>3. Drop2(c, l, i, d) = e
  BY DEF Drop2
<1> HIDE DEF w
<1>4. e \in CallStates
  BY <1>1 DEF CallStates
<1>5. e.pc = l /\ e.put = w /\ e.ip = c.ip /\ e.dp = 0
  BY <1>1 DEF CallStates
<1> HIDE DEF e
<1>6. Len(e.put) = 2 /\ e.put[1] = i /\ e.put[2] = d
  BY <1>2, <1>5
<1> QED BY <1>3, <1>4, <1>5, <1>6

\* The call p is in, once its locals have been changed to e.
LEMMA NewLocals ==
  ASSUME IInv, NEW p \in Procs, NEW e, s' = [s EXCEPT ![p] = e]
  PROVE  s'[p] = e /\ s' = [s EXCEPT ![p] = s'[p]]
BY DEF IInv, TypeOK

-----------------------------------------------------------------------------
(* A call that gives up puts the inode it works on.                          *)

LEMMA FailCall ==
  ASSUME NEW c \in CallStates, CallOK(c), c.put = <<>>, c.pc \notin Freeing,
         HoldsIp(c), NEW w, NEW f,
         NEW e \in CallStates, e.pc = IF c.dp # 0 THEN "link_bad" ELSE "end",
         e.put = <<c.ip>>, e.dp = c.dp
  PROVE  /\ Len(e.put) <= 2 /\ CallOK(e)
         /\ \A i \in Inums : Owns(e, w, f, i) = Owns(c, w, f, i)
<1>1. c.ip \in Inums /\ HoldsDp(c) /\ Doing(c) = c.pc
  BY DEF CallOK, HoldsIp, HoldsDp, Doing, CallStates
<1>2. Len(e.put) = 1 /\ e.put[1] = c.ip
  BY <1>1
<1>3. CallOK(e)
  BY DEF CallOK, HoldsIp, HoldsDp, Doing
<1>4. \A i \in Inums : Owns(e, w, f, i) = Owns(c, w, f, i)
  BY <1>1, <1>2, InumFacts DEF Owns, One, HoldsIp, HoldsDp, Doing
<1> QED BY <1>2, <1>3, <1>4

LEMMA FailStep ==
  ASSUME IInv, NEW p \in Procs, s[p].put = <<>>, s[p].pc \notin Freeing,
         HoldsIp(s[p]), Fail(p, NoPath(p), <<s[p].ip>>), cwd' = cwd, file' = file,
         disk' \in Disks, durable' \in Disks, ic' \in [Inums -> Entries],
         \A i \in Inums : /\ ic'[i].ref = ic[i].ref
                          /\ \/ ic'[i].lock = NoProc
                             \/ ic'[i].lock = ic[i].lock /\ ~LockedBy(s[p], i)
  PROVE  IInv'
<1> DEFINE c == s[p]
           e == SetPcPut(c, NoPath(p), <<c.ip>>)
<1>1. c \in CallStates /\ CallOK(c)
  BY CallFacts
<1>2. NoPath(p) \in Pcs /\ <<c.ip>> \in Seq(Inums)
  <2>1. c.ip \in Inums
    BY <1>1 DEF CallOK, CallStates
  <2> QED BY <2>1, SeqsOfInums DEF NoPath, Pcs
<1>3. s' = [s EXCEPT ![p] = e]
  BY DEF Fail, SetPcPut
<1>4. e \in CallStates /\ e.pc = NoPath(p) /\ e.put = <<c.ip>> /\ e.dp = c.dp
  BY <1>1, <1>2, EditPcPut
<1> HIDE DEF e
<1>5. e.pc = IF c.dp # 0 THEN "link_bad" ELSE "end"
  BY <1>4 DEF NoPath
<1>6. /\ Len(e.put) <= 2 /\ CallOK(e)
      /\ \A i \in Inums : Owns(e, cwd[p], file[p], i) = Owns(c, cwd[p], file[p], i)
  BY <1>1, <1>4, <1>5, FailCall
<1>8. Goes(c, e)
  BY <1>5 DEF Goes, HoldsIp, Doing
<1>7. s'[p] = e /\ s' = [s EXCEPT ![p] = s'[p]]
  BY <1>3, NewLocals
<1> QED BY <1>4, <1>6, <1>7, <1>8, SameRefs

-----------------------------------------------------------------------------
(* A call that goes on with the same inodes.                                 *)

\* How the locals of a call may change when it keeps its inodes.
Keeps(c, e) ==
  /\ c.put = <<>> /\ e.put = <<>> /\ c.pc \notin Freeing /\ e.pc \in Pcs
  /\ HoldsIp(c) /\ HoldsIp(e) /\ e.ip = c.ip /\ e.dp = c.dp

LEMMA KeepStep ==
  ASSUME IInv, NEW p \in Procs, NEW e \in CallStates, s' = [s EXCEPT ![p] = e],
         Keeps(s[p], e), CallOK(e), Goes(s[p], e), cwd' = cwd, file' = file,
         disk' \in Disks, durable' \in Disks, ic' \in [Inums -> Entries],
         \A i \in Inums : /\ ic'[i].ref = ic[i].ref
                          /\ \/ ic'[i].lock = NoProc
                             \/ ic'[i].lock = p /\ LockedBy(e, i)
                             \/ ic'[i].lock = ic[i].lock /\ ~LockedBy(s[p], i)
  PROVE  IInv'
<1> DEFINE c == s[p]
<1>1. c \in CallStates /\ CallOK(c) /\ s'[p] = e /\ s' = [s EXCEPT ![p] = s'[p]]
  BY CallFacts, NewLocals
<1>2. Doing(c) = c.pc /\ Doing(e) = e.pc /\ HoldsDp(c) /\ HoldsDp(e)
  BY DEF Keeps, Doing, HoldsIp, HoldsDp, Pcs
<1>3. Len(e.put) <= 2
  BY DEF Keeps
<1>4. \A i \in Inums : Owns(e, cwd[p], file[p], i) = Owns(c, cwd[p], file[p], i)
  <2>1. e.put = c.put /\ e.ip = c.ip /\ e.dp = c.dp /\ HoldsIp(c) /\ HoldsIp(e)
    BY DEF Keeps
  <2> QED BY <1>2, <2>1 DEF Owns
<1>5. /\ s'[p] \in CallStates /\ Len(s'[p].put) <= 2 /\ CallOK(s'[p]) /\ Goes(s[p], s'[p])
      /\ s' = [s EXCEPT ![p] = s'[p]]
  BY <1>1, <1>3
<1>6. \A i \in Inums : /\ ic'[i].ref = ic[i].ref
                       /\ Owns(s'[p], cwd[p], file[p], i) = Owns(s[p], cwd[p], file[p], i)
  BY <1>1, <1>4
<1>7. \A i \in Inums : \/ ic'[i].lock = NoProc
                       \/ ic'[i].lock = p /\ LockedBy(s'[p], i)
                       \/ ic'[i].lock = ic[i].lock /\ (LockedBy(s[p], i) => LockedBy(s'[p], i))
  BY <1>1
<1> QED BY <1>5, <1>6, <1>7, SameRefs

-----------------------------------------------------------------------------
(* A call whose locals come to point to other inodes, as ip->ref does.       *)

LEMMA MoveStep ==
  ASSUME IInv, NEW p \in Procs, NEW e \in CallStates, s' = [s EXCEPT ![p] = e],
         Len(e.put) <= 2, CallOK(e), Goes(s[p], e), cwd' = cwd, file' = file,
         disk' \in Disks, durable' \in Disks, ic' \in [Inums -> Entries],
         \A i \in Inums :
           /\ ic'[i].ref = ic[i].ref + Owns(e, cwd[p], file[p], i)
                                     - Owns(s[p], cwd[p], file[p], i)
           /\ \/ ic'[i].lock = NoProc
              \/ ic'[i].lock = p /\ LockedBy(e, i)
              \/ ic'[i].lock = ic[i].lock /\ (LockedBy(s[p], i) => LockedBy(e, i))
  PROVE  IInv'
<1>1. s'[p] = e /\ s' = [s EXCEPT ![p] = s'[p]]
  BY NewLocals
<1>3. cwd' = [cwd EXCEPT ![p] = cwd'[p]] /\ file' = [file EXCEPT ![p] = file'[p]]
      /\ cwd'[p] \in Inums /\ file'[p] \in Inums \cup {0}
  BY CallFacts
<1>4. \A i \in Inums : ic'[i].ref = ic[i].ref + Owns(s'[p], cwd'[p], file'[p], i)
                                               - Owns(s[p], cwd[p], file[p], i)
  BY <1>1
<1>5. \A i \in Inums : \/ ic'[i].lock = NoProc
                       \/ ic'[i].lock = p /\ LockedBy(s'[p], i)
                       \/ ic'[i].lock = ic[i].lock /\ (LockedBy(s[p], i) => LockedBy(s'[p], i))
  BY <1>1
<1>6. /\ s'[p] \in CallStates /\ Len(s'[p].put) <= 2 /\ CallOK(s'[p])
      /\ HoldsIp(s'[p]) /\ s'[p].call = "open" => file'[p] = 0
  BY <1>1, GoesOpen
<1> QED BY <1>1, <1>3, <1>4, <1>5, <1>6, StepInv

-----------------------------------------------------------------------------
(* The actions.                                                              *)

LEMMA NamexEndInv ==
  ASSUME IInv, NEW p \in Procs, NamexEnd(p)
  PROVE  IInv'
<1> DEFINE c == s[p]
<1>1. /\ c \in CallStates /\ CallOK(c) /\ c.pc = "namex" /\ c.put = <<>>
      /\ disk' \in Disks /\ durable' \in Disks /\ ic' \in [Inums -> Entries]
      /\ ic' = ic /\ cwd' = cwd /\ file' = file
  BY CallFacts DEF NamexEnd, At, Quiet, Same
<1>2. HoldsIp(c) /\ c.then \in Thens \cup {"link_dp"}
      /\ \A i \in Inums : ~LockedBy(c, i)
  BY <1>1 DEF CallOK, HoldsIp, Doing, CallStates, LockedBy
<1>3. CASE c.parent
  BY <1>1, <1>2, <1>3, FailStep DEF NamexEnd
<1>4. CASE ~c.parent
  <2> DEFINE e == SetPc(c, c.then)
  <2>1. s' = [s EXCEPT ![p] = e]
    BY <1>4 DEF NamexEnd, Goto, SetPc
  <2>2. /\ e \in CallStates /\ e.call = c.call /\ e.pc = c.then /\ e.dp = c.dp /\ e.ip = c.ip /\ e.put = c.put
        /\ e.path2 = c.path2 /\ e.then = c.then /\ e.pc \in Pcs
    <3>1. c.then \in Pcs
      BY <1>2 DEF Pcs, Thens
    <3> QED BY <1>1, <3>1, EditPc
  <2> HIDE DEF e
  <2>3. CallOK(e) /\ Goes(c, e) /\ Keeps(c, e)
    BY <1>1, <1>2, <2>2 DEF CallOK, Goes, HoldsIp, HoldsDp, Doing, Thens, Keeps
  <2> QED BY <1>1, <1>2, <2>1, <2>2, <2>3, KeepStep
<1> QED BY <1>3, <1>4

LEMMA NamexStepInv ==
  ASSUME IInv, NEW p \in Procs, NamexStep(p)
  PROVE  IInv'
<1> DEFINE c == s[p]
           i == c.ip
           x == iunlock(ilock(p, i))
           n == Head(c.path)
           rest == Tail(c.path)
           next == dirlookup(disk, x, n)
<1>1. /\ c \in CallStates /\ CallOK(c) /\ c.pc = "namex" /\ c.put = <<>> /\ c.path # <<>>
      /\ disk \in Disks /\ durable \in Disks /\ ic \in [Inums -> Entries] /\ TypeOK
  BY CallFacts DEF NamexStep, At
<1>2. /\ HoldsIp(c) /\ HoldsDp(c) /\ i \in Inums /\ c.then \in Thens \cup {"link_dp"}
      /\ \A j \in Inums : ~LockedBy(c, j)
  BY <1>1 DEF CallOK, HoldsIp, HoldsDp, Doing, CallStates, LockedBy
<1>3. x \in Entries /\ x.ref = ic[i].ref /\ x.lock = NoProc
  BY <1>1, <1>2, IlockType
<1>4. n \in Names \cup Dots /\ rest \in Seq(Names \cup Dots)
  <2>1. c.path \in Seq(Names \cup Dots)
    BY <1>1 DEF CallStates
  <2> QED BY <1>1, <2>1, HeadTailProperties
<1> HIDE DEF n, x, rest
<1>5. next \in Inums \cup {0}
  BY <1>1, <1>3, <1>4, DirlookupType
<1>6. \/ \E why : Panic(why) /\ Same
      \/ ic' = [ic EXCEPT ![i] = x] /\ Fail(p, NoPath(p), <<i>>) /\ disk' = disk /\ Quiet
      \/ /\ ic' = [ic EXCEPT ![i] = x]
         /\ s' = [s EXCEPT ![p].pc = s[p].then, ![p].name = n, ![p].path = <<>>]
         /\ disk' = disk /\ Quiet
      \/ /\ next # 0 /\ ic' = iget([ic EXCEPT ![i] = x], next)
         /\ s' = [s EXCEPT ![p].ip = next, ![p].put = <<i>>, ![p].path = rest]
         /\ disk' = disk /\ Quiet
  BY DEF NamexStep, n, x, rest
<1>7. CASE \E why : Panic(why) /\ Same
  BY <1>7, SameInv DEF Panic, Same
<1>8. /\ [ic EXCEPT ![i] = x] \in [Inums -> Entries]
      /\ \A j \in Inums : /\ [ic EXCEPT ![i] = x][j].ref = ic[j].ref
                          /\ [ic EXCEPT ![i] = x][j].lock \in {NoProc, ic[j].lock}
  BY <1>1, <1>2, <1>3
<1>9. CASE ic' = [ic EXCEPT ![i] = x] /\ Fail(p, NoPath(p), <<i>>) /\ disk' = disk /\ Quiet
  BY <1>1, <1>2, <1>8, <1>9, FailStep DEF Quiet, Same
<1>10. CASE /\ ic' = [ic EXCEPT ![i] = x]
            /\ s' = [s EXCEPT ![p].pc = s[p].then, ![p].name = n, ![p].path = <<>>]
            /\ disk' = disk /\ Quiet
  <2> DEFINE e == SetPcNamePath(c, c.then, n, <<>>)
  <2>1. s' = [s EXCEPT ![p] = e]
    BY <1>10 DEF SetPcNamePath
  <2>2. /\ e \in CallStates /\ e.call = c.call /\ e.pc = c.then /\ e.dp = c.dp /\ e.ip = c.ip /\ e.put = c.put
        /\ e.path2 = c.path2 /\ e.then = c.then /\ e.pc \in Pcs
    <3> DEFINE q == <<>>
    <3>1. c.then \in Pcs /\ q \in Seq(Names \cup Dots)
      BY <1>2 DEF Pcs, Thens
    <3> HIDE DEF q
    <3>2. LET f == SetPcNamePath(c, c.then, n, q) IN
          /\ f \in CallStates /\ f.call = c.call /\ f.pc = c.then /\ f.dp = c.dp /\ f.ip = c.ip /\ f.put = c.put
          /\ f.path2 = c.path2 /\ f.then = c.then
      BY <1>1, <1>4, <3>1, EditPcNamePath
    <3> QED BY <3>1, <3>2 DEF q
  <2> HIDE DEF e
  <2>3. CallOK(e) /\ Goes(c, e) /\ Keeps(c, e)
    BY <1>1, <1>2, <2>2 DEF CallOK, Goes, HoldsIp, HoldsDp, Doing, Thens, Keeps
  <2> QED BY <1>1, <1>2, <1>8, <1>10, <2>1, <2>2, <2>3, KeepStep DEF Quiet, Same
<1>11. CASE /\ next # 0 /\ ic' = iget([ic EXCEPT ![i] = x], next)
            /\ s' = [s EXCEPT ![p].ip = next, ![p].put = <<i>>, ![p].path = rest]
            /\ disk' = disk /\ Quiet
  <2> DEFINE w == <<i>>
             e == SetIpPutPath(c, next, w, rest)
             y == [ic EXCEPT ![i] = x]
  <2>1. s' = [s EXCEPT ![p] = e]
    BY <1>11 DEF SetIpPutPath
  <2>2. w \in Seq(Inums) /\ next \in Inums
    BY <1>2, <1>5, <1>11, SeqsOfInums
  <2>11. Len(w) = 1 /\ w[1] = i
    BY <1>2, SeqsOfInums
  <2> HIDE DEF next, w
  <2>3. /\ e \in CallStates /\ e.call = c.call /\ e.pc = c.pc /\ e.dp = c.dp /\ e.ip = next /\ e.put = w
        /\ e.path2 = c.path2 /\ e.then = c.then
    BY <1>1, <1>4, <2>2, EditIpPutPath
  <2> HIDE DEF e, y
  <2>4. Len(e.put) = 1 /\ e.put[1] = i /\ Len(e.put) <= 2
    BY <2>3, <2>11
  <2>5. CallOK(e) /\ Goes(c, e)
    BY <1>1, <2>2, <2>3, InumFacts DEF CallOK, Goes, HoldsIp, HoldsDp, Doing
  <2>6. \A j \in Inums : Owns(e, cwd[p], file[p], j) = Owns(c, cwd[p], file[p], j) + One(next = j)
    BY <1>1, <1>2, <2>3, <2>4 DEF Owns, One, HoldsIp, HoldsDp, Doing
  <2>7. /\ ic' \in [Inums -> Entries]
        /\ \A j \in Inums : ic'[j].lock = y[j].lock /\ ic'[j].ref = y[j].ref + One(next = j)
    BY <1>8, <1>11, <2>2, IgetType DEF y
  <2>8. \A j \in Inums : ic'[j].ref = ic[j].ref + One(next = j)
                         /\ ic'[j].lock \in {NoProc, ic[j].lock}
    BY <1>8, <2>7 DEF y
  <2>9. disk' \in Disks /\ durable' \in Disks /\ cwd' = cwd /\ file' = file
    BY <1>1, <1>11 DEF Quiet, Same
  <2>10. \A j \in Inums :
           /\ ic'[j].ref = ic[j].ref + Owns(e, cwd[p], file[p], j)
                                     - Owns(s[p], cwd[p], file[p], j)
           /\ \/ ic'[j].lock = NoProc
              \/ ic'[j].lock = p /\ LockedBy(e, j)
              \/ ic'[j].lock = ic[j].lock /\ (LockedBy(s[p], j) => LockedBy(e, j))
    <3>1. \A j \in Inums : ic[j].ref \in Int /\ One(next = j) \in Int
                           /\ Owns(c, cwd[p], file[p], j) \in Int
      BY CallFacts, OwnsType DEF One
    <3>2. \A j \in Inums : ic'[j].ref = ic[j].ref + Owns(e, cwd[p], file[p], j)
                                                 - Owns(c, cwd[p], file[p], j)
      BY <2>6, <2>8, <3>1
    <3> QED BY <1>2, <2>8, <3>2
  <2> QED BY <2>1, <2>3, <2>4, <2>5, <2>7, <2>9, <2>10, MoveStep
<1> QED BY <1>6, <1>7, <1>9, <1>10, <1>11

-----------------------------------------------------------------------------
(* iput().                                                                   *)

\* The head of the list is put: the call points to it once less.
LEMMA PopOwns ==
  ASSUME NEW c \in CallStates, NEW e \in CallStates, c.put # <<>>, Len(c.put) <= 2,
         e.put = Tail(c.put), e.ip = c.ip, e.dp = c.dp, Doing(e) = Doing(c), NEW w, NEW f
  PROVE  /\ Len(e.put) <= 2
         /\ \A j \in Inums : Owns(e, w, f, j) = Owns(c, w, f, j) - One(Head(c.put) = j)
<1>1. c.put \in Seq(Inums)
  BY DEF CallStates
<1>2. /\ Head(c.put) = c.put[1] /\ Len(c.put) \in 1..2 /\ Len(e.put) = Len(c.put) - 1
      /\ Len(c.put) = 2 => e.put[1] = c.put[2]
  BY <1>1, PutFacts
<1>3. (HoldsIp(e) <=> HoldsIp(c)) /\ (HoldsDp(e) <=> HoldsDp(c))
  BY DEF HoldsIp, HoldsDp
<1>4. Len(e.put) <= 2
  BY <1>2
<1> SUFFICES ASSUME NEW j \in Inums
             PROVE  Owns(e, w, f, j) = Owns(c, w, f, j) - One(Head(c.put) = j)
  BY <1>4
<1> DEFINE k == One(w = j) + One(f = j) + One(HoldsIp(c) /\ c.ip = j) + One(HoldsDp(c) /\ c.dp = j)
           c2 == One(2 <= Len(c.put) /\ c.put[2] = j)
<1>5. k \in Int /\ c2 \in Int /\ One(Head(c.put) = j) \in Int
  BY DEF One
<1>6. Owns(c, w, f, j) = k + One(Head(c.put) = j) + c2
  <2>1. One(1 <= Len(c.put) /\ c.put[1] = j) = One(Head(c.put) = j)
    BY <1>2 DEF One
  <2> QED BY <2>1 DEF Owns
<1>7. Owns(e, w, f, j) = k + c2
  <2>1. /\ One(HoldsIp(e) /\ e.ip = j) = One(HoldsIp(c) /\ c.ip = j)
        /\ One(HoldsDp(e) /\ e.dp = j) = One(HoldsDp(c) /\ c.dp = j)
    BY <1>3 DEF One
  <2>2. One(1 <= Len(e.put) /\ e.put[1] = j) = c2
    BY <1>2 DEF One
  <2>3. One(2 <= Len(e.put) /\ e.put[2] = j) = 0
    BY <1>2 DEF One
  <2>4. Owns(e, w, f, j) = k + c2 + 0
    BY <2>1, <2>2, <2>3 DEF Owns
  <2> HIDE DEF k, c2
  <2> QED BY <1>5, <2>4
<1> HIDE DEF k, c2
<1> QED BY <1>5, <1>6, <1>7

LEMMA TruncEntry ==
  ASSUME NEW x \in Entries
  PROVE  LET y == [x EXCEPT !.blk = 0, !.type = "free"] IN
         y \in Entries /\ y.ref = x.ref /\ y.lock = x.lock
<1>1. 0 \in 0..NBLOCKS
  BY FsAssumption
<1> QED BY <1>1 DEF Entries, Types

LEMMA DropEntry ==
  ASSUME NEW x \in Entries, x.ref - 1 \in Nat
  PROVE  LET y == [x EXCEPT !.ref = @ - 1]
         IN  y \in Entries /\ y.ref = x.ref - 1 /\ y.lock = x.lock
BY DEF Entries

LEMMA ReleaseEntry ==
  ASSUME NEW x \in Entries
  PROVE  LET y == [x EXCEPT !.valid = FALSE, !.lock = NoProc]
         IN  y \in Entries /\ y.ref = x.ref /\ y.lock = NoProc
BY DEF Entries

LEMMA IputInv ==
  ASSUME IInv, NEW p \in Procs, Iput(p)
  PROVE  IInv'
<1> DEFINE c == s[p]
           i == Head(c.put)
           q == Tail(c.put)
           e == SetPut(c, q)
           y == [ic[i] EXCEPT !.ref = @ - 1]
<1>1. /\ c \in CallStates /\ CallOK(c) /\ c.put # <<>> /\ c.pc \notin Freeing
      /\ Len(c.put) <= 2
      /\ disk' \in Disks /\ durable' \in Disks /\ ic \in [Inums -> Entries]
      /\ cwd' = cwd /\ file' = file
  BY CallFacts DEF Iput, Quiet, Same
<1>2. i \in Inums /\ ic[i].ref - 1 \in Nat /\ q \in Seq(Inums)
  BY <1>1, PutCounted, PutFacts, CallFacts
<1>3. s' = [s EXCEPT ![p] = e] /\ ic' = [ic EXCEPT ![i] = y]
  BY DEF Iput, SetPut
<1> HIDE DEF q
<1>4. /\ e \in CallStates /\ e.call = c.call /\ e.pc = c.pc /\ e.put = q /\ e.ip = c.ip /\ e.dp = c.dp
      /\ e.path2 = c.path2 /\ e.then = c.then
  BY <1>1, <1>2, EditPut
<1>5. y \in Entries /\ y.ref = ic[i].ref - 1 /\ y.lock = ic[i].lock
  BY <1>1, <1>2, DropEntry
<1> HIDE DEF e, y
<1>6. Doing(e) = Doing(c) /\ CallOK(e) /\ Goes(c, e)
  BY <1>1, <1>4 DEF CallOK, Goes, HoldsIp, HoldsDp, Doing, Idle
<1>7. /\ Len(e.put) <= 2
      /\ \A j \in Inums : Owns(e, cwd[p], file[p], j) = Owns(c, cwd[p], file[p], j) - One(i = j)
  BY <1>1, <1>4, <1>6, PopOwns DEF q
<1>8. /\ ic' \in [Inums -> Entries]
      /\ \A j \in Inums : ic'[j].ref = ic[j].ref - One(i = j) /\ ic'[j].lock = ic[j].lock
  BY <1>1, <1>2, <1>3, <1>5, CallFacts DEF One
<1>9. \A j \in Inums : LockedBy(c, j) => LockedBy(e, j)
  BY <1>1, <1>4, <1>6 DEF LockedBy
<1>10. \A j \in Inums : ic'[j].ref = ic[j].ref + Owns(e, cwd[p], file[p], j)
                                              - Owns(c, cwd[p], file[p], j)
  <2>1. \A j \in Inums : ic[j].ref \in Int /\ One(i = j) \in Int
                         /\ Owns(c, cwd[p], file[p], j) \in Int
    BY CallFacts, OwnsType DEF One
  <2> QED BY <1>7, <1>8, <2>1
<1> QED BY <1>1, <1>3, <1>4, <1>6, <1>7, <1>8, <1>9, <1>10, MoveStep

LEMMA IputLastInv ==
  ASSUME IInv, NEW p \in Procs, IputLast(p)
  PROVE  IInv'
<1> DEFINE c == s[p]
           i == Head(c.put)
           e == SetPcBack(c, "itrunc", c.pc)
           y == [ic[i] EXCEPT !.lock = p]
<1>1. /\ c \in CallStates /\ CallOK(c) /\ c.put # <<>> /\ c.pc \notin Freeing
      /\ Len(c.put) <= 2
      /\ disk' \in Disks /\ durable' \in Disks /\ ic \in [Inums -> Entries]
      /\ cwd' = cwd /\ file' = file
  BY CallFacts DEF IputLast, Quiet, Same
<1>2. i \in Inums
  BY <1>1, PutCounted
<1>3. s' = [s EXCEPT ![p] = e] /\ ic' = [ic EXCEPT ![i] = y]
  BY DEF IputLast, SetPcBack
<1>4. /\ e \in CallStates /\ e.call = c.call /\ e.pc = "itrunc" /\ e.put = c.put /\ e.ip = c.ip /\ e.dp = c.dp
      /\ e.path2 = c.path2 /\ e.then = c.then /\ e.back = c.pc
  <2>1. c.pc \in Pcs /\ "itrunc" \in Pcs \cup Freeing
    BY <1>1 DEF CallStates
  <2> QED BY <1>1, <2>1, EditPcBack
<1>5. y \in Entries /\ y.ref = ic[i].ref /\ y.lock = p
  BY <1>1, <1>2 DEF Entries
<1> HIDE DEF e, y
<1>6. Doing(e) = Doing(c) /\ CallOK(e) /\ Goes(c, e)
  BY <1>1, <1>4 DEF CallOK, Goes, HoldsIp, HoldsDp, Doing, Idle
<1>7. \A j \in Inums : Owns(e, cwd[p], file[p], j) = Owns(c, cwd[p], file[p], j)
  BY <1>4, <1>6 DEF Owns, HoldsIp, HoldsDp
<1>8. /\ ic' \in [Inums -> Entries] /\ ic'[i].lock = p
      /\ \A j \in Inums : ic'[j].ref = ic[j].ref /\ (j # i => ic'[j].lock = ic[j].lock)
  BY <1>1, <1>2, <1>3, <1>5
<1>9. LockedBy(e, i) /\ \A j \in Inums : LockedBy(c, j) => LockedBy(e, j)
  BY <1>1, <1>4, <1>6 DEF LockedBy
<1>10. s'[p] = e /\ s' = [s EXCEPT ![p] = s'[p]]
  BY <1>3, NewLocals
<1> QED BY <1>1, <1>4, <1>6, <1>7, <1>8, <1>9, <1>10, SameRefs

LEMMA ItruncInv ==
  ASSUME IInv, NEW p \in Procs, Itrunc(p)
  PROVE  IInv'
<1> DEFINE c == s[p]
           i == Head(c.put)
           e == SetPc(c, "ifree")
           y == [ic[i] EXCEPT !.blk = 0, !.type = "free"]
<1>1. /\ c \in CallStates /\ CallOK(c) /\ c.put # <<>> /\ c.pc = "itrunc" /\ Len(c.put) <= 2
      /\ disk \in Disks /\ durable' \in Disks /\ ic \in [Inums -> Entries]
      /\ cwd' = cwd /\ file' = file
  BY CallFacts DEF Itrunc, Quiet, Same, CallOK
<1>2. i \in Inums
  BY <1>1, PutCounted
<1>3. s' = [s EXCEPT ![p] = e] /\ ic' = [ic EXCEPT ![i] = y]
  BY DEF Itrunc, SetPc, Goto
<1>4. /\ e \in CallStates /\ e.call = c.call /\ e.pc = "ifree" /\ e.put = c.put /\ e.ip = c.ip /\ e.dp = c.dp
      /\ e.path2 = c.path2 /\ e.then = c.then /\ e.back = c.back
  <2>1. "ifree" \in Pcs \cup Freeing
    OBVIOUS
  <2> QED BY <1>1, <2>1, EditPc
<1>5. y \in Entries /\ y.ref = ic[i].ref /\ y.lock = ic[i].lock
  <2>1. ic[i] \in Entries
    BY <1>1, <1>2
  <2> QED BY <2>1, TruncEntry
<1> HIDE DEF e, y
<1>6. Doing(e) = Doing(c) /\ CallOK(e) /\ Goes(c, e)
  BY <1>1, <1>4 DEF CallOK, Goes, HoldsIp, HoldsDp, Doing, Idle
<1>7. \A j \in Inums : Owns(e, cwd[p], file[p], j) = Owns(c, cwd[p], file[p], j)
  BY <1>4, <1>6 DEF Owns, HoldsIp, HoldsDp
<1>8. /\ ic' \in [Inums -> Entries]
      /\ \A j \in Inums : ic'[j].ref = ic[j].ref /\ ic'[j].lock = ic[j].lock
  BY <1>1, <1>2, <1>3, <1>5
<1>9. \A j \in Inums : LockedBy(c, j) => LockedBy(e, j)
  BY <1>1, <1>4, <1>6 DEF LockedBy
<1>10. s'[p] = e /\ s' = [s EXCEPT ![p] = s'[p]]
  BY <1>3, NewLocals
<1>11. disk' \in Disks
  <2> DEFINE Below(j) == Cardinality({n \in Names : disk.data[ic[i].blk][n] = j})
             l == [j \in Inums |-> IF ic[i].type # "dir" THEN disk.lost[j]
                                   ELSE disk.lost[j] + Below(j)]
             u == disk.used \ {ic[i].blk}
  <2>1. disk' = [disk EXCEPT !.used = u, !.ino[i] = FreeInode, !.lost = l]
    BY <1>1 DEF Itrunc, Disks
  <2>2. \A j \in Inums : disk.lost[j] \in Nat
    BY <1>1 DEF Disks
  <2>3. \A j \in Inums : Below(j) \in Nat
    <3> TAKE j \in Inums
    <3> DEFINE A == {n \in Names : disk.data[ic[i].blk][n] = j}
    <3>1. A \subseteq Names
      OBVIOUS
    <3> HIDE DEF A
    <3>2. Cardinality(A) \in Nat
      BY <3>1, FsAssumption, CountType
    <3> QED BY <3>2 DEF A
  <2> HIDE DEF Below
  <2>4. l \in [Inums -> Nat]
    BY <2>2, <2>3
  <2>5. u \in SUBSET Blocks
    BY <1>1 DEF Disks
  <2>6. FreeInode \in [type : Types, nlink : Int, blk : 0..NBLOCKS]
    BY FsAssumption DEF FreeInode, Types
  <2> HIDE DEF l, u
  <2> QED BY <1>1, <1>2, <2>1, <2>4, <2>5, <2>6 DEF Disks
<1> QED BY <1>1, <1>4, <1>6, <1>7, <1>8, <1>9, <1>10, <1>11, SameRefs

LEMMA IfreeInv ==
  ASSUME IInv, NEW p \in Procs, Ifree(p)
  PROVE  IInv'
<1> DEFINE c == s[p]
           i == Head(c.put)
           e == SetPc(c, "iput")
           y == [ic[i] EXCEPT !.valid = FALSE, !.lock = NoProc]
<1>1. /\ c \in CallStates /\ CallOK(c) /\ c.put # <<>> /\ c.pc = "ifree" /\ Len(c.put) <= 2
      /\ disk' \in Disks /\ durable' \in Disks /\ ic \in [Inums -> Entries]
      /\ cwd' = cwd /\ file' = file
  BY CallFacts DEF Ifree, IfreeUnlock, Quiet, Same, CallOK
<1>2. i \in Inums
  BY <1>1, PutCounted
<1>3. s' = [s EXCEPT ![p] = e] /\ ic' = [ic EXCEPT ![i] = y]
  BY DEF Ifree, IfreeUnlock, SetPc, Goto
<1>4. /\ e \in CallStates /\ e.call = c.call /\ e.pc = "iput" /\ e.put = c.put /\ e.ip = c.ip /\ e.dp = c.dp
      /\ e.path2 = c.path2 /\ e.then = c.then /\ e.back = c.back
  <2>1. "iput" \in Pcs \cup Freeing
    OBVIOUS
  <2> QED BY <1>1, <2>1, EditPc
<1>5. y \in Entries /\ y.ref = ic[i].ref /\ y.lock = NoProc
  <2>1. ic[i] \in Entries
    BY <1>1, <1>2
  <2> QED BY <2>1, ReleaseEntry
<1> HIDE DEF e, y
<1>6. Doing(e) = Doing(c) /\ CallOK(e) /\ Goes(c, e)
  BY <1>1, <1>4 DEF CallOK, Goes, HoldsIp, HoldsDp, Doing, Idle
<1>7. \A j \in Inums : Owns(e, cwd[p], file[p], j) = Owns(c, cwd[p], file[p], j)
  BY <1>4, <1>6 DEF Owns, HoldsIp, HoldsDp
<1>8. /\ ic' \in [Inums -> Entries] /\ ic'[i].lock = NoProc
      /\ \A j \in Inums : ic'[j].ref = ic[j].ref /\ (j # i => ic'[j].lock = ic[j].lock)
  BY <1>1, <1>2, <1>3, <1>5
<1>9. \A j \in Inums : j # i => (LockedBy(c, j) => LockedBy(e, j))
  BY <1>1, <1>4, <1>6 DEF LockedBy
<1>10. s'[p] = e /\ s' = [s EXCEPT ![p] = s'[p]]
  BY <1>3, NewLocals
<1> QED BY <1>1, <1>4, <1>6, <1>7, <1>8, <1>9, <1>10, SameRefs

LEMMA IputRefInv ==
  ASSUME IInv, NEW p \in Procs, IputRef(p)
  PROVE  IInv'
<1> DEFINE c == s[p]
           i == Head(c.put)
           q == Tail(c.put)
           e == SetPcPut(c, c.back, q)
           y == [ic[i] EXCEPT !.ref = @ - 1]
<1>1. /\ c \in CallStates /\ CallOK(c) /\ c.put # <<>> /\ c.pc = "iput" /\ Len(c.put) <= 2
      /\ disk' \in Disks /\ durable' \in Disks /\ ic \in [Inums -> Entries]
      /\ cwd' = cwd /\ file' = file
  BY CallFacts DEF IputRef, Quiet, Same, CallOK
<1>2. i \in Inums /\ ic[i].ref - 1 \in Nat /\ q \in Seq(Inums) /\ c.back \in Pcs
  BY <1>1, PutCounted, PutFacts, CallFacts DEF CallStates
<1>3. s' = [s EXCEPT ![p] = e] /\ ic' = [ic EXCEPT ![i] = y]
  BY DEF IputRef, SetPcPut
<1> HIDE DEF q
<1>4. /\ e \in CallStates /\ e.call = c.call /\ e.pc = c.back /\ e.put = q /\ e.ip = c.ip /\ e.dp = c.dp
      /\ e.path2 = c.path2 /\ e.then = c.then
  BY <1>1, <1>2, EditPcPut
<1>5. y \in Entries /\ y.ref = ic[i].ref - 1 /\ y.lock = ic[i].lock
  BY <1>1, <1>2, DropEntry
<1> HIDE DEF e, y
<1>6. Doing(e) = Doing(c) /\ CallOK(e) /\ Goes(c, e)
  BY <1>1, <1>2, <1>4 DEF CallOK, Goes, HoldsIp, HoldsDp, Doing, Idle, Pcs
<1>7. /\ Len(e.put) <= 2
      /\ \A j \in Inums : Owns(e, cwd[p], file[p], j) = Owns(c, cwd[p], file[p], j) - One(i = j)
  BY <1>1, <1>4, <1>6, PopOwns DEF q
<1>8. /\ ic' \in [Inums -> Entries]
      /\ \A j \in Inums : ic'[j].ref = ic[j].ref - One(i = j) /\ ic'[j].lock = ic[j].lock
  BY <1>1, <1>2, <1>3, <1>5, CallFacts DEF One
<1>9. \A j \in Inums : LockedBy(c, j) => LockedBy(e, j)
  BY <1>1, <1>4, <1>6 DEF LockedBy
<1>10. \A j \in Inums : ic'[j].ref = ic[j].ref + Owns(e, cwd[p], file[p], j)
                                              - Owns(c, cwd[p], file[p], j)
  <2>1. \A j \in Inums : ic[j].ref \in Int /\ One(i = j) \in Int
                         /\ Owns(c, cwd[p], file[p], j) \in Int
    BY CallFacts, OwnsType DEF One
  <2> QED BY <1>7, <1>8, <2>1
<1> QED BY <1>1, <1>3, <1>4, <1>6, <1>7, <1>8, <1>9, <1>10, MoveStep

LEMMA EndOpInv ==
  ASSUME IInv, NEW p \in Procs, EndOp(p)
  PROVE  IInv'
<1> DEFINE c == s[p]
<1>1. /\ c \in CallStates /\ c.pc = "end" /\ c.put = <<>>
      /\ disk' \in Disks /\ durable' \in Disks /\ ic' \in [Inums -> Entries]
      /\ ic' = ic /\ cwd' = cwd /\ file' = file
  BY CallFacts DEF EndOp, EndOpWith, At
<1>2. s' = [s EXCEPT ![p] = Idle]
  BY DEF EndOp, EndOpWith
<1>3. s'[p] = Idle /\ s' = [s EXCEPT ![p] = s'[p]]
  BY <1>2, NewLocals
<1>4. Idle \in CallStates /\ Idle.put = <<>> /\ Idle.pc = "user"
  BY DEF Idle, CallStates, Pcs, Dots
<1>5. CallOK(Idle) /\ Goes(c, Idle)
  BY DEF CallOK, Goes, Idle, HoldsIp, HoldsDp, Doing
<1>6. \A i \in Inums : Owns(Idle, cwd[p], file[p], i) = Owns(c, cwd[p], file[p], i)
  BY <1>1, <1>4 DEF Owns, One, HoldsIp, HoldsDp, Doing
<1>7. \A i \in Inums : ~LockedBy(c, i)
  BY <1>1 DEF LockedBy, Doing
<1>8. Len(Idle.put) <= 2
  BY <1>4
<1> QED BY <1>1, <1>3, <1>4, <1>5, <1>6, <1>7, <1>8, SameRefs

-----------------------------------------------------------------------------
(* link().                                                                   *)

LEMMA LinkOldInv ==
  ASSUME IInv, NEW p \in Procs, LinkOld(p)
  PROVE  IInv'
<1> DEFINE c == s[p]
           i == c.ip
           x == iunlock(ilock(p, i))
           up == [x EXCEPT !.nlink = @ + 1]
           r == IF c.path2.abs THEN ROOTINO ELSE cwd[p]
           q == c.path2.path
<1>1. /\ c \in CallStates /\ CallOK(c) /\ c.pc = "link_ip" /\ c.put = <<>>
      /\ disk \in Disks /\ durable \in Disks /\ ic \in [Inums -> Entries] /\ TypeOK
      /\ cwd[p] \in Inums
  BY CallFacts DEF LinkOld, At
<1>2. /\ HoldsIp(c) /\ HoldsDp(c) /\ i \in Inums /\ c.dp = 0
      /\ \A j \in Inums : ~LockedBy(c, j)
  BY <1>1 DEF CallOK, HoldsIp, HoldsDp, Doing, CallStates, LockedBy
<1>3. r \in Inums /\ q \in Seq(Names \cup Dots) /\ c.path2 \in Targets
  BY <1>1, InumFacts DEF CallOK, Doing, Targets, Dots
<1>4. x \in Entries /\ x.ref = ic[i].ref /\ x.lock = NoProc
  BY <1>1, <1>2, IlockType
<1> HIDE DEF x
<1>5. up \in Entries /\ up.ref = ic[i].ref /\ up.lock = NoProc
  BY <1>4, EntryFields
<1> HIDE DEF r, q, up
<1>6. \/ \E why : Panic(why) /\ Same
      \/ ic' = [ic EXCEPT ![i] = x] /\ Fail(p, "end", <<i>>) /\ disk' = disk /\ Quiet
      \/ /\ ic' = Recached(i, up, r) /\ disk' = iupdate(disk, i, up)
         /\ s' = [s EXCEPT ![p] = LinkPath(c, q, r, i)]
         /\ Quiet
  BY DEF LinkOld, x, up, r, q, LinkPath, Recached
<1>7. CASE \E why : Panic(why) /\ Same
  BY <1>7, SameInv DEF Panic, Same
<1>8. CASE ic' = [ic EXCEPT ![i] = x] /\ Fail(p, "end", <<i>>) /\ disk' = disk /\ Quiet
  <2>1. /\ ic' \in [Inums -> Entries]
        /\ \A j \in Inums : ic'[j].ref = ic[j].ref /\ ic'[j].lock \in {NoProc, ic[j].lock}
    BY <1>1, <1>2, <1>4, <1>8
  <2>2. NoPath(p) = "end"
    BY <1>2 DEF NoPath
  <2> QED BY <1>1, <1>2, <1>8, <2>1, <2>2, FailStep DEF Quiet, Same
<1>9. CASE /\ ic' = Recached(i, up, r) /\ disk' = iupdate(disk, i, up)
           /\ s' = [s EXCEPT ![p] = LinkPath(c, q, r, i)]
           /\ Quiet
  <2> DEFINE e == LinkPath(c, q, r, i)
  <2>1. /\ e \in CallStates /\ e.call = c.call /\ e.pc = "namex" /\ e.put = c.put /\ e.ip = r /\ e.dp = i
        /\ e.then = "link_dp" /\ e.path2 = c.path2
    <3>1. c \in CallStates /\ q \in Seq(Names \cup Dots) /\ r \in Inums /\ i \in Inums
      BY <1>1, <1>2, <1>3
    <3> HIDE DEF c, i
    <3>2. e \in CallStates /\ e.call = c.call
      BY <3>1, EditPath
    <3>3. /\ e.pc = "namex" /\ e.put = c.put /\ e.ip = r /\ e.dp = i
          /\ e.then = "link_dp" /\ e.path2 = c.path2
      BY <3>1, EditPath
    <3> QED BY <3>2, <3>3
  <2> HIDE DEF e
  <2>2. CallOK(e) /\ Goes(c, e) /\ Len(e.put) <= 2
    BY <1>1, <1>2, <1>3, <2>1, InumFacts DEF CallOK, Goes, HoldsIp, HoldsDp, Doing
  <2>3. \A j \in Inums : Owns(e, cwd[p], file[p], j) = Owns(c, cwd[p], file[p], j) + One(r = j)
    BY <1>1, <1>2, <2>1, InumFacts DEF Owns, One, HoldsIp, HoldsDp, Doing
  <2>4. /\ ic' \in [Inums -> Entries]
        /\ \A j \in Inums : /\ ic'[j].ref = ic[j].ref + One(r = j)
                            /\ ic'[j].lock = IF j = i THEN up.lock ELSE ic[j].lock
    BY <1>1, <1>2, <1>3, <1>5, <1>9, CacheGet
  <2>5. disk' \in Disks /\ durable' \in Disks /\ cwd' = cwd /\ file' = file
    BY <1>1, <1>2, <1>5, <1>9, EntryFields, IupdateType DEF Quiet, Same
  <2>6. \A j \in Inums : ic'[j].ref = ic[j].ref + Owns(e, cwd[p], file[p], j)
                                               - Owns(c, cwd[p], file[p], j)
    <3>1. \A j \in Inums : ic[j].ref \in Int /\ One(r = j) \in Int
                           /\ Owns(c, cwd[p], file[p], j) \in Int
      BY CallFacts, OwnsType DEF One
    <3> QED BY <2>3, <2>4, <3>1
  <2>7. \A j \in Inums : \/ ic'[j].lock = NoProc
                         \/ ic'[j].lock = ic[j].lock /\ ~LockedBy(c, j)
    BY <1>2, <1>5, <2>4
  <2>8. s' = [s EXCEPT ![p] = e]
    BY <1>9 DEF e
  <2> QED BY <2>1, <2>2, <2>4, <2>5, <2>6, <2>7, <2>8, MoveStep
<1> QED BY <1>6, <1>7, <1>8, <1>9

LEMMA LinkNewInv ==
  ASSUME IInv, NEW p \in Procs, LinkNew(p)
  PROVE  IInv'
<1> DEFINE c == s[p]
           d == c.ip
           x == iunlock(ilock(p, d))
<1>1. /\ c \in CallStates /\ CallOK(c) /\ c.pc = "link_dp" /\ c.put = <<>>
      /\ disk \in Disks /\ durable \in Disks /\ ic \in [Inums -> Entries] /\ TypeOK
  BY CallFacts DEF LinkNew, At
<1>2. /\ HoldsIp(c) /\ HoldsDp(c) /\ d \in Inums /\ c.dp \in Inums /\ c.name \in Names \cup Dots
      /\ \A j \in Inums : ~LockedBy(c, j)
  BY <1>1 DEF CallOK, HoldsIp, HoldsDp, Doing, CallStates, LockedBy
<1>3. x \in Entries /\ x.ref = ic[d].ref /\ x.lock = NoProc
  BY <1>1, <1>2, IlockType
<1> HIDE DEF x
<1>4. /\ ic' = [ic EXCEPT ![d] = x] /\ durable' = durable /\ cwd' = cwd /\ file' = file
      /\ \/ Fail(p, "link_bad", <<d>>) /\ disk' = disk
         \/ disk' = dirlink(disk, x, c.name, c.dp) /\ s' = [s EXCEPT ![p] = Put2(c, "end", d, c.dp)]
  BY DEF LinkNew, x, Fail, Put2, Quiet, Same
<1>5. /\ ic' \in [Inums -> Entries]
      /\ \A j \in Inums : ic'[j].ref = ic[j].ref /\ ic'[j].lock \in {NoProc, ic[j].lock}
  BY <1>1, <1>2, <1>3, <1>4
<1>6. CASE Fail(p, "link_bad", <<d>>) /\ disk' = disk
  <2>1. NoPath(p) = "link_bad"
    BY <1>2, InumFacts DEF NoPath
  <2> QED BY <1>1, <1>2, <1>4, <1>5, <1>6, <2>1, FailStep
<1>7. CASE disk' = dirlink(disk, x, c.name, c.dp) /\ s' = [s EXCEPT ![p] = Put2(c, "end", d, c.dp)]
  <2> DEFINE e == Put2(c, "end", d, c.dp)
  <2>1. e \in CallStates /\ e.pc = "end" /\ Len(e.put) = 2 /\ e.put[1] = d /\ e.put[2] = c.dp
    <3>1. "end" \in Pcs
      BY DEF Pcs
    <3> QED BY <1>1, <1>2, <3>1, EditPut2
  <2>2. s'[p] = e /\ s' = [s EXCEPT ![p] = s'[p]]
    BY <1>7, NewLocals
  <2> HIDE DEF e
  <2>3. CallOK(e) /\ Goes(c, e) /\ Len(e.put) <= 2
    BY <2>1 DEF CallOK, Goes, HoldsIp, HoldsDp, Doing
  <2>4. \A j \in Inums : Owns(e, cwd[p], file[p], j) = Owns(c, cwd[p], file[p], j)
    BY <1>1, <1>2, <2>1 DEF Owns, One, HoldsIp, HoldsDp, Doing
  <2>5. disk' \in Disks
    <3>1. x.blk \in 0..NBLOCKS /\ c.dp \in 0..NINODES - 1
      BY <1>2, <1>3, EntryFields, InumFacts
    <3> QED BY <1>1, <1>2, <1>7, <3>1, EntryType DEF dirlink
  <2> QED BY <1>1, <1>2, <1>4, <1>5, <2>1, <2>2, <2>3, <2>4, <2>5, SameRefs
<1> QED BY <1>4, <1>6, <1>7

LEMMA LinkBadInv ==
  ASSUME IInv, NEW p \in Procs, LinkBad(p)
  PROVE  IInv'
<1> DEFINE c == s[p]
           i == c.dp
           x == iunlock(ilock(p, i))
           down == [x EXCEPT !.nlink = @ - 1]
           e == Put1(c, "end", i)
<1>1. /\ c \in CallStates /\ CallOK(c) /\ c.pc = "link_bad" /\ c.put = <<>>
      /\ disk \in Disks /\ durable \in Disks /\ ic \in [Inums -> Entries] /\ TypeOK
  BY CallFacts DEF LinkBad, At
<1>2. i \in Inums /\ \A j \in Inums : ~LockedBy(c, j)
  BY <1>1 DEF CallOK, HoldsIp, HoldsDp, Doing, CallStates, LockedBy
<1>3. x \in Entries /\ x.ref = ic[i].ref /\ x.lock = NoProc
  BY <1>1, <1>2, IlockType
<1> HIDE DEF x
<1>4. down \in Entries /\ down.ref = ic[i].ref /\ down.lock = NoProc
  BY <1>3, EntryFields
<1> HIDE DEF down
<1>5. /\ ic' = [ic EXCEPT ![i] = down] /\ durable' = durable /\ cwd' = cwd /\ file' = file
      /\ disk' = iupdate(disk, i, down) /\ s' = [s EXCEPT ![p] = e]
  BY DEF LinkBad, x, down, Fail, Put1, Quiet, Same
<1>6. e \in CallStates /\ e.pc = "end" /\ Len(e.put) = 1 /\ e.put[1] = i
  <2>1. "end" \in Pcs
    BY DEF Pcs
  <2> QED BY <1>1, <1>2, <2>1, EditPut1
<1> HIDE DEF e
<1>7. s'[p] = e /\ s' = [s EXCEPT ![p] = s'[p]]
  BY <1>5, NewLocals
<1>8. CallOK(e) /\ Goes(c, e) /\ Len(e.put) <= 2
  BY <1>6 DEF CallOK, Goes, HoldsIp, HoldsDp, Doing
<1>9. \A j \in Inums : Owns(e, cwd[p], file[p], j) = Owns(c, cwd[p], file[p], j)
  BY <1>1, <1>2, <1>6 DEF Owns, One, HoldsIp, HoldsDp, Doing
<1>10. /\ ic' \in [Inums -> Entries]
       /\ \A j \in Inums : ic'[j].ref = ic[j].ref /\ ic'[j].lock \in {NoProc, ic[j].lock}
  BY <1>1, <1>2, <1>4, <1>5
<1>11. disk' \in Disks
  BY <1>1, <1>2, <1>4, <1>5, EntryFields, IupdateType
<1>12. \A j \in Inums : \/ ic'[j].lock = NoProc
                        \/ ic'[j].lock = ic[j].lock /\ ~LockedBy(c, j)
  BY <1>2, <1>10
<1>13. durable' \in Disks /\ cwd' = cwd /\ file' = file
  BY <1>1, <1>5
<1> QED BY <1>6, <1>7, <1>8, <1>9, <1>10, <1>11, <1>12, <1>13, SameRefs

-----------------------------------------------------------------------------
(* unlink().                                                                 *)

LEMMA UnlinkDirInv ==
  ASSUME IInv, NEW p \in Procs, UnlinkDir(p)
  PROVE  IInv'
<1> DEFINE c == s[p]
           d == c.ip
           x == ilock(p, d)
           u == iunlock(x)
           i == dirlookup(disk, x, c.name)
<1>1. /\ c \in CallStates /\ CallOK(c) /\ c.pc = "unlink_dp" /\ c.put = <<>>
      /\ disk \in Disks /\ durable \in Disks /\ ic \in [Inums -> Entries] /\ TypeOK
  BY CallFacts DEF UnlinkDir, At
<1>2. /\ HoldsIp(c) /\ HoldsDp(c) /\ d \in Inums /\ c.dp = 0 /\ c.name \in Names \cup Dots
      /\ \A j \in Inums : ~LockedBy(c, j)
  BY <1>1 DEF CallOK, HoldsIp, HoldsDp, Doing, CallStates, LockedBy
<1>3. /\ x \in Entries /\ x.ref = ic[d].ref /\ x.lock = p
      /\ u \in Entries /\ u.ref = ic[d].ref /\ u.lock = NoProc
  BY <1>1, <1>2, IlockType
<1> HIDE DEF x, u
<1>4. i \in Inums \cup {0}
  BY <1>1, <1>2, <1>3, DirlookupType
<1> HIDE DEF i
<1>5. \/ \E why : Panic(why) /\ Same
      \/ ic' = [ic EXCEPT ![d] = u] /\ Fail(p, "end", <<d>>) /\ disk' = disk /\ Quiet
      \/ /\ i # 0 /\ ic' = Recached(d, x, i) /\ disk' = disk
         /\ s' = [s EXCEPT ![p] = SetPcIpDp(c, "unlink_ip", i, d)] /\ Quiet
  BY DEF UnlinkDir, x, u, i, Recached, SetPcIpDp
<1>6. CASE \E why : Panic(why) /\ Same
  BY <1>6, SameInv DEF Panic, Same
<1>7. CASE ic' = [ic EXCEPT ![d] = u] /\ Fail(p, "end", <<d>>) /\ disk' = disk /\ Quiet
  <2>1. /\ ic' \in [Inums -> Entries]
        /\ \A j \in Inums : ic'[j].ref = ic[j].ref /\ ic'[j].lock \in {NoProc, ic[j].lock}
    BY <1>1, <1>2, <1>3, <1>7
  <2>2. NoPath(p) = "end"
    BY <1>2 DEF NoPath
  <2> QED BY <1>1, <1>2, <1>7, <2>1, <2>2, FailStep DEF Quiet, Same
<1>8. CASE /\ i # 0 /\ ic' = Recached(d, x, i) /\ disk' = disk
           /\ s' = [s EXCEPT ![p] = SetPcIpDp(c, "unlink_ip", i, d)] /\ Quiet
  <2> DEFINE l == "unlink_ip"
             e == SetPcIpDp(c, l, i, d)
  <2>1. s' = [s EXCEPT ![p] = e] /\ i \in Inums
    BY <1>4, <1>8
  <2>2. e \in CallStates /\ e.call = c.call /\ e.pc = "unlink_ip" /\ e.put = c.put /\ e.ip = i /\ e.dp = d
    <3>1. c \in CallStates /\ d \in Inums /\ l \in Pcs /\ l = "unlink_ip"
      BY <1>1, <1>2 DEF Pcs
    <3> HIDE DEF c, d, l
    <3> QED BY <2>1, <3>1, EditPcIpDp
  <2> HIDE DEF e
  <2>3. CallOK(e) /\ Goes(c, e) /\ Len(e.put) <= 2
    BY <1>1, <1>2, <2>1, <2>2, InumFacts DEF CallOK, Goes, HoldsIp, HoldsDp, Doing
  <2>4. \A j \in Inums : Owns(e, cwd[p], file[p], j) = Owns(c, cwd[p], file[p], j) + One(i = j)
    BY <1>1, <1>2, <2>2, InumFacts DEF Owns, One, HoldsIp, HoldsDp, Doing
  <2>5. /\ ic' \in [Inums -> Entries]
        /\ \A j \in Inums : /\ ic'[j].ref = ic[j].ref + One(i = j)
                            /\ ic'[j].lock = IF j = d THEN x.lock ELSE ic[j].lock
    BY <1>1, <1>2, <1>3, <1>8, <2>1, CacheGet
  <2>6. disk' \in Disks /\ durable' \in Disks /\ cwd' = cwd /\ file' = file
    BY <1>1, <1>8 DEF Quiet, Same
  <2>7. \A j \in Inums : ic'[j].ref = ic[j].ref + Owns(e, cwd[p], file[p], j)
                                               - Owns(c, cwd[p], file[p], j)
    <3>1. \A j \in Inums : ic[j].ref \in Int /\ One(i = j) \in Int
                           /\ Owns(c, cwd[p], file[p], j) \in Int
      BY CallFacts, OwnsType DEF One
    <3> QED BY <2>4, <2>5, <3>1
  <2>8. LockedBy(e, d)
    BY <2>2 DEF LockedBy, Doing
  <2>9. \A j \in Inums : \/ ic'[j].lock = p /\ LockedBy(e, j)
                         \/ ic'[j].lock = ic[j].lock /\ ~LockedBy(c, j)
    BY <1>2, <1>3, <2>5, <2>8
  <2>10. \A j \in Inums :
           /\ ic'[j].ref = ic[j].ref + Owns(e, cwd[p], file[p], j)
                                     - Owns(s[p], cwd[p], file[p], j)
           /\ \/ ic'[j].lock = NoProc
              \/ ic'[j].lock = p /\ LockedBy(e, j)
              \/ ic'[j].lock = ic[j].lock /\ (LockedBy(s[p], j) => LockedBy(e, j))
    BY <2>7, <2>9
  <2> QED BY <2>1, <2>2, <2>3, <2>5, <2>6, <2>10, MoveStep
<1> QED BY <1>5, <1>6, <1>7, <1>8

LEMMA UnlinkInodeInv ==
  ASSUME IInv, NEW p \in Procs, UnlinkInode(p)
  PROVE  IInv'
<1> DEFINE c == s[p]
           i == c.ip
           d == c.dp
           x == ilock(p, i)
           u == iunlock(x)
           k == IF x.type = "dir" THEN ic[d].nlink - 1 ELSE ic[d].nlink
           dc == [ic[d] EXCEPT !.lock = NoProc, !.nlink = k]
           z == [ic EXCEPT ![i] = u]
<1>1. /\ c \in CallStates /\ CallOK(c) /\ c.pc = "unlink_ip" /\ c.put = <<>>
      /\ disk \in Disks /\ durable \in Disks /\ ic \in [Inums -> Entries] /\ TypeOK
  BY CallFacts DEF UnlinkInode, At
<1>2. /\ HoldsIp(c) /\ HoldsDp(c) /\ i \in Inums /\ d \in Inums /\ c.name \in Names \cup Dots
      /\ \A j \in Inums : LockedBy(c, j) => j = d
  BY <1>1 DEF CallOK, HoldsIp, HoldsDp, Doing, CallStates, LockedBy
<1>3. /\ x \in Entries /\ x.ref = ic[i].ref /\ x.lock = p
      /\ u \in Entries /\ u.ref = ic[i].ref /\ u.lock = NoProc
  BY <1>1, <1>2, IlockType
<1>4. ic[d] \in Entries
  BY <1>1, <1>2
<1>5. k \in Int
  BY <1>4, EntryFields
<1> HIDE DEF x, u, k
<1>6. dc \in Entries /\ dc.ref = ic[d].ref /\ dc.lock = NoProc
  BY <1>4, <1>5, UnlockEntry
<1>7. \/ \E why : Panic(why) /\ Same
      \/ /\ ic' = [z EXCEPT ![d] = [z[d] EXCEPT !.lock = NoProc]]
         /\ s' = [s EXCEPT ![p] = Drop2(c, "end", i, d)] /\ disk' = disk /\ Quiet
      \/ /\ disk' = iupdate([disk EXCEPT !.data[ic[d].blk][c.name] = 0], d, dc)
         /\ ic' = TwoSet(i, x, d, dc)
         /\ s' = [s EXCEPT ![p] = Drop1(c, "unlink_fin", d)] /\ Quiet
  BY <1>1, <1>2 DEF UnlinkInode, x, u, k, Drop1, Drop2, TwoSet
<1>8. CASE \E why : Panic(why) /\ Same
  BY <1>8, SameInv DEF Panic, Same
<1>9. CASE /\ ic' = [z EXCEPT ![d] = [z[d] EXCEPT !.lock = NoProc]]
           /\ s' = [s EXCEPT ![p] = Drop2(c, "end", i, d)] /\ disk' = disk /\ Quiet
  <2> DEFINE l == "end"
             e == Drop2(c, l, i, d)
  <2>1. s' = [s EXCEPT ![p] = e]
    BY <1>9
  <2>2. e \in CallStates /\ e.pc = "end" /\ Len(e.put) = 2 /\ e.put[1] = i /\ e.put[2] = d
    <3>1. c \in CallStates /\ i \in Inums /\ d \in Inums /\ l \in Pcs /\ l = "end"
      BY <1>1, <1>2 DEF Pcs
    <3> HIDE DEF c, i, d, l
    <3> QED BY <3>1, EditDrop2
  <2> HIDE DEF e
  <2>3. CallOK(e) /\ Goes(c, e) /\ Len(e.put) <= 2
    BY <2>2 DEF CallOK, Goes, HoldsIp, HoldsDp, Doing
  <2>4. \A j \in Inums : Owns(e, cwd[p], file[p], j) = Owns(c, cwd[p], file[p], j)
    BY <1>1, <1>2, <2>2 DEF Owns, One, HoldsIp, HoldsDp, Doing
  <2>5. z \in [Inums -> Entries] /\ \A j \in Inums : z[j].ref = ic[j].ref
        /\ z[j].lock = IF j = i THEN NoProc ELSE ic[j].lock
    BY <1>1, <1>2, <1>3
  <2> DEFINE v == [z[d] EXCEPT !.lock = NoProc]
  <2> HIDE DEF z
  <2>6. v \in Entries /\ v.ref = z[d].ref /\ v.lock = NoProc
    <3>1. z[d] \in Entries
      BY <1>2, <2>5
    <3>2. iunlock(z[d]) = v
      BY DEF iunlock
    <3>3. 0 \in Int
      OBVIOUS
    <3> HIDE DEF v
    <3> QED BY <3>1, <3>2, <3>3, UnlockEntry
  <2> HIDE DEF v
  <2>7. ic' = [z EXCEPT ![d] = v]
    BY <1>9 DEF v
  <2>8. /\ ic' \in [Inums -> Entries]
        /\ \A j \in Inums : /\ ic'[j].ref = ic[j].ref
                            /\ ic'[j].lock = IF j \in {i, d} THEN NoProc ELSE ic[j].lock
    BY <1>2, <2>5, <2>6, <2>7
  <2>9. \A j \in Inums : \/ ic'[j].lock = NoProc
                         \/ ic'[j].lock = ic[j].lock /\ ~LockedBy(c, j)
    BY <1>2, <2>8
  <2>10. s'[p] = e /\ s' = [s EXCEPT ![p] = s'[p]]
    BY <2>1, NewLocals
  <2>11. disk' \in Disks /\ durable' \in Disks /\ cwd' = cwd /\ file' = file
    BY <1>1, <1>9 DEF Quiet, Same
  <2> QED BY <2>2, <2>3, <2>4, <2>8, <2>9, <2>10, <2>11, SameRefs
<1>10. CASE /\ disk' = iupdate([disk EXCEPT !.data[ic[d].blk][c.name] = 0], d, dc)
            /\ ic' = TwoSet(i, x, d, dc)
            /\ s' = [s EXCEPT ![p] = Drop1(c, "unlink_fin", d)] /\ Quiet
  <2> DEFINE l == "unlink_fin"
             e == Drop1(c, l, d)
  <2>1. s' = [s EXCEPT ![p] = e]
    BY <1>10
  <2>2. e \in CallStates /\ e.call = c.call /\ e.pc = "unlink_fin" /\ Len(e.put) = 1 /\ e.put[1] = d
        /\ e.ip = i /\ e.dp = 0
    <3>1. c \in CallStates /\ i = c.ip /\ d \in Inums /\ l \in Pcs /\ l = "unlink_fin"
      BY <1>1, <1>2 DEF Pcs
    <3> HIDE DEF c, i, d, l
    <3> QED BY <3>1, EditDrop1
  <2> HIDE DEF e
  <2>3. CallOK(e) /\ Goes(c, e) /\ Len(e.put) <= 2
    BY <1>2, <2>2, InumFacts DEF CallOK, Goes, HoldsIp, HoldsDp, Doing
  <2>4. \A j \in Inums : Owns(e, cwd[p], file[p], j) = Owns(c, cwd[p], file[p], j)
    BY <1>1, <1>2, <2>2, InumFacts DEF Owns, One, HoldsIp, HoldsDp, Doing
  <2>5. /\ ic' \in [Inums -> Entries]
        /\ \A j \in Inums : /\ ic'[j].ref = ic[j].ref
                            /\ ic'[j].lock = IF j = d THEN dc.lock ELSE
                                             IF j = i THEN x.lock ELSE ic[j].lock
    <3>1. ic \in [Inums -> Entries] /\ i \in Inums /\ d \in Inums /\ ic' = TwoSet(i, x, d, dc)
      BY <1>1, <1>2, <1>10
    <3>2. x \in Entries /\ x.ref = ic[i].ref /\ dc \in Entries /\ dc.ref = ic[d].ref
      BY <1>3, <1>6
    <3> HIDE DEF dc, i, d
    <3> QED BY <3>1, <3>2, CacheTwo
  <2>6. LockedBy(e, i)
    BY <2>2 DEF LockedBy, Doing
  <2>7. \A j \in Inums : \/ ic'[j].lock = NoProc
                         \/ ic'[j].lock = p /\ LockedBy(e, j)
                         \/ ic'[j].lock = ic[j].lock /\ ~LockedBy(c, j)
    BY <1>2, <1>3, <1>6, <2>5, <2>6
  <2>8. s'[p] = e /\ s' = [s EXCEPT ![p] = s'[p]]
    BY <2>1, NewLocals
  <2>9. disk' \in Disks
    <3> DEFINE nd == [disk EXCEPT !.data[ic[d].blk][c.name] = 0]
    <3>1. nd \in Disks
      <4>1. ic[d].blk \in 0..NBLOCKS /\ 0 \in 0..NINODES - 1
        BY <1>4, EntryFields, FsAssumption
      <4> QED BY <1>1, <1>2, <4>1, EntryType
    <3> HIDE DEF nd, dc
    <3>2. dc.type \in Types /\ dc.nlink \in Int /\ dc.blk \in 0..NBLOCKS
      BY <1>6, EntryFields
    <3>3. disk' = iupdate(nd, d, dc)
      BY <1>10 DEF nd
    <3> QED BY <1>2, <3>1, <3>2, <3>3, IupdateType
  <2>10. durable' \in Disks /\ cwd' = cwd /\ file' = file
    BY <1>1, <1>10 DEF Quiet, Same
  <2> QED BY <2>2, <2>3, <2>4, <2>5, <2>7, <2>8, <2>9, <2>10, SameRefs
<1> QED BY <1>7, <1>8, <1>9, <1>10

LEMMA UnlinkFinInv ==
  ASSUME IInv, NEW p \in Procs, UnlinkFin(p)
  PROVE  IInv'
<1> DEFINE c == s[p]
           i == c.ip
           k == ic[i].nlink - 1
           x == [iunlock(ic[i]) EXCEPT !.nlink = k]
<1>1. /\ c \in CallStates /\ CallOK(c) /\ c.pc = "unlink_fin" /\ c.put = <<>>
      /\ disk \in Disks /\ durable \in Disks /\ ic \in [Inums -> Entries]
  BY CallFacts DEF UnlinkFin, UnlinkCount, At
<1>2. /\ HoldsIp(c) /\ i \in Inums /\ c.dp = 0
      /\ \A j \in Inums : LockedBy(c, j) => j = i
  BY <1>1 DEF CallOK, HoldsIp, HoldsDp, Doing, CallStates, LockedBy
<1>3. ic[i] \in Entries
  BY <1>1, <1>2
<1>4. k \in Int
  BY <1>3, EntryFields
<1>5. /\ disk' = iupdate(disk, i, x) /\ ic' = [ic EXCEPT ![i] = x]
      /\ Fail(p, "end", <<i>>) /\ durable' = durable /\ cwd' = cwd /\ file' = file
  BY <1>3 DEF UnlinkFin, UnlinkCount, Quiet, Same, iunlock, Entries
<1> HIDE DEF k
<1>6. x \in Entries /\ x.ref = ic[i].ref /\ x.lock = NoProc
  BY <1>3, <1>4, UnlockEntry
<1> HIDE DEF x
<1>7. /\ ic' \in [Inums -> Entries]
      /\ \A j \in Inums : /\ ic'[j].ref = ic[j].ref
                          /\ ic'[j].lock = IF j = i THEN NoProc ELSE ic[j].lock
  BY <1>1, <1>2, <1>5, <1>6
<1>8. disk' \in Disks
  BY <1>1, <1>2, <1>5, <1>6, EntryFields, IupdateType
<1>9. NoPath(p) = "end"
  BY <1>2 DEF NoPath
<1>10. \A j \in Inums : \/ ic'[j].lock = NoProc
                        \/ ic'[j].lock = ic[j].lock /\ ~LockedBy(c, j)
  BY <1>2, <1>7
<1> QED BY <1>1, <1>2, <1>5, <1>7, <1>8, <1>9, <1>10, FailStep

-----------------------------------------------------------------------------
(* create() and open().                                                      *)

LEMMA CreateParentInv ==
  ASSUME IInv, NEW p \in Procs, CreateParent(p)
  PROVE  IInv'
<1> DEFINE c == s[p]
           d == c.ip
           x == ilock(p, d)
           u == iunlock(x)
           i == dirlookup(disk, x, c.name)
           n == CHOOSE j \in FreeInums : \A k \in FreeInums : j <= k
<1>1. /\ c \in CallStates /\ CallOK(c) /\ c.pc = "create_dp" /\ c.put = <<>>
      /\ disk \in Disks /\ durable \in Disks /\ ic \in [Inums -> Entries] /\ TypeOK
  BY CallFacts DEF CreateParent, CreateDir, At
<1>2. /\ HoldsIp(c) /\ HoldsDp(c) /\ d \in Inums /\ c.dp = 0 /\ c.name \in Names \cup Dots
      /\ c.type \in {"file", "dir", "dev"} /\ \A j \in Inums : ~LockedBy(c, j)
  BY <1>1 DEF CallOK, HoldsIp, HoldsDp, Doing, CallStates, LockedBy
<1>3. /\ x \in Entries /\ x.ref = ic[d].ref /\ x.lock = p
      /\ u \in Entries /\ u.ref = ic[d].ref /\ u.lock = NoProc
  BY <1>1, <1>2, IlockType
<1> HIDE DEF x, u
<1>4. i \in Inums \cup {0}
  BY <1>1, <1>2, <1>3, DirlookupType
<1>5. FreeInums # {} => n \in Inums
  <2>1. FreeInums \subseteq Inums /\ FreeInums \subseteq Nat
    BY InumFacts DEF FreeInums
  <2>2. FreeInums # {} => \E j \in FreeInums : \A k \in FreeInums : j <= k
    BY <2>1, LeastMember
  <2> QED BY <2>1, <2>2
<1> HIDE DEF i, n
<1>6. \/ \E why : Panic(why) /\ Same
      \/ /\ i # 0 /\ ic' = Recached(d, u, i) /\ disk' = disk
         /\ s' = [s EXCEPT ![p] = PcIpPut1(c, "create_found", i, d)] /\ Quiet
      \/ /\ FreeInums # {} /\ ic' = Recached(d, x, n)
         /\ disk' = [disk EXCEPT !.ino[n] = [FreeInode EXCEPT !.type = c.type]]
         /\ s' = [s EXCEPT ![p] = SetPcIpDp(c, "create_ip", n, d)] /\ Quiet
  BY DEF CreateParent, CreateDir, x, u, i, n, Recached, SetPcIpDp, PcIpPut1
<1>7. CASE \E why : Panic(why) /\ Same
  BY <1>7, SameInv DEF Panic, Same
<1>8. CASE /\ i # 0 /\ ic' = Recached(d, u, i) /\ disk' = disk
           /\ s' = [s EXCEPT ![p] = PcIpPut1(c, "create_found", i, d)] /\ Quiet
  <2> DEFINE l == "create_found"
             e == PcIpPut1(c, l, i, d)
  <2>1. s' = [s EXCEPT ![p] = e] /\ i \in Inums
    BY <1>4, <1>8
  <2>2. /\ e \in CallStates /\ e.call = c.call /\ e.pc = "create_found"
        /\ Len(e.put) = 1 /\ e.put[1] = d /\ e.ip = i /\ e.dp = 0
    <3>1. c \in CallStates /\ d \in Inums /\ l \in Pcs /\ l = "create_found" /\ c.dp = 0
      BY <1>1, <1>2 DEF Pcs
    <3> HIDE DEF c, d, l
    <3> QED BY <2>1, <3>1, EditPcIpPut1
  <2> HIDE DEF e
  <2>3. CallOK(e) /\ Goes(c, e) /\ Len(e.put) <= 2
    BY <1>1, <1>2, <2>1, <2>2, InumFacts DEF CallOK, Goes, HoldsIp, HoldsDp, Doing
  <2>4. \A j \in Inums : Owns(e, cwd[p], file[p], j) = Owns(c, cwd[p], file[p], j) + One(i = j)
    BY <1>1, <1>2, <2>2, InumFacts DEF Owns, One, HoldsIp, HoldsDp, Doing
  <2>5. /\ ic' \in [Inums -> Entries]
        /\ \A j \in Inums : /\ ic'[j].ref = ic[j].ref + One(i = j)
                            /\ ic'[j].lock = IF j = d THEN u.lock ELSE ic[j].lock
    BY <1>1, <1>2, <1>3, <1>8, <2>1, CacheGet
  <2>6. disk' \in Disks /\ durable' \in Disks /\ cwd' = cwd /\ file' = file
    BY <1>1, <1>8 DEF Quiet, Same
  <2>7. \A j \in Inums : ic'[j].ref = ic[j].ref + Owns(e, cwd[p], file[p], j)
                                               - Owns(c, cwd[p], file[p], j)
    <3>1. \A j \in Inums : ic[j].ref \in Int /\ One(i = j) \in Int
                           /\ Owns(c, cwd[p], file[p], j) \in Int
      BY CallFacts, OwnsType DEF One
    <3> QED BY <2>4, <2>5, <3>1
  <2>8. \A j \in Inums :
           /\ ic'[j].ref = ic[j].ref + Owns(e, cwd[p], file[p], j)
                                     - Owns(s[p], cwd[p], file[p], j)
           /\ \/ ic'[j].lock = NoProc
              \/ ic'[j].lock = p /\ LockedBy(e, j)
              \/ ic'[j].lock = ic[j].lock /\ (LockedBy(s[p], j) => LockedBy(e, j))
    BY <1>2, <1>3, <2>5, <2>7
  <2> QED BY <2>1, <2>2, <2>3, <2>5, <2>6, <2>8, MoveStep
<1>9. CASE /\ FreeInums # {} /\ ic' = Recached(d, x, n)
           /\ disk' = [disk EXCEPT !.ino[n] = [FreeInode EXCEPT !.type = c.type]]
           /\ s' = [s EXCEPT ![p] = SetPcIpDp(c, "create_ip", n, d)] /\ Quiet
  <2> DEFINE l == "create_ip"
             e == SetPcIpDp(c, l, n, d)
  <2>1. s' = [s EXCEPT ![p] = e] /\ n \in Inums
    BY <1>5, <1>9
  <2>2. /\ e \in CallStates /\ e.call = c.call /\ e.pc = "create_ip"
        /\ e.put = c.put /\ e.ip = n /\ e.dp = d
    <3>1. c \in CallStates /\ d \in Inums /\ l \in Pcs /\ l = "create_ip"
      BY <1>1, <1>2 DEF Pcs
    <3> HIDE DEF c, d, l
    <3> QED BY <2>1, <3>1, EditPcIpDp
  <2> HIDE DEF e
  <2>3. CallOK(e) /\ Goes(c, e) /\ Len(e.put) <= 2
    BY <1>1, <1>2, <2>1, <2>2, InumFacts DEF CallOK, Goes, HoldsIp, HoldsDp, Doing
  <2>4. \A j \in Inums : Owns(e, cwd[p], file[p], j) = Owns(c, cwd[p], file[p], j) + One(n = j)
    BY <1>1, <1>2, <2>2, InumFacts DEF Owns, One, HoldsIp, HoldsDp, Doing
  <2>5. /\ ic' \in [Inums -> Entries]
        /\ \A j \in Inums : /\ ic'[j].ref = ic[j].ref + One(n = j)
                            /\ ic'[j].lock = IF j = d THEN x.lock ELSE ic[j].lock
    BY <1>1, <1>2, <1>3, <1>9, <2>1, CacheGet
  <2>6. durable' \in Disks /\ cwd' = cwd /\ file' = file
    BY <1>1, <1>9 DEF Quiet, Same
  <2>7. disk' \in Disks
    <3> DEFINE f == [FreeInode EXCEPT !.type = c.type]
    <3>1. f \in [type : Types, nlink : Int, blk : 0..NBLOCKS]
      <4>1. c.type \in Types /\ 0 \in 0..NBLOCKS
        BY <1>2, FsAssumption DEF Types
      <4> QED BY <4>1 DEF FreeInode
    <3>2. disk' = [disk EXCEPT !.ino[n] = f]
      BY <1>9
    <3> HIDE DEF f
    <3> QED BY <1>1, <2>1, <3>1, <3>2 DEF Disks
  <2>8. \A j \in Inums : ic'[j].ref = ic[j].ref + Owns(e, cwd[p], file[p], j)
                                               - Owns(c, cwd[p], file[p], j)
    <3>1. \A j \in Inums : ic[j].ref \in Int /\ One(n = j) \in Int
                           /\ Owns(c, cwd[p], file[p], j) \in Int
      BY CallFacts, OwnsType DEF One
    <3> QED BY <2>4, <2>5, <3>1
  <2>9. LockedBy(e, d)
    BY <2>2 DEF LockedBy, Doing
  <2>10. \A j \in Inums :
           /\ ic'[j].ref = ic[j].ref + Owns(e, cwd[p], file[p], j)
                                     - Owns(s[p], cwd[p], file[p], j)
           /\ \/ ic'[j].lock = NoProc
              \/ ic'[j].lock = p /\ LockedBy(e, j)
              \/ ic'[j].lock = ic[j].lock /\ (LockedBy(s[p], j) => LockedBy(e, j))
    BY <1>2, <1>3, <2>5, <2>8, <2>9
  <2> QED BY <2>1, <2>2, <2>3, <2>5, <2>6, <2>7, <2>10, MoveStep
<1> QED BY <1>6, <1>7, <1>8, <1>9

\* open() and create() of a name that exists: the inode is locked, and put again
\* if the call cannot use it.
LEMMA LockOrFail ==
  ASSUME IInv, NEW p \in Procs, s[p].put = <<>>, s[p].pc \in {"create_found", "open_ip"},
         \/ ic' = [ic EXCEPT ![s[p].ip] = ilock(p, s[p].ip)] /\ Goto(p, "opened")
         \/ /\ ic' = [ic EXCEPT ![s[p].ip] = iunlock(ilock(p, s[p].ip))]
            /\ Fail(p, "end", <<s[p].ip>>),
         disk' = disk, Quiet
  PROVE  IInv'
<1> DEFINE c == s[p]
           i == c.ip
           x == ilock(p, i)
           u == iunlock(x)
<1>1. /\ c \in CallStates /\ CallOK(c)
      /\ disk' \in Disks /\ durable' \in Disks /\ cwd' = cwd /\ file' = file
      /\ ic \in [Inums -> Entries] /\ TypeOK
  BY CallFacts DEF Quiet, Same
<1>2. HoldsIp(c) /\ i \in Inums /\ c.dp = 0 /\ \A j \in Inums : ~LockedBy(c, j)
  BY <1>1 DEF CallOK, HoldsIp, HoldsDp, Doing, CallStates, LockedBy
<1>3. /\ x \in Entries /\ x.ref = ic[i].ref /\ x.lock = p
      /\ u \in Entries /\ u.ref = ic[i].ref /\ u.lock = NoProc
  BY <1>1, <1>2, IlockType
<1> HIDE DEF x, u
<1>4. CASE ic' = [ic EXCEPT ![i] = u] /\ Fail(p, "end", <<i>>)
  <2>1. /\ ic' \in [Inums -> Entries]
        /\ \A j \in Inums : ic'[j].ref = ic[j].ref /\ ic'[j].lock \in {NoProc, ic[j].lock}
    BY <1>1, <1>2, <1>3, <1>4
  <2>2. NoPath(p) = "end"
    BY <1>2 DEF NoPath
  <2> QED BY <1>1, <1>2, <1>4, <2>1, <2>2, FailStep
<1>5. CASE ic' = [ic EXCEPT ![i] = x] /\ Goto(p, "opened")
  <2> DEFINE l == "opened"
             e == SetPc(c, l)
  <2>1. s' = [s EXCEPT ![p] = e]
    BY <1>5 DEF Goto, SetPc
  <2>2. /\ e \in CallStates /\ e.call = c.call /\ e.pc = "opened" /\ e.put = c.put
        /\ e.ip = c.ip /\ e.dp = c.dp
    <3>1. c \in CallStates /\ l \in Pcs \cup Freeing /\ l = "opened"
      BY <1>1 DEF Pcs
    <3> HIDE DEF c, l
    <3> QED BY <3>1, EditPc
  <2> HIDE DEF e
  <2>3. CallOK(e) /\ Goes(c, e) /\ LockedBy(e, i)
    BY <1>2, <2>2, InumFacts DEF CallOK, Goes, HoldsIp, HoldsDp, Doing, LockedBy
  <2>4. Keeps(c, e)
    BY <1>2, <2>2 DEF Keeps, HoldsIp, Doing, Pcs
  <2>5. /\ ic' \in [Inums -> Entries]
        /\ \A j \in Inums : /\ ic'[j].ref = ic[j].ref
                            /\ ic'[j].lock = IF j = i THEN p ELSE ic[j].lock
    BY <1>1, <1>2, <1>3, <1>5
  <2>6. \A j \in Inums : /\ ic'[j].ref = ic[j].ref
                         /\ \/ ic'[j].lock = p /\ LockedBy(e, j)
                            \/ ic'[j].lock = ic[j].lock /\ ~LockedBy(s[p], j)
    BY <1>2, <2>3, <2>5
  <2> QED BY <1>1, <2>1, <2>2, <2>3, <2>4, <2>5, <2>6, KeepStep
<1> QED BY <1>4, <1>5 DEF x, u

LEMMA CreateFoundInv ==
  ASSUME IInv, NEW p \in Procs, CreateFound(p)
  PROVE  IInv'
<1>1. s[p].put = <<>> /\ s[p].pc \in {"create_found", "open_ip"}
  BY DEF CreateFound, At
<1>2. \/ \E why : Panic(why) /\ Same
      \/ /\ \/ ic' = [ic EXCEPT ![s[p].ip] = ilock(p, s[p].ip)] /\ Goto(p, "opened")
            \/ /\ ic' = [ic EXCEPT ![s[p].ip] = iunlock(ilock(p, s[p].ip))]
               /\ Fail(p, "end", <<s[p].ip>>)
         /\ disk' = disk /\ Quiet
  BY DEF CreateFound
<1>3. CASE \E why : Panic(why) /\ Same
  BY <1>3, SameInv DEF Panic, Same
<1> QED BY <1>1, <1>2, <1>3, LockOrFail

LEMMA OpenInodeInv ==
  ASSUME IInv, NEW p \in Procs, OpenInode(p)
  PROVE  IInv'
<1>1. s[p].put = <<>> /\ s[p].pc \in {"create_found", "open_ip"}
  BY DEF OpenInode, At
<1>2. \/ \E why : Panic(why) /\ Same
      \/ /\ \/ ic' = [ic EXCEPT ![s[p].ip] = ilock(p, s[p].ip)] /\ Goto(p, "opened")
            \/ /\ ic' = [ic EXCEPT ![s[p].ip] = iunlock(ilock(p, s[p].ip))]
               /\ Fail(p, "end", <<s[p].ip>>)
         /\ disk' = disk /\ Quiet
  BY DEF OpenInode
<1>3. CASE \E why : Panic(why) /\ Same
  BY <1>3, SameInv DEF Panic, Same
<1> QED BY <1>1, <1>2, <1>3, LockOrFail

LEMMA CreateInodeInv ==
  ASSUME IInv, NEW p \in Procs, CreateInode(p)
  PROVE  IInv'
<1> DEFINE c == s[p]
           i == c.ip
           d == c.dp
           b == FreeBlock(disk)
           isdir == c.type = "dir"
           kb == IF isdir THEN b ELSE 0
           x == [ilock(p, i) EXCEPT !.nlink = 1, !.blk = kb]
           k == IF isdir THEN ic[d].nlink + 1 ELSE ic[d].nlink
           dc == [ic[d] EXCEPT !.lock = NoProc, !.nlink = k]
           dots == [balloc(disk, b) EXCEPT !.data[b]["."] = i, !.data[b][".."] = d]
           base == IF isdir THEN dots ELSE disk
           new == iupdate(iupdate(base, i, x), d, dc)
<1>1. /\ c \in CallStates /\ CallOK(c) /\ c.pc = "create_ip" /\ c.put = <<>>
      /\ disk \in Disks /\ durable \in Disks /\ ic \in [Inums -> Entries] /\ TypeOK
  BY CallFacts DEF CreateInode, At
<1>2. /\ HoldsIp(c) /\ HoldsDp(c) /\ i \in Inums /\ d \in Inums /\ c.name \in Names \cup Dots
      /\ \A j \in Inums : LockedBy(c, j) => j = d
  BY <1>1 DEF CallOK, HoldsIp, HoldsDp, Doing, CallStates, LockedBy
<1>3. b \in Blocks \cup {0}
  BY <1>1, FreeBlockType
<1> HIDE DEF b
<1>4. kb \in 0..NBLOCKS
  BY <1>3, InumFacts, FsAssumption
<1>5. ic[d] \in Entries
  BY <1>1, <1>2
<1>6. k \in Int
  BY <1>5, EntryFields
<1> HIDE DEF kb, k
<1>7. x \in Entries /\ x.ref = ic[i].ref /\ x.lock = p
  <2> DEFINE y == ilock(p, i)
             m == 1
  <2>1. y \in Entries /\ y.ref = ic[i].ref /\ y.lock = p
    BY <1>1, <1>2, IlockType
  <2>2. m \in Int
    OBVIOUS
  <2>3. x = [y EXCEPT !.nlink = m, !.blk = kb]
    OBVIOUS
  <2> HIDE DEF y, m, x
  <2> QED BY <1>4, <2>1, <2>2, <2>3, NewEntry
<1>8. dc \in Entries /\ dc.ref = ic[d].ref /\ dc.lock = NoProc
  BY <1>5, <1>6, UnlockEntry
<1>9. \/ \E why : Panic(why) /\ Same
      \/ /\ isdir => b # 0
         /\ disk' = dirlink(new, dc, c.name, i) /\ ic' = TwoSet(i, x, d, dc)
         /\ s' = [s EXCEPT ![p] = Drop1(c, "opened", d)] /\ Quiet
  BY <1>1, <1>2 DEF CreateInode, b, kb, k, Drop1, TwoSet
<1>10. CASE \E why : Panic(why) /\ Same
  BY <1>10, SameInv DEF Panic, Same
<1> HIDE DEF x, dc
<1>11. CASE /\ isdir => b # 0
            /\ disk' = dirlink(new, dc, c.name, i) /\ ic' = TwoSet(i, x, d, dc)
            /\ s' = [s EXCEPT ![p] = Drop1(c, "opened", d)] /\ Quiet
  <2> DEFINE l == "opened"
             e == Drop1(c, l, d)
  <2>1. s' = [s EXCEPT ![p] = e]
    BY <1>11
  <2>2. /\ e \in CallStates /\ e.call = c.call /\ e.pc = "opened"
        /\ Len(e.put) = 1 /\ e.put[1] = d /\ e.ip = i /\ e.dp = 0
    <3>1. c \in CallStates /\ i = c.ip /\ d \in Inums /\ l \in Pcs /\ l = "opened"
      BY <1>1, <1>2 DEF Pcs
    <3> HIDE DEF c, i, d, l
    <3> QED BY <3>1, EditDrop1
  <2> HIDE DEF e
  <2>3. CallOK(e) /\ Goes(c, e) /\ Len(e.put) <= 2
    BY <1>2, <2>2, InumFacts DEF CallOK, Goes, HoldsIp, HoldsDp, Doing
  <2>4. \A j \in Inums : Owns(e, cwd[p], file[p], j) = Owns(c, cwd[p], file[p], j)
    BY <1>1, <1>2, <2>2, InumFacts DEF Owns, One, HoldsIp, HoldsDp, Doing
  <2>5. /\ ic' \in [Inums -> Entries]
        /\ \A j \in Inums : /\ ic'[j].ref = ic[j].ref
                            /\ ic'[j].lock = IF j = d THEN dc.lock ELSE
                                             IF j = i THEN x.lock ELSE ic[j].lock
    <3>1. ic \in [Inums -> Entries] /\ i \in Inums /\ d \in Inums /\ ic' = TwoSet(i, x, d, dc)
      BY <1>1, <1>2, <1>11
    <3>2. x \in Entries /\ x.ref = ic[i].ref /\ dc \in Entries /\ dc.ref = ic[d].ref
      BY <1>7, <1>8
    <3> HIDE DEF i, d
    <3> QED BY <3>1, <3>2, CacheTwo
  <2>6. LockedBy(e, i)
    BY <2>2 DEF LockedBy, Doing
  <2>7. \A j \in Inums : \/ ic'[j].lock = NoProc
                         \/ ic'[j].lock = p /\ LockedBy(e, j)
                         \/ ic'[j].lock = ic[j].lock /\ ~LockedBy(c, j)
    BY <1>2, <1>7, <1>8, <2>5, <2>6
  <2>8. s'[p] = e /\ s' = [s EXCEPT ![p] = s'[p]]
    BY <2>1, NewLocals
  <2>9. disk' \in Disks
    <3>1. i \in 0..NINODES - 1 /\ d \in 0..NINODES - 1 /\ "." \in Names \cup Dots
          /\ ".." \in Names \cup Dots
      BY <1>2, InumFacts DEF Dots
    <3>2. base \in Disks
      <4>1. CASE isdir
        <5>1. b \in Blocks /\ b \in 0..NBLOCKS
          BY <1>3, <1>11, <4>1, InumFacts
        <5>2. balloc(disk, b) \in Disks
          BY <1>1, <5>1, BallocType
        <5> DEFINE d1 == [balloc(disk, b) EXCEPT !.data[b]["."] = i]
        <5>3. d1 \in Disks
          BY <3>1, <5>1, <5>2, EntryType
        <5>4. dots = [d1 EXCEPT !.data[b][".."] = d]
          OBVIOUS
        <5> HIDE DEF d1
        <5>5. dots \in Disks
          BY <3>1, <5>1, <5>3, <5>4, EntryType
        <5> QED BY <4>1, <5>5
      <4> QED BY <1>1, <4>1
    <3> HIDE DEF base
    <3>3. /\ x.type \in Types /\ x.nlink \in Int /\ x.blk \in 0..NBLOCKS
          /\ dc.type \in Types /\ dc.nlink \in Int /\ dc.blk \in 0..NBLOCKS
      BY <1>7, <1>8, EntryFields
    <3>4. iupdate(base, i, x) \in Disks
      BY <1>2, <3>2, <3>3, IupdateType
    <3>5. new \in Disks
      BY <1>2, <3>3, <3>4, IupdateType
    <3> HIDE DEF new
    <3> QED BY <1>2, <1>11, <3>1, <3>3, <3>5, EntryType DEF dirlink
  <2>10. durable' \in Disks /\ cwd' = cwd /\ file' = file
    BY <1>1, <1>11 DEF Quiet, Same
  <2> QED BY <2>2, <2>3, <2>4, <2>5, <2>7, <2>8, <2>9, <2>10, SameRefs
<1> QED BY <1>9, <1>10, <1>11

\* mkdir() and mknod() drop the inode; open() makes it the process's file.
LEMMA OpenedInv ==
  ASSUME IInv, NEW p \in Procs, Opened(p)
  PROVE  IInv'
<1> DEFINE c == s[p]
           i == c.ip
           u == iunlock(ic[i])
<1>1. /\ c \in CallStates /\ CallOK(c) /\ c.pc = "opened" /\ c.put = <<>>
      /\ disk' \in Disks /\ durable' \in Disks /\ cwd' = cwd
      /\ ic \in [Inums -> Entries] /\ cwd[p] \in Inums /\ file[p] \in Inums \cup {0}
  BY CallFacts DEF Opened, At
<1>2. /\ HoldsIp(c) /\ i \in Inums /\ c.dp = 0 /\ Doing(c) = "opened"
      /\ \A j \in Inums : LockedBy(c, j) => j = i
  BY <1>1 DEF CallOK, HoldsIp, HoldsDp, Doing, CallStates, LockedBy
<1>3. ic[i] \in Entries /\ 0 \in Int
  BY <1>1, <1>2
<1>4. u \in Entries /\ u.ref = ic[i].ref /\ u.lock = NoProc
  BY <1>3, UnlockEntry
<1>5. ic' = [ic EXCEPT ![i] = u]
  BY DEF Opened, iunlock
<1> HIDE DEF u
<1>6. /\ ic' \in [Inums -> Entries]
      /\ \A j \in Inums : /\ ic'[j].ref = ic[j].ref
                          /\ ic'[j].lock = IF j = i THEN NoProc ELSE ic[j].lock
  BY <1>1, <1>2, <1>4, <1>5
<1>7. \A j \in Inums : \/ ic'[j].lock = NoProc
                       \/ ic'[j].lock = ic[j].lock /\ ~LockedBy(c, j)
  BY <1>2, <1>6
<1>8. CASE Fail(p, "end", <<i>>) /\ file' = file
  <2>1. NoPath(p) = "end"
    BY <1>2 DEF NoPath
  <2> QED BY <1>1, <1>2, <1>6, <1>7, <1>8, <2>1, FailStep
<1>9. CASE c.call = "open" /\ Goto(p, "end") /\ file' = [file EXCEPT ![p] = i]
  <2> DEFINE l == "end"
             e == SetPc(c, l)
  <2>1. s' = [s EXCEPT ![p] = e]
    BY <1>9 DEF Goto, SetPc
  <2>2. e \in CallStates /\ e.pc = "end" /\ e.put = c.put
    <3>1. c \in CallStates /\ l \in Pcs \cup Freeing /\ l = "end"
      BY <1>1 DEF Pcs
    <3> HIDE DEF c, l
    <3> QED BY <3>1, EditPc
  <2> HIDE DEF e
  <2>3. CallOK(e) /\ ~HoldsIp(e) /\ ~HoldsDp(e) /\ e.put = <<>> /\ Len(e.put) <= 2
    BY <1>1, <2>2 DEF CallOK, HoldsIp, HoldsDp, Doing
  <2>4. s'[p] = e /\ s' = [s EXCEPT ![p] = s'[p]]
    BY <2>1, NewLocals
  <2>5. file[p] = 0
    BY <1>2, <1>9 DEF IInv, FileInv
  <2>6. file' = [file EXCEPT ![p] = file'[p]] /\ file'[p] = i
    BY <1>9 DEF IInv, TypeOK
  <2>7. cwd' = [cwd EXCEPT ![p] = cwd'[p]] /\ cwd'[p] = cwd[p]
    BY <1>1, CallFacts
  <2>8. \A j \in Inums : Owns(e, cwd[p], i, j) = Owns(c, cwd[p], file[p], j)
    BY <1>1, <1>2, <2>3, <2>5, InumFacts DEF Owns, One, HoldsDp
  <2>9. \A j \in Inums : ic'[j].ref = ic[j].ref + Owns(s'[p], cwd'[p], file'[p], j)
                                                - Owns(s[p], cwd[p], file[p], j)
    BY <1>6, <2>4, <2>6, <2>7, <2>8, OwnsType, CallFacts
  <2>10. /\ s'[p] \in CallStates /\ Len(s'[p].put) <= 2 /\ CallOK(s'[p]) /\ ~HoldsIp(s'[p])
         /\ cwd'[p] \in Inums /\ file'[p] \in Inums \cup {0}
    BY <1>1, <1>2, <2>2, <2>3, <2>4, <2>6, <2>7
  <2> QED BY <1>1, <1>6, <1>7, <2>4, <2>6, <2>7, <2>9, <2>10, StepInv
<1> QED BY <1>8, <1>9 DEF Opened

-----------------------------------------------------------------------------
(* chdir(), write(), close() and the start of a call.                        *)

\* chdir() puts the old directory in the place of the new one.
LEMMA ChdirInv ==
  ASSUME IInv, NEW p \in Procs, Chdir(p)
  PROVE  IInv'
<1> DEFINE c == s[p]
           i == c.ip
           u == iunlock(ilock(p, i))
<1>1. /\ c \in CallStates /\ CallOK(c) /\ c.pc = "chdir_ip" /\ c.put = <<>>
      /\ disk \in Disks /\ durable \in Disks
      /\ ic \in [Inums -> Entries] /\ TypeOK /\ cwd[p] \in Inums /\ file[p] \in Inums \cup {0}
  BY CallFacts DEF Chdir, At
<1>2. /\ HoldsIp(c) /\ HoldsDp(c) /\ i \in Inums /\ c.dp = 0
      /\ \A j \in Inums : ~LockedBy(c, j)
  BY <1>1 DEF CallOK, HoldsIp, HoldsDp, Doing, CallStates, LockedBy
<1>3. u \in Entries /\ u.ref = ic[i].ref /\ u.lock = NoProc
  BY <1>1, <1>2, IlockType
<1>4. \/ \E why : Panic(why) /\ Same
      \/ /\ ic' = [ic EXCEPT ![i] = u] /\ Fail(p, "end", <<i>>) /\ disk' = disk /\ Quiet
      \/ /\ ic' = [ic EXCEPT ![i] = u] /\ Fail(p, "end", <<cwd[p]>>)
         /\ cwd' = [cwd EXCEPT ![p] = i] /\ UNCHANGED <<disk, durable, file>>
  BY DEF Chdir
<1> HIDE DEF u
<1>5. CASE \E why : Panic(why) /\ Same
  BY <1>5, SameInv DEF Panic, Same
<1>6. ASSUME ic' = [ic EXCEPT ![i] = u]
      PROVE  /\ ic' \in [Inums -> Entries]
             /\ \A j \in Inums : ic'[j].ref = ic[j].ref /\ ic'[j].lock \in {NoProc, ic[j].lock}
  BY <1>1, <1>2, <1>3, <1>6
<1>7. CASE ic' = [ic EXCEPT ![i] = u] /\ Fail(p, "end", <<i>>) /\ disk' = disk /\ Quiet
  <2>1. NoPath(p) = "end"
    BY <1>2 DEF NoPath
  <2>2. disk' \in Disks /\ durable' \in Disks /\ cwd' = cwd /\ file' = file
    BY <1>1, <1>7 DEF Quiet, Same
  <2> QED BY <1>1, <1>2, <1>6, <1>7, <2>1, <2>2, FailStep
<1>8. CASE /\ ic' = [ic EXCEPT ![i] = u] /\ Fail(p, "end", <<cwd[p]>>)
           /\ cwd' = [cwd EXCEPT ![p] = i] /\ UNCHANGED <<disk, durable, file>>
  <2> DEFINE l == "end"
             w == cwd[p]
             e == Put1(c, l, w)
  <2>1. s' = [s EXCEPT ![p] = e]
    BY <1>8 DEF Fail, Put1
  <2>2. e \in CallStates /\ e.pc = "end" /\ Len(e.put) = 1 /\ e.put[1] = cwd[p]
    <3>1. c \in CallStates /\ l \in Pcs /\ l = "end" /\ w \in Inums /\ w = cwd[p]
      BY <1>1 DEF Pcs
    <3> HIDE DEF c, l, w
    <3> QED BY <3>1, EditPut1
  <2> HIDE DEF e
  <2>3. CallOK(e) /\ ~HoldsIp(e) /\ ~HoldsDp(e) /\ Len(e.put) <= 2
    BY <2>2 DEF CallOK, HoldsIp, HoldsDp, Doing
  <2>4. s'[p] = e /\ s' = [s EXCEPT ![p] = s'[p]]
    BY <2>1, NewLocals
  <2>5. cwd' = [cwd EXCEPT ![p] = cwd'[p]] /\ cwd'[p] = i
    BY <1>8 DEF IInv, TypeOK
  <2>6. file' = [file EXCEPT ![p] = file'[p]] /\ file'[p] = file[p]
    BY <1>8, CallFacts
  <2>7. \A j \in Inums : Owns(e, i, file[p], j) = Owns(c, cwd[p], file[p], j)
    BY <1>1, <1>2, <2>2, <2>3, InumFacts DEF Owns, One
  <2>8. \A j \in Inums : ic'[j].ref = ic[j].ref + Owns(s'[p], cwd'[p], file'[p], j)
                                                - Owns(s[p], cwd[p], file[p], j)
    BY <1>6, <1>8, <2>4, <2>5, <2>6, <2>7, OwnsType, CallFacts
  <2>9. /\ s'[p] \in CallStates /\ Len(s'[p].put) <= 2 /\ CallOK(s'[p]) /\ ~HoldsIp(s'[p])
        /\ cwd'[p] \in Inums /\ file'[p] \in Inums \cup {0}
    BY <1>1, <1>2, <2>2, <2>3, <2>4, <2>5, <2>6
  <2>10. /\ disk' \in Disks /\ durable' \in Disks /\ ic' \in [Inums -> Entries]
         /\ \A j \in Inums : \/ ic'[j].lock = NoProc
                             \/ ic'[j].lock = ic[j].lock /\ ~LockedBy(s[p], j)
    BY <1>1, <1>2, <1>6, <1>8
  <2> QED BY <2>4, <2>5, <2>6, <2>8, <2>9, <2>10, StepInv
<1> QED BY <1>4, <1>5, <1>7, <1>8

\* A process that is in no call has nothing but its directory and its file.
LEMMA UserFacts ==
  ASSUME IInv, NEW p \in Procs, At(p, "user")
  PROVE  /\ s[p] \in CallStates /\ s[p].put = <<>> /\ s[p].pc = "user" /\ s[p].dp = 0
         /\ ~HoldsIp(s[p]) /\ ~HoldsDp(s[p]) /\ \A j \in Inums : ~LockedBy(s[p], j)
         /\ s[p].back \in Pcs
<1>1. s[p] \in CallStates /\ CallOK(s[p]) /\ s[p].pc = "user" /\ s[p].put = <<>>
  BY CallFacts DEF At
<1>2. s[p] = Idle
  BY <1>1 DEF CallOK
<1> QED BY <1>1, <1>2 DEF Idle, HoldsIp, HoldsDp, Doing, LockedBy, CallStates

LEMMA WriteInv ==
  ASSUME IInv, NEW p \in Procs, Write(p)
  PROVE  IInv'
<1> DEFINE c == s[p]
           i == file[p]
           u == iunlock(ilock(p, i))
           b == FreeBlock(disk)
           w == [u EXCEPT !.nlink = u.nlink, !.blk = b]
           x == IF u.blk = 0 THEN w ELSE u
<1>1. /\ c \in CallStates /\ c.pc = "user" /\ c.put = <<>> /\ c.dp = 0
      /\ ~HoldsIp(c) /\ ~HoldsDp(c) /\ \A j \in Inums : ~LockedBy(c, j)
  BY UserFacts DEF Write
<1>2. /\ disk \in Disks /\ durable \in Disks /\ ic \in [Inums -> Entries] /\ TypeOK
      /\ i \in Inums
  BY CallFacts DEF Write
<1>3. u \in Entries /\ u.ref = ic[i].ref /\ u.lock = NoProc
  BY <1>2, IlockType
<1>4. b \in Blocks \cup {0}
  BY <1>2, FreeBlockType
<1>5. [u EXCEPT !.blk = b] = w
  BY <1>3 DEF Entries
<1>6. \/ UNCHANGED <<disk, durable, ic, s, cwd, file>>
      \/ /\ u.blk = 0 => b # 0
         /\ disk' = IF u.blk = 0 THEN iupdate(balloc(disk, b), i, w) ELSE disk
         /\ ic' = [ic EXCEPT ![i] = x]
         /\ Goto(p, "end") /\ UNCHANGED <<durable, cwd, file>>
  BY <1>5 DEF Write, Panic
<1> HIDE DEF u, b
<1>7. CASE UNCHANGED <<disk, durable, ic, s, cwd, file>>
  BY <1>7, SameInv
<1>8. w \in Entries /\ w.ref = ic[i].ref /\ w.lock = NoProc
  <2> DEFINE m == u.nlink
  <2>1. m \in Int /\ b \in 0..NBLOCKS
    BY <1>3, <1>4, EntryFields, InumFacts, FsAssumption
  <2>2. w = [u EXCEPT !.nlink = m, !.blk = b]
    OBVIOUS
  <2> HIDE DEF m, w
  <2> QED BY <1>3, <2>1, <2>2, NewEntry
<1> HIDE DEF w
<1>9. x \in Entries /\ x.ref = ic[i].ref /\ x.lock = NoProc
  BY <1>3, <1>8
<1> HIDE DEF x
<1>10. CASE /\ u.blk = 0 => b # 0
            /\ disk' = IF u.blk = 0 THEN iupdate(balloc(disk, b), i, w) ELSE disk
            /\ ic' = [ic EXCEPT ![i] = x]
            /\ Goto(p, "end") /\ UNCHANGED <<durable, cwd, file>>
  <2> DEFINE l == "end"
             e == SetPc(c, l)
  <2>1. s' = [s EXCEPT ![p] = e]
    BY <1>10 DEF Goto, SetPc
  <2>2. e \in CallStates /\ e.pc = "end" /\ e.put = c.put
    <3>1. c \in CallStates /\ l \in Pcs \cup Freeing /\ l = "end"
      BY <1>1 DEF Pcs
    <3> HIDE DEF c, l
    <3> QED BY <3>1, EditPc
  <2> HIDE DEF e
  <2>3. CallOK(e) /\ ~HoldsIp(e) /\ ~HoldsDp(e) /\ e.put = <<>> /\ Len(e.put) <= 2 /\ Goes(c, e)
    BY <1>1, <2>2 DEF CallOK, HoldsIp, HoldsDp, Doing, Goes
  <2>4. s'[p] = e /\ s' = [s EXCEPT ![p] = s'[p]]
    BY <2>1, NewLocals
  <2>5. disk' \in Disks
    <3>1. CASE u.blk = 0
      <4>1. b \in Blocks
        BY <1>4, <1>10, <3>1
      <4>2. balloc(disk, b) \in Disks
        BY <1>2, <4>1, BallocType
      <4>3. w.type \in Types /\ w.nlink \in Int /\ w.blk \in 0..NBLOCKS
        BY <1>8, EntryFields
      <4>4. iupdate(balloc(disk, b), i, w) \in Disks
        BY <1>2, <4>2, <4>3, IupdateType
      <4> QED BY <1>10, <3>1, <4>4
    <3>2. CASE u.blk # 0
      BY <1>2, <1>10, <3>2
    <3> QED BY <3>1, <3>2
  <2>6. \A j \in Inums : Owns(e, cwd[p], file[p], j) = Owns(c, cwd[p], file[p], j)
    BY <1>1, <2>3 DEF Owns, One
  <2>7. /\ ic' \in [Inums -> Entries]
        /\ \A j \in Inums : ic'[j].ref = ic[j].ref /\ ic'[j].lock \in {NoProc, ic[j].lock}
    BY <1>2, <1>9, <1>10
  <2>8. \A j \in Inums : \/ ic'[j].lock = NoProc
                         \/ ic'[j].lock = ic[j].lock /\ ~LockedBy(s[p], j)
    BY <1>1, <2>7
  <2>9. durable' \in Disks /\ cwd' = cwd /\ file' = file
    BY <1>2, <1>10
  <2> QED BY <2>2, <2>3, <2>4, <2>5, <2>6, <2>7, <2>8, <2>9, SameRefs
<1> QED BY <1>6, <1>7, <1>10

LEMMA CloseInv ==
  ASSUME IInv, NEW p \in Procs, Close(p)
  PROVE  IInv'
<1> DEFINE c == s[p]
           i == file[p]
<1>1. /\ c \in CallStates /\ c.put = <<>> /\ c.dp = 0
      /\ ~HoldsIp(c) /\ ~HoldsDp(c) /\ \A j \in Inums : ~LockedBy(c, j)
  BY UserFacts DEF Close
<1>2. /\ disk' \in Disks /\ durable' \in Disks /\ ic' \in [Inums -> Entries]
      /\ ic' = ic /\ cwd' = cwd /\ i \in Inums /\ cwd[p] \in Inums
      /\ Fail(p, "end", <<i>>) /\ file' = [file EXCEPT ![p] = 0]
  BY CallFacts DEF Close
<1> DEFINE l == "end"
           e == Put1(c, l, i)
<1>3. s' = [s EXCEPT ![p] = e]
  BY <1>2 DEF Fail, Put1
<1>4. e \in CallStates /\ e.pc = "end" /\ Len(e.put) = 1 /\ e.put[1] = i
  <2>1. c \in CallStates /\ l \in Pcs /\ l = "end"
    BY <1>1 DEF Pcs
  <2> HIDE DEF c, l, i
  <2> QED BY <1>2, <2>1, EditPut1
<1> HIDE DEF e
<1>5. CallOK(e) /\ ~HoldsIp(e) /\ ~HoldsDp(e) /\ Len(e.put) <= 2
  BY <1>4 DEF CallOK, HoldsIp, HoldsDp, Doing
<1>6. s'[p] = e /\ s' = [s EXCEPT ![p] = s'[p]]
  BY <1>3, NewLocals
<1>7. file' = [file EXCEPT ![p] = file'[p]] /\ file'[p] = 0
  BY <1>2 DEF IInv, TypeOK
<1>8. cwd' = [cwd EXCEPT ![p] = cwd'[p]] /\ cwd'[p] = cwd[p]
  BY <1>2, CallFacts
<1>9. \A j \in Inums : Owns(e, cwd[p], 0, j) = Owns(c, cwd[p], file[p], j)
  BY <1>1, <1>2, <1>4, <1>5, InumFacts DEF Owns, One
<1>10. \A j \in Inums : ic'[j].ref = ic[j].ref + Owns(s'[p], cwd'[p], file'[p], j)
                                               - Owns(s[p], cwd[p], file[p], j)
  BY <1>2, <1>6, <1>7, <1>8, <1>9, OwnsType, CallFacts
<1>11. /\ s'[p] \in CallStates /\ Len(s'[p].put) <= 2 /\ CallOK(s'[p]) /\ ~HoldsIp(s'[p])
       /\ cwd'[p] \in Inums /\ file'[p] \in Inums \cup {0}
  BY <1>2, <1>4, <1>5, <1>6, <1>7, <1>8
<1>12. \A j \in Inums : ic'[j].lock = ic[j].lock /\ ~LockedBy(s[p], j)
  BY <1>1, <1>2
<1> QED BY <1>2, <1>6, <1>7, <1>8, <1>10, <1>11, <1>12, StepInv

\* A call starts: the locals that namex() works with, and what the call is.
NewCall(c, t, i) ==
  [c EXCEPT !.pc = "namex", !.path = t.path, !.parent = t.parent, !.then = t.then, !.ip = i,
            !.name = t.name, !.call = t.call, !.path2 = t.path2, !.type = t.type]

SetPathOf(c, l, q, b, h) == [c EXCEPT !.pc = l, !.path = q, !.parent = b, !.then = h]
SetIpName(c, i, n) == [c EXCEPT !.ip = i, !.name = n]
SetWhich(c, a, r, y) == [c EXCEPT !.call = a, !.path2 = r, !.type = y]

LEMMA EditIpName ==
  ASSUME NEW c \in CallStates, NEW i \in Inums, NEW n \in Names \cup Dots
  PROVE  LET x == SetIpName(c, i, n) IN
         /\ x \in CallStates /\ x.ip = i /\ x.pc = c.pc /\ x.then = c.then
         /\ x.put = c.put /\ x.dp = c.dp
BY ZenonT(30) DEF CallStates, SetIpName

LEMMA EditWhich ==
  ASSUME NEW c \in CallStates, NEW a \in CallNames, NEW r \in Targets,
         NEW y \in {"file", "dir", "dev"}
  PROVE  LET x == SetWhich(c, a, r, y) IN
         /\ x \in CallStates /\ x.call = a /\ x.path2 = r /\ x.ip = c.ip /\ x.pc = c.pc
         /\ x.then = c.then /\ x.put = c.put /\ x.dp = c.dp
BY ZenonT(30) DEF CallStates, SetWhich

LEMMA EditCall ==
  ASSUME NEW c \in CallStates, NEW t \in Calls, NEW i \in Inums
  PROVE  LET e == NewCall(c, t, i) IN
         /\ e \in CallStates /\ e.call = t.call /\ e.pc = "namex" /\ e.put = c.put
         /\ e.ip = i /\ e.dp = c.dp /\ e.path2 \in Targets /\ e.then \in Thens
<1> DEFINE q == t.path
           b == t.parent
           h == t.then
           n == t.name
           a == t.call
           r == t.path2
           y == t.type
           l == "namex"
           x == SetPathOf(c, l, q, b, h)
           z == SetIpName(x, i, n)
           e == SetWhich(z, a, r, y)
<1>1. /\ a \in CallNames /\ h \in Thens /\ r \in Targets /\ b \in BOOLEAN
      /\ n \in Names \cup Dots /\ y \in {"file", "dir", "dev"} /\ l \in Pcs
  BY FsAssumption DEF Dots, Pcs
<1>2. q \in Seq(Names \cup Dots)
  <2>1. [abs |-> t.abs, path |-> t.path] \in Targets
    BY FsAssumption
  <2> QED BY <2>1 DEF Targets, Dots
<1>3. NewCall(c, t, i) = e
  BY DEF NewCall, SetPathOf, SetIpName, SetWhich
<1>4. l = "namex" /\ a = t.call
  OBVIOUS
<1> HIDE DEF q, b, h, n, a, r, y, l
<1>5. x \in CallStates /\ x.pc = l /\ x.then = h /\ x.put = c.put /\ x.dp = c.dp
  <2>1. x \in CallStates
    BY <1>1, <1>2 DEF CallStates, SetPathOf
  <2>2. x.pc = l /\ x.then = h /\ x.put = c.put /\ x.dp = c.dp
    BY DEF CallStates, SetPathOf
  <2> QED BY <2>1, <2>2
<1> HIDE DEF x
<1>6. /\ z \in CallStates /\ z.ip = i /\ z.pc = x.pc /\ z.then = x.then
      /\ z.put = x.put /\ z.dp = x.dp
  BY <1>1, <1>5, EditIpName
<1> HIDE DEF z
<1>7. /\ e \in CallStates /\ e.call = a /\ e.path2 = r /\ e.ip = z.ip /\ e.pc = z.pc
      /\ e.then = z.then /\ e.put = z.put /\ e.dp = z.dp
  BY <1>1, <1>6, EditWhich
<1> HIDE DEF e
<1> QED BY <1>1, <1>3, <1>4, <1>5, <1>6, <1>7

LEMMA CallStepInv ==
  ASSUME IInv, NEW p \in Procs, NEW t \in Calls, Call(p, t)
  PROVE  IInv'
<1> DEFINE c == s[p]
           i == IF t.abs THEN ROOTINO ELSE cwd[p]
           e == NewCall(c, t, i)
<1>1. /\ c \in CallStates /\ c.put = <<>> /\ c.dp = 0
      /\ ~HoldsIp(c) /\ ~HoldsDp(c) /\ \A j \in Inums : ~LockedBy(c, j)
  BY UserFacts DEF Call
<1>2. /\ disk' \in Disks /\ durable' \in Disks /\ ic \in [Inums -> Entries]
      /\ cwd' = cwd /\ file' = file /\ cwd[p] \in Inums /\ file[p] \in Inums \cup {0}
      /\ i \in Inums /\ \A j \in Inums : ic[j].ref \in Nat
  BY CallFacts, InumFacts DEF Call
<1>3. ic' = iget(ic, i) /\ s' = [s EXCEPT ![p] = e]
  BY DEF Call, StartPath, NewCall
<1> HIDE DEF i
<1>4. /\ e \in CallStates /\ e.call = t.call /\ e.pc = "namex" /\ e.put = c.put
      /\ e.ip = i /\ e.dp = c.dp /\ e.path2 \in Targets /\ e.then \in Thens
  <2> HIDE DEF c
  <2> QED BY <1>1, <1>2, EditCall
<1> HIDE DEF e
<1>5. /\ CallOK(e) /\ HoldsIp(e) /\ HoldsDp(e) /\ e.put = <<>> /\ Len(e.put) <= 2
      /\ e.dp = 0
  BY <1>1, <1>2, <1>4, InumFacts DEF CallOK, HoldsIp, HoldsDp, Doing, Thens
<1>6. s'[p] = e /\ s' = [s EXCEPT ![p] = s'[p]]
  BY <1>3, NewLocals
<1>7. file' = [file EXCEPT ![p] = file'[p]] /\ file'[p] = file[p]
      /\ cwd' = [cwd EXCEPT ![p] = cwd'[p]] /\ cwd'[p] = cwd[p]
  BY <1>2, CallFacts
<1>8. \A j \in Inums : Owns(e, cwd[p], file[p], j) = Owns(c, cwd[p], file[p], j) + One(i = j)
  BY <1>1, <1>4, <1>5, InumFacts DEF Owns, One
<1>9. /\ ic' \in [Inums -> Entries]
      /\ \A j \in Inums : ic'[j].lock = ic[j].lock /\ ic'[j].ref = ic[j].ref + One(i = j)
  BY <1>2, <1>3, IgetType
<1>10. \A j \in Inums : ic'[j].ref = ic[j].ref + Owns(s'[p], cwd'[p], file'[p], j)
                                               - Owns(s[p], cwd[p], file[p], j)
  BY <1>2, <1>6, <1>7, <1>8, <1>9, OwnsType DEF One
<1>11. /\ s'[p] \in CallStates /\ Len(s'[p].put) <= 2 /\ CallOK(s'[p])
       /\ cwd'[p] \in Inums /\ file'[p] \in Inums \cup {0}
  BY <1>2, <1>4, <1>5, <1>6, <1>7
<1>12. s'[p].call = "open" => file'[p] = 0
  BY <1>4, <1>6, <1>7 DEF Call
<1>13. \A j \in Inums : ic'[j].lock = ic[j].lock /\ ~LockedBy(s[p], j)
  BY <1>1, <1>9
<1> QED BY <1>2, <1>6, <1>7, <1>9, <1>10, <1>11, <1>12, <1>13, StepInv

-----------------------------------------------------------------------------
(* mkfs, crashes, and every step.                                            *)

LEMMA MkfsType == mkfs \in Disks
<1> DEFINE ino == [i \in Inums |->
                     CASE i = ROOTINO -> [type |-> "dir", nlink |-> 1, blk |-> 1]
                       [] i = 2       -> [type |-> "file", nlink |-> 1, blk |-> 2]
                       [] OTHER       -> FreeInode]
           root == [n \in Names \cup Dots |-> CASE n \in Dots -> ROOTINO
                                                [] n = GivenFile -> 2
                                                [] OTHER -> 0]
           data == [b \in 0..NBLOCKS |-> IF b # 1 THEN Zeroed ELSE root]
           lost == [i \in Inums |-> 0]
           used == {1, 2}
<1>1. 0 \in 0..NBLOCKS /\ 1 \in 0..NBLOCKS /\ 2 \in 0..NBLOCKS
  BY FsAssumption
<1>2. 0 \in 0..NINODES - 1 /\ 1 \in 0..NINODES - 1 /\ 2 \in 0..NINODES - 1
  BY FsAssumption
<1>3. ino \in [Inums -> [type : Types, nlink : Int, blk : 0..NBLOCKS]]
  <2>1. ASSUME NEW i \in Inums
        PROVE  ino[i] \in [type : Types, nlink : Int, blk : 0..NBLOCKS]
    BY <1>1 DEF FreeInode, Types
  <2> QED BY <2>1
<1>4. root \in [Names \cup Dots -> 0..NINODES - 1]
  BY <1>2 DEF ROOTINO
<1>5. Zeroed \in [Names \cup Dots -> 0..NINODES - 1]
  BY <1>2 DEF Zeroed
<1> HIDE DEF root
<1>6. data \in [0..NBLOCKS -> [Names \cup Dots -> 0..NINODES - 1]]
  BY <1>4, <1>5
<1>7. used \in SUBSET Blocks /\ lost \in [Inums -> Nat]
  BY FsAssumption DEF Blocks
<1>8. mkfs = [ino |-> ino, data |-> data, used |-> used, lost |-> lost]
  BY DEF mkfs, root
<1> HIDE DEF ino, data, used, lost
<1> QED BY <1>3, <1>6, <1>7, <1>8 DEF Disks

LEMMA RunInv == Running /\ disk \in Disks /\ durable \in Disks => IInv
BY RunningInv

LEMMA CrashInv ==
  ASSUME IInv, Crash
  PROVE  IInv'
<1>1. Running' /\ disk' \in Disks /\ durable' \in Disks
  <2>1. durable \in Disks
    BY DEF IInv, TypeOK
  <2> QED BY <2>1 DEF Crash, Running
<1>2. (Running /\ disk \in Disks /\ durable \in Disks => IInv)'
  BY RunInv, PTL
<1> QED BY <1>1, <1>2

LEMMA InitInv == Init => IInv
BY MkfsType, RunInv DEF Init

LEMMA NextInv ==
  ASSUME IInv, [Next]_vars
  PROVE  IInv'
<1>1. ASSUME NEW p \in Procs, Step(p)
      PROVE  IInv'
  BY <1>1, NamexEndInv, NamexStepInv, IputInv, IputLastInv, ItruncInv, IfreeInv, IputRefInv, EndOpInv,
     LinkOldInv, LinkNewInv, LinkBadInv, UnlinkDirInv, UnlinkInodeInv, UnlinkFinInv,
     CreateParentInv, CreateFoundInv, CreateInodeInv, OpenedInv, OpenInodeInv, ChdirInv,
     WriteInv, CloseInv DEF Step
<1>2. ASSUME NEW p \in Procs, NEW t \in Calls, Call(p, t)
      PROVE  IInv'
  BY <1>2, CallStepInv
<1>3. CASE Crash
  BY <1>3, CrashInv
<1>4. CASE UNCHANGED vars
  BY <1>4, SameInv DEF vars
<1> QED BY <1>1, <1>2, <1>3, <1>4 DEF Next

\* In every state of fs.c and sysfile.c, crashes and panics included, the locals of a
\* call fit how far it is, inodes are locked by calls that point to them, and ip->ref
\* counts the pointers.
THEOREM FsInvariant == Spec => []IInv
<1>1. Init => IInv
  BY InitInv
<1>2. IInv /\ [Next]_vars => IInv'
  BY NextInv
<1> QED BY <1>1, <1>2, PTL DEF Spec

\* For every number of processes, inodes and blocks, and whatever the calls and the
\* crashes: the disk, icache and the locals of the calls of fs.c and sysfile.c stay
\* in their types; no iput() takes ip->ref below zero, no entry of a directory is
\* out of the inode table, and no call ever has more than two inodes to put.
THEOREM FsTypeCorrect == Spec => []TypeOK
<1>1. IInv => TypeOK
  BY DEF IInv
<1> QED BY <1>1, FsInvariant, PTL

\* ip->ref is exactly the number of pointers to the inode, in every state: no path of
\* namex(), create(), sys_link(), sys_unlink(), sys_open() or sys_chdir(), the failing
\* ones included, leaks a reference or puts one that is not its own.
THEOREM FsRefsCounted == Spec => []RefsCounted
<1>1. IInv => RefsCounted
  BY DEF IInv
<1> QED BY <1>1, FsInvariant, PTL

\* A process that is to put the only reference to an inode finds it unlocked: who
\* holds the lock points to the inode, and that would be a second reference.
LEMMA LastUnlocked == IInv => LastPutUnlocked
<1> SUFFICES ASSUME IInv, NEW p \in Procs, s[p].put # <<>>, s[p].pc \notin Freeing,
                    Last(Head(s[p].put)), ~CanLock(Head(s[p].put))
             PROVE  FALSE
  BY DEF LastPutUnlocked
<1> DEFINE i == Head(s[p].put)
           q == ic[i].lock
<1>1. s[p].put \in Seq(Inums) /\ Len(s[p].put) <= 2
  BY CallFacts
<1>2. i = s[p].put[1] /\ i \in Inums /\ Len(s[p].put) \in 1..2
  BY <1>1, PutFacts
<1>3. q \in Procs /\ LockedBy(s[q], i)
  BY <1>2 DEF CanLock, IInv, LockInv
<1>4. Refs(i) = 1
  BY <1>2, RefsSplit DEF Last, LastTest, IInv
<1>5. /\ <<p, 1>> \in InPut(i) /\ IsFiniteSet(InPut(i))
      /\ IsFiniteSet(Ips(i)) /\ IsFiniteSet(Dps(i))
  <2>1. InPut(i) \subseteq Procs \X (1..2) /\ Ips(i) \subseteq Procs /\ Dps(i) \subseteq Procs
    BY DEF InPut, Ips, Dps
  <2>2. <<p, 1>> \in InPut(i)
    BY <1>2 DEF InPut
  <2> QED BY <2>1, <2>2, FiniteParts, FS_Subset
<1>6. /\ Cardinality(Cwds(i)) \in Nat /\ Cardinality(Open(i)) \in Nat
      /\ Cardinality(Ips(i)) \in Nat /\ Cardinality(Dps(i)) \in Nat
      /\ Cardinality(InPut(i)) \in Nat
  BY CountsAreNat
<1>7. Cardinality(InPut(i)) >= 1 /\ (Cardinality(InPut(i)) = 1 => \A y \in InPut(i) : y = <<p, 1>>)
  BY <1>5, CountOne
<1>8. Cardinality(InPut(i)) = 1 /\ Cardinality(Ips(i)) = 0 /\ Cardinality(Dps(i)) = 0
  BY <1>4, <1>6, <1>7 DEF Refs
<1>9. CASE Doing(s[q]) \in {"create_ip", "unlink_ip"} /\ s[q].dp = i
  <2>1. q \in Dps(i)
    BY <1>3, <1>9 DEF Dps, HoldsDp
  <2> QED BY <1>5, <1>8, <2>1, CountOne
<1>10. CASE Doing(s[q]) \in {"opened", "unlink_fin"} /\ s[q].ip = i
  <2>1. q \in Ips(i)
    BY <1>3, <1>10 DEF Ips, HoldsIp
  <2> QED BY <1>5, <1>8, <2>1, CountOne
<1>11. CASE s[q].pc \in {"itrunc", "ifree"} /\ Head(s[q].put) = i
  <2>1. s[q].put \in Seq(Inums) /\ Len(s[q].put) <= 2 /\ CallOK(s[q])
    BY <1>3, CallFacts
  <2>2. s[q].put # <<>>
    BY <1>11, <2>1 DEF CallOK
  <2>3. s[q].put[1] = i /\ Len(s[q].put) \in 1..2
    BY <1>11, <2>1, <2>2, PutFacts
  <2>4. <<q, 1>> \in InPut(i)
    <3> HIDE DEF i, q
    <3> QED BY <1>3, <2>3 DEF InPut
  <2>5. p # q
    BY <1>11
  <2> QED BY <1>7, <1>8, <2>4, <2>5
<1> QED BY <1>3, <1>9, <1>10, <1>11 DEF LockedBy

\* iput() relies on it: "ip->ref == 1 means no other process can have ip locked, so
\* this acquiresleep() won't block" (or deadlock), and it does so for any number of
\* processes and any interleaving of the calls.
THEOREM LastPutIsUnlocked == Spec => []LastPutUnlocked
BY LastUnlocked, FsInvariant, PTL
=============================================================================
