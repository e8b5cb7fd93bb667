---------------------------- MODULE BcacheProofs ----------------------------
(* Invariance proofs for Bcache, for every set of processes and blocks,    *)
(* every NBUF and every bound on the pins.                                 *)
(*                                                                         *)
(* IInv strengthens the properties: LockInv reads the holder of a sleep    *)
(* lock off the pcs; DataInv and DiskInv say that the cache is never       *)
(* behind and the disk is behind only for pinned blocks, so that what      *)
(* bget() recycles can be read again; RingInv numbers the list.            *)
EXTENDS Bcache, ArithFacts, FiniteSetTheorems, TLAPS

\* A process has a buffer and the number of a block from bget() to brelse().
HoldInv ==
  \A p \in Procs : /\ At(p, "idle") <=> hold[p] = head
                   /\ ~At(p, "idle") => want[p] \in Blocks

\* A sleep lock is held exactly by the process between acquiresleep() and
\* releasesleep() of the buffer.
LockInv ==
  \A b \in Bufs, p \in Procs : locked[b] = p <=> pc[p] \in Owner /\ hold[p] = b

\* Who sleeps in acquiresleep() sleeps for a lock that is held.
SleepInv ==
  \A p \in Procs : asleep[p] => At(p, "lock") /\ locked[hold[p]] # NoProc

\* A buffer that has been read holds the content its block should have, and so
\* does every buffer somebody uses or the log has pinned.
DataInv ==
  /\ \A b \in Bufs : valid[b] => /\ block[b] \in Blocks
                                 /\ data[b] = latest[block[b]]
  /\ \A b \in pinned : valid[b]
  /\ \A p \in Procs : pc[p] \in {"use", "writing", "unpin"} => valid[hold[p]]
  /\ \A p \in Procs : At(p, "reading") => ~valid[hold[p]]

\* The disk is behind the cache only for a pinned block that has not been
\* installed.
DiskInv ==
  /\ \A k \in Blocks : (\A b \in pinned : block[b] # k) => disk[k] = latest[k]
  /\ \A p \in Procs : pc[p] \in {"writing", "unpin"} => hold[p] \in pinned
  /\ \A p \in Procs : At(p, "unpin") => disk[want[p]] = latest[want[p]]

\* r numbers the nodes in the order of the list, from head.
IsRing(r) ==
  /\ r \in [0..NBUF -> Nodes] /\ r[0] = head
  /\ \A i, j \in 0..NBUF : r[i] = r[j] => i = j
  /\ \A x \in Nodes : \E i \in 0..NBUF : r[i] = x
  /\ \A i \in 0..NBUF : next[r[i]] = IF i = NBUF THEN head ELSE r[i + 1]

RingInv ==
  /\ \A x \in Nodes : next[prev[x]] = x /\ prev[next[x]] = x
  /\ \E r \in [0..NBUF -> Nodes] : IsRing(r)

IInv == /\ TypeOK /\ HoldInv /\ LockInv /\ SleepInv /\ IdentityStable
        /\ RefsCounted /\ DataInv /\ DiskInv /\ RingInv

\* A step of one process.
Step(p) ==
  \/ \E k \in Blocks : bgetCached(p, k)
  \/ \E k \in Blocks : bgetRecycle(p, k)
  \/ acquiresleep(p) \/ SleepOnBuf(p) \/ ReadHit(p) \/ ReadStart(p)
  \/ ReadDone(p) \/ Modify(p) \/ WriteStart(p) \/ WriteDone(p) \/ bunpin(p)
  \/ releasesleep(p) \/ brelse(p)

-----------------------------------------------------------------------------
(* The processes that have or wait for a buffer are counted one at a time. *)

\* The processes that have buffer b or wait for it, when h[p] is p's buffer.
Users(h, b) == {p \in Procs : h[p] = b}

\* RefsCounted in terms of Users.
CountInv(h, ref, pins) ==
  \A b \in Bufs : ref[b] = IF b \in pins THEN Cardinality(Users(h, b)) + 1
                           ELSE Cardinality(Users(h, b))

\* The users of a buffer are finitely many, so their number is a number.
LEMMA UsersFinite ==
  ASSUME NEW h, NEW b
  PROVE  IsFiniteSet(Users(h, b)) /\ Cardinality(Users(h, b)) \in Nat
<1>1. IsFiniteSet(Users(h, b))
  BY BcacheAssumption, FS_Subset, Users(h, b) \in SUBSET Procs DEF Users
<1> QED BY <1>1, FS_CardinalityType

\* bget() adds its caller to the users of the buffer it returns.
LEMMA UserAdded ==
  ASSUME NEW h \in [Procs -> Nodes], NEW p \in Procs, NEW b \in Bufs,
         h[p] = head, NEW c \in Bufs
  PROVE  Cardinality(Users([h EXCEPT ![p] = b], c)) =
           IF c = b THEN Cardinality(Users(h, c)) + 1
           ELSE Cardinality(Users(h, c))
<1> DEFINE U == Users(h, c)
           V == Users([h EXCEPT ![p] = b], c)
<1>1. IsFiniteSet(U) /\ Cardinality(U) \in Nat
  BY UsersFinite
<1>2. p \notin U
  BY BcacheAssumption DEF Bufs, head, Users
<1>3. ASSUME c = b PROVE V = U \cup {p}
  BY <1>3 DEF Users
<1>4. ASSUME c # b PROVE V = U
  BY <1>2, <1>4, b # c DEF Users
<1>5. Cardinality(U \cup {p}) = Cardinality(U) + 1
  BY <1>1, <1>2, FS_AddElement
<1> HIDE DEF U, V
<1>6. Cardinality(V) = IF c = b THEN Cardinality(U) + 1 ELSE Cardinality(U)
  BY <1>1, <1>3, <1>4, <1>5
<1> QED BY <1>6 DEF U, V

\* brelse() takes its caller from the users of the buffer it gives back.
LEMMA UserRemoved ==
  ASSUME NEW h \in [Procs -> Nodes], NEW p \in Procs, h[p] \in Bufs,
         NEW c \in Bufs
  PROVE  Cardinality(Users([h EXCEPT ![p] = head], c)) =
           IF c = h[p] THEN Cardinality(Users(h, c)) - 1
           ELSE Cardinality(Users(h, c))
<1> DEFINE U == Users(h, c)
           V == Users([h EXCEPT ![p] = head], c)
<1>1. IsFiniteSet(U) /\ Cardinality(U) \in Nat
  BY UsersFinite
<1>2. head # c
  BY BcacheAssumption DEF Bufs, head
<1>3. ASSUME c = h[p] PROVE V = U \ {p} /\ p \in U
  BY <1>2, <1>3 DEF Users
<1>4. ASSUME c # h[p] PROVE V = U
  BY <1>2, <1>4 DEF Users
<1>5. ASSUME p \in U PROVE Cardinality(U \ {p}) = Cardinality(U) - 1
  BY <1>1, <1>5, FS_RemoveElement
<1> HIDE DEF U, V
<1>6. Cardinality(V) = IF c = h[p] THEN Cardinality(U) - 1 ELSE Cardinality(U)
  BY <1>1, <1>3, <1>4, <1>5
<1> QED BY <1>6 DEF U, V

\* The two ways to write a count are the same.
LEMMA CountForms ==
  ASSUME NEW h, NEW b, NEW pins
  PROVE  Cardinality(Users(h, b)) + (IF b \in pins THEN 1 ELSE 0) =
           IF b \in pins THEN Cardinality(Users(h, b)) + 1
           ELSE Cardinality(Users(h, b))
BY UsersFinite

\* RefsCounted says CountInv of the current state.
LEMMA RefsAreCounts ==
  RefsCounted <=> CountInv(hold, refcnt, pinned)
<1>1. RefsCounted <=>
        \A b \in Bufs : refcnt[b] = Cardinality(Users(hold, b))
                                    + (IF b \in pinned THEN 1 ELSE 0)
  BY DEF RefsCounted, Users
<1> QED BY <1>1, CountForms DEF CountInv

\* A buffer somebody has, waits for or has pinned has a count that is not 0:
\* bget() does not recycle it.
LEMMA UsedHasCount ==
  ASSUME IInv, NEW b \in Bufs
  PROVE  /\ \A p \in Procs : hold[p] = b => refcnt[b] > 0
         /\ b \in pinned => refcnt[b] > 0
<1> DEFINE U == Users(hold, b)
<1>1. IsFiniteSet(U) /\ Cardinality(U) \in Nat
  BY UsersFinite
<1>2. refcnt[b] = Cardinality(U) + (IF b \in pinned THEN 1 ELSE 0)
  BY DEF IInv, RefsCounted, Users
<1>3. ASSUME NEW p \in Procs, hold[p] = b PROVE Cardinality(U) > 0
  <2>1. U # {}
    BY <1>3 DEF Users
  <2>2. Cardinality(U) # 0
    BY <1>1, <2>1, FS_EmptySet
  <2> QED BY <1>1, <2>2
<1> HIDE DEF U
<1> QED BY <1>1, <1>2, <1>3

-----------------------------------------------------------------------------
(* Preservation, one conjunct of the invariant at a time.                  *)

\* Every process that is not idle has a buffer.
LEMMA HolderHasBuf ==
  ASSUME IInv, NEW p \in Procs, ~At(p, "idle")
  PROVE  hold[p] \in Bufs /\ want[p] \in Blocks /\ block[hold[p]] = want[p]
BY DEF IInv, HoldInv, IdentityStable, TypeOK, Nodes, head

\* Types.
LEMMA TypeStep ==
  ASSUME IInv, NEW p \in Procs, Step(p)
  PROVE  TypeOK'
<1> USE DEF IInv, TypeOK, At, Goto, list
<1>1. ASSUME NEW k \in Blocks, bgetCached(p, k) PROVE TypeOK'
  BY <1>1 DEF bgetCached, Nodes
<1>2. ASSUME NEW k \in Blocks, bgetRecycle(p, k) PROVE TypeOK'
  BY <1>2 DEF bgetRecycle, Nodes
<1>3. CASE acquiresleep(p)
  BY <1>3 DEF acquiresleep
<1>4. CASE SleepOnBuf(p) \/ ReadHit(p) \/ ReadStart(p) \/ WriteStart(p)
  BY <1>4 DEF SleepOnBuf, ReadHit, ReadStart, WriteStart
<1>5. CASE ReadDone(p)
  BY <1>5, HolderHasBuf DEF ReadDone
<1>6. CASE Modify(p)
  BY <1>6, HolderHasBuf DEF Modify
<1>7. CASE WriteDone(p)
  BY <1>7, HolderHasBuf DEF WriteDone
<1>8. CASE bunpin(p)
  <2>1. hold[p] \in Bufs /\ hold[p] \in pinned
    BY <1>8, HolderHasBuf DEF bunpin, DiskInv
  <2>2. refcnt[hold[p]] - 1 \in Nat
    BY <2>1, UsedHasCount
  <2> QED BY <1>8, <2>1, <2>2 DEF bunpin
<1>9. CASE releasesleep(p)
  BY <1>9 DEF releasesleep
<1>10. CASE brelse(p)
  <2>1. hold[p] \in Bufs
    BY <1>10, HolderHasBuf DEF brelse
  <2>2. refcnt[hold[p]] - 1 \in Nat
    BY <2>1, UsedHasCount
  <2>3. next' \in [Nodes -> Nodes] /\ prev' \in [Nodes -> Nodes]
    BY <1>10, <2>1 DEF brelse, MoveToFront, Nodes, head
  <2> QED BY <1>10, <2>1, <2>2, <2>3 DEF brelse, Nodes, head
<1> QED BY <1>1, <1>2, <1>3, <1>4, <1>5, <1>6, <1>7, <1>8, <1>9, <1>10
        DEF Step

\* Who has a buffer.
LEMMA HoldStep ==
  ASSUME IInv, NEW p \in Procs, Step(p)
  PROVE  HoldInv'
<1> USE BcacheAssumption DEF IInv, TypeOK, HoldInv, At, Goto, head, Bufs
<1>1. ASSUME NEW k \in Blocks, bgetCached(p, k) PROVE HoldInv'
  BY <1>1 DEF bgetCached
<1>2. ASSUME NEW k \in Blocks, bgetRecycle(p, k) PROVE HoldInv'
  BY <1>2 DEF bgetRecycle
<1>3. CASE brelse(p)
  BY <1>3 DEF brelse
<1>4. CASE SleepOnBuf(p) \/ Modify(p)
  BY <1>4 DEF SleepOnBuf, Modify
<1>5. CASE acquiresleep(p) \/ ReadHit(p) \/ ReadStart(p) \/ ReadDone(p)
  BY <1>5 DEF acquiresleep, ReadHit, ReadStart, ReadDone
<1>6. CASE WriteStart(p) \/ WriteDone(p) \/ bunpin(p) \/ releasesleep(p)
  BY <1>6 DEF WriteStart, WriteDone, bunpin, releasesleep
<1> QED BY <1>1, <1>2, <1>3, <1>4, <1>5, <1>6 DEF Step

\* Who holds a sleep lock.
LEMMA LockStep ==
  ASSUME IInv, NEW p \in Procs, Step(p)
  PROVE  LockInv'
<1> USE BcacheAssumption DEF IInv, TypeOK, LockInv, At, Goto, Owner
<1>1. ASSUME NEW k \in Blocks, bgetCached(p, k) PROVE LockInv'
  BY <1>1 DEF bgetCached
<1>2. ASSUME NEW k \in Blocks, bgetRecycle(p, k) PROVE LockInv'
  BY <1>2 DEF bgetRecycle
<1>3. CASE acquiresleep(p)
  BY <1>3, HolderHasBuf DEF acquiresleep
<1>4. CASE releasesleep(p)
  BY <1>4, HolderHasBuf DEF releasesleep
<1>5. CASE brelse(p)
  BY <1>5 DEF brelse
<1>6. CASE SleepOnBuf(p) \/ Modify(p)
  BY <1>6 DEF SleepOnBuf, Modify
<1>7. CASE ReadHit(p) \/ ReadStart(p) \/ ReadDone(p)
  BY <1>7 DEF ReadHit, ReadStart, ReadDone
<1>8. CASE WriteStart(p) \/ WriteDone(p) \/ bunpin(p)
  BY <1>8 DEF WriteStart, WriteDone, bunpin
<1> QED BY <1>1, <1>2, <1>3, <1>4, <1>5, <1>6, <1>7, <1>8 DEF Step

\* Who sleeps.
LEMMA SleepStep ==
  ASSUME IInv, NEW p \in Procs, Step(p)
  PROVE  SleepInv'
<1> USE BcacheAssumption DEF IInv, TypeOK, SleepInv, At, Goto
<1>1. ASSUME NEW k \in Blocks, bgetCached(p, k) PROVE SleepInv'
  BY <1>1 DEF bgetCached
<1>2. ASSUME NEW k \in Blocks, bgetRecycle(p, k) PROVE SleepInv'
  BY <1>2 DEF bgetRecycle
<1>3. CASE acquiresleep(p)
  BY <1>3, HolderHasBuf DEF acquiresleep
<1>4. CASE releasesleep(p)
  BY <1>4, HolderHasBuf DEF releasesleep
<1>5. CASE brelse(p)
  BY <1>5 DEF brelse
<1>6. CASE SleepOnBuf(p) \/ Modify(p)
  BY <1>6 DEF SleepOnBuf, Modify
<1>7. CASE ReadHit(p) \/ ReadStart(p) \/ ReadDone(p)
  BY <1>7 DEF ReadHit, ReadStart, ReadDone
<1>8. CASE WriteStart(p) \/ WriteDone(p) \/ bunpin(p)
  BY <1>8 DEF WriteStart, WriteDone, bunpin
<1> QED BY <1>1, <1>2, <1>3, <1>4, <1>5, <1>6, <1>7, <1>8 DEF Step

\* Which block a buffer holds.
LEMMA IdentityStep ==
  ASSUME IInv, NEW p \in Procs, Step(p)
  PROVE  IdentityStable'
<1> USE BcacheAssumption DEF IInv, TypeOK, IdentityStable, At, Goto
<1>1. ASSUME NEW k \in Blocks, bgetCached(p, k) PROVE IdentityStable'
  BY <1>1 DEF bgetCached
<1>2. ASSUME NEW k \in Blocks, bgetRecycle(p, k) PROVE IdentityStable'
  <2>1. PICK b \in Bufs : /\ refcnt[b] = 0
                          /\ block' = [block EXCEPT ![b] = k]
                          /\ hold' = [hold EXCEPT ![p] = b]
    BY <1>2 DEF bgetRecycle, Victim
  <2>2. \A q \in Procs : hold[q] # b
    BY <2>1, UsedHasCount
  <2>3. \A q \in Procs : pc'[q] # "idle" => block'[hold'[q]] = want'[q]
    BY <1>2, <2>1, <2>2, HolderHasBuf DEF bgetRecycle
  <2>4. \A c \in Bufs : block[c] # k
    BY <1>2 DEF bgetRecycle, Cached
  <2> QED BY <2>1, <2>3, <2>4
<1>3. CASE brelse(p)
  BY <1>3 DEF brelse
<1>4. CASE SleepOnBuf(p) \/ Modify(p)
  BY <1>4 DEF SleepOnBuf, Modify
<1>5. CASE acquiresleep(p) \/ ReadHit(p) \/ ReadStart(p) \/ ReadDone(p)
  BY <1>5 DEF acquiresleep, ReadHit, ReadStart, ReadDone
<1>6. CASE WriteStart(p) \/ WriteDone(p) \/ bunpin(p) \/ releasesleep(p)
  BY <1>6 DEF WriteStart, WriteDone, bunpin, releasesleep
<1> QED BY <1>1, <1>2, <1>3, <1>4, <1>5, <1>6 DEF Step

\* The counts.
LEMMA RefsStep ==
  ASSUME IInv, NEW p \in Procs, Step(p)
  PROVE  RefsCounted'
<1> USE BcacheAssumption DEF IInv, TypeOK, At, Goto
<1>0. CountInv(hold, refcnt, pinned)
  BY RefsAreCounts
<1> SUFFICES CountInv(hold', refcnt', pinned')
  <2>1. RefsCounted' <=>
          \A b \in Bufs : refcnt'[b] = Cardinality(Users(hold', b))
                                       + (IF b \in pinned' THEN 1 ELSE 0)
    BY DEF RefsCounted, Users
  <2> QED BY <2>1, CountForms DEF CountInv
<1> DEFINE Goal == CountInv(hold', refcnt', pinned')
<1>1. ASSUME NEW k \in Blocks, bgetCached(p, k) PROVE Goal
  <2>1. PICK b \in Bufs : /\ refcnt' = [refcnt EXCEPT ![b] = @ + 1]
                          /\ hold' = [hold EXCEPT ![p] = b]
    BY <1>1 DEF bgetCached
  <2>2. hold[p] = head
    BY <1>1 DEF bgetCached, HoldInv
  <2>3. pinned' = pinned
    BY <1>1 DEF bgetCached
  <2>4. ASSUME NEW c \in Bufs
        PROVE  Cardinality(Users(hold', c)) =
                 IF c = b THEN Cardinality(Users(hold, c)) + 1
                 ELSE Cardinality(Users(hold, c))
    <3>1. Cardinality(Users([hold EXCEPT ![p] = b], c)) =
            IF c = b THEN Cardinality(Users(hold, c)) + 1
            ELSE Cardinality(Users(hold, c))
      <4>1. hold \in [Procs -> Nodes]
        OBVIOUS
      <4> HIDE DEF IInv, TypeOK
      <4> QED BY <2>2, <4>1, UserAdded, ZenonT(40)
    <3> QED BY <2>1, <3>1
  <2> QED BY <1>0, <2>1, <2>3, <2>4, UsersFinite DEF CountInv
<1>2. ASSUME NEW k \in Blocks, bgetRecycle(p, k) PROVE Goal
  <2>1. PICK b \in Bufs : /\ refcnt[b] = 0
                          /\ refcnt' = [refcnt EXCEPT ![b] = 1]
                          /\ hold' = [hold EXCEPT ![p] = b]
    BY <1>2 DEF bgetRecycle, Victim
  <2>2. hold[p] = head
    BY <1>2 DEF bgetRecycle, HoldInv
  <2>3. pinned' = pinned
    BY <1>2 DEF bgetRecycle
  <2>4. ASSUME NEW c \in Bufs
        PROVE  Cardinality(Users(hold', c)) =
                 IF c = b THEN Cardinality(Users(hold, c)) + 1
                 ELSE Cardinality(Users(hold, c))
    <3>1. Cardinality(Users([hold EXCEPT ![p] = b], c)) =
            IF c = b THEN Cardinality(Users(hold, c)) + 1
            ELSE Cardinality(Users(hold, c))
      <4>1. hold \in [Procs -> Nodes]
        OBVIOUS
      <4> HIDE DEF IInv, TypeOK
      <4> QED BY <2>2, <4>1, UserAdded
    <3> QED BY <2>1, <3>1
  <2>5. b \notin pinned /\ Cardinality(Users(hold, b)) = 0
    BY <1>0, <2>1, UsersFinite DEF CountInv
  <2>6. ASSUME NEW c \in Bufs
        PROVE  refcnt'[c] = IF c \in pinned' THEN Cardinality(Users(hold', c)) + 1
                            ELSE Cardinality(Users(hold', c))
    <3>1. refcnt[c] = IF c \in pinned THEN Cardinality(Users(hold, c)) + 1
                      ELSE Cardinality(Users(hold, c))
      BY <1>0 DEF CountInv
    <3>2. refcnt'[c] = IF c = b THEN 1 ELSE refcnt[c]
      BY <2>1
    <3> QED BY <2>3, <2>4, <2>5, <3>1, <3>2
  <2> QED BY <2>6 DEF CountInv
<1>3. CASE brelse(p)
  <2>1. hold[p] \in Bufs
    BY <1>3, HolderHasBuf DEF brelse
  <2>2. /\ hold' = [hold EXCEPT ![p] = head]
        /\ refcnt' = [refcnt EXCEPT ![hold[p]] = @ - 1]
        /\ pinned' = pinned
    BY <1>3 DEF brelse
  <2>3. ASSUME NEW c \in Bufs
        PROVE  Cardinality(Users(hold', c)) =
                 IF c = hold[p] THEN Cardinality(Users(hold, c)) - 1
                 ELSE Cardinality(Users(hold, c))
    <3>1. Cardinality(Users([hold EXCEPT ![p] = head], c)) =
            IF c = hold[p] THEN Cardinality(Users(hold, c)) - 1
            ELSE Cardinality(Users(hold, c))
      BY <2>1, UserRemoved
    <3> QED BY <2>2, <3>1
  <2>4. ASSUME NEW c \in Bufs
        PROVE  refcnt'[c] = IF c \in pinned' THEN Cardinality(Users(hold', c)) + 1
                            ELSE Cardinality(Users(hold', c))
    <3>1. refcnt[c] = IF c \in pinned THEN Cardinality(Users(hold, c)) + 1
                      ELSE Cardinality(Users(hold, c))
      BY <1>0 DEF CountInv
    <3>2. Cardinality(Users(hold, c)) \in Nat
      BY UsersFinite
    <3>3. refcnt'[c] = (IF c = hold[p] THEN refcnt[c] - 1 ELSE refcnt[c])
          /\ pinned' = pinned
      BY <2>2
    <3> QED BY <2>3, <3>1, <3>2, <3>3
  <2> QED BY <2>4 DEF CountInv
<1>4. CASE Modify(p)
  <2>1. /\ hold' = hold /\ pinned' = pinned \cup {hold[p]}
        /\ refcnt' = IF hold[p] \in pinned THEN refcnt
                     ELSE [refcnt EXCEPT ![hold[p]] = @ + 1]
    BY <1>4 DEF Modify
  <2> QED BY <1>0, <2>1, UsersFinite DEF CountInv
<1>5. CASE bunpin(p)
  <2>1. hold[p] \in pinned
    BY <1>5 DEF bunpin, DiskInv
  <2>2. /\ hold' = hold /\ pinned' = pinned \ {hold[p]}
        /\ refcnt' = [refcnt EXCEPT ![hold[p]] = @ - 1]
    BY <1>5 DEF bunpin
  <2> QED BY <1>0, <2>1, <2>2, UsersFinite DEF CountInv
<1>6. CASE acquiresleep(p) \/ SleepOnBuf(p) \/ ReadHit(p) \/ ReadStart(p)
  BY <1>0, <1>6 DEF acquiresleep, SleepOnBuf, ReadHit, ReadStart
<1>7. CASE ReadDone(p) \/ WriteStart(p) \/ WriteDone(p) \/ releasesleep(p)
  BY <1>0, <1>7 DEF ReadDone, WriteStart, WriteDone, releasesleep
<1> QED BY <1>1, <1>2, <1>3, <1>4, <1>5, <1>6, <1>7 DEF Step

\* At most one process is past acquiresleep() for a buffer.
LEMMA OneOwner ==
  ASSUME IInv, NEW p \in Procs, NEW q \in Procs, pc[p] \in Owner,
         pc[q] \in Owner, hold[p] = hold[q]
  PROVE  p = q
<1>1. hold[p] \in Bufs
  BY HolderHasBuf DEF Owner, At
<1> QED BY <1>1 DEF IInv, LockInv

\* What the buffers hold.
LEMMA DataStep ==
  ASSUME IInv, NEW p \in Procs, Step(p)
  PROVE  DataInv'
<1> USE BcacheAssumption DEF IInv, TypeOK, DataInv, At, Goto
<1>1. ASSUME NEW k \in Blocks, bgetCached(p, k) PROVE DataInv'
  BY <1>1 DEF bgetCached
<1>2. ASSUME NEW k \in Blocks, bgetRecycle(p, k) PROVE DataInv'
  <2>1. PICK b \in Bufs : /\ refcnt[b] = 0
                          /\ block' = [block EXCEPT ![b] = k]
                          /\ valid' = [valid EXCEPT ![b] = FALSE]
                          /\ hold' = [hold EXCEPT ![p] = b]
    BY <1>2 DEF bgetRecycle, Victim
  <2>2. b \notin pinned /\ \A q \in Procs : hold[q] # b
    BY <2>1, UsedHasCount
  <2>3. \A q \in Procs : q # p /\ pc[q] # "idle" => hold[q] \in Bufs
    BY HolderHasBuf
  <2> QED BY <1>2, <2>1, <2>2, <2>3 DEF bgetRecycle
<1>3. CASE ReadDone(p)
  <2>1. hold[p] \in Bufs /\ want[p] \in Blocks /\ block[hold[p]] = want[p]
    BY <1>3, HolderHasBuf DEF ReadDone
  <2>2. hold[p] \notin pinned
    BY <1>3 DEF ReadDone
  <2>3. \A b \in pinned : block[b] # want[p]
    BY <2>1, <2>2 DEF IdentityStable
  <2>4. disk[want[p]] = latest[want[p]]
    BY <2>1, <2>3 DEF DiskInv
  <2>5. \A q \in Procs : pc[q] = "reading" /\ hold[q] = hold[p] => q = p
    BY <1>3, OneOwner DEF ReadDone, Owner
  <2> QED BY <1>3, <2>1, <2>4, <2>5 DEF ReadDone
<1>4. CASE Modify(p)
  <2>1. hold[p] \in Bufs /\ want[p] \in Blocks /\ block[hold[p]] = want[p]
    BY <1>4, HolderHasBuf DEF Modify
  <2>2. \A b \in Bufs : b # hold[p] => block[b] # want[p]
    BY <2>1 DEF IdentityStable
  <2> QED BY <1>4, <2>1, <2>2 DEF Modify
<1>5. CASE brelse(p)
  BY <1>5 DEF brelse
<1>6. CASE acquiresleep(p) \/ SleepOnBuf(p) \/ ReadHit(p) \/ ReadStart(p)
  BY <1>6 DEF acquiresleep, SleepOnBuf, ReadHit, ReadStart
<1>7. CASE WriteStart(p) \/ WriteDone(p) \/ bunpin(p) \/ releasesleep(p)
  BY <1>7 DEF WriteStart, WriteDone, bunpin, releasesleep
<1> QED BY <1>1, <1>2, <1>3, <1>4, <1>5, <1>6, <1>7 DEF Step

\* What is on the disk.
LEMMA DiskStep ==
  ASSUME IInv, NEW p \in Procs, Step(p)
  PROVE  DiskInv'
<1> USE BcacheAssumption DEF IInv, TypeOK, DiskInv, At, Goto
<1>1. ASSUME NEW k \in Blocks, bgetCached(p, k) PROVE DiskInv'
  BY <1>1 DEF bgetCached
<1>2. ASSUME NEW k \in Blocks, bgetRecycle(p, k) PROVE DiskInv'
  <2>1. PICK b \in Bufs : /\ refcnt[b] = 0
                          /\ block' = [block EXCEPT ![b] = k]
                          /\ hold' = [hold EXCEPT ![p] = b]
    BY <1>2 DEF bgetRecycle, Victim
  <2>2. b \notin pinned
    BY <2>1, UsedHasCount
  <2> QED BY <1>2, <2>1, <2>2 DEF bgetRecycle
<1>3. CASE Modify(p)
  <2>1. hold[p] \in Bufs /\ want[p] \in Blocks /\ block[hold[p]] = want[p]
    BY <1>3, HolderHasBuf DEF Modify
  <2>2. \A q \in Procs : pc[q] = "unpin" => want[q] # want[p]
    <3>1. SUFFICES ASSUME NEW q \in Procs, pc[q] = "unpin", want[q] = want[p]
                   PROVE  FALSE
      OBVIOUS
    <3>2. hold[q] \in Bufs /\ block[hold[q]] = want[q]
      BY <3>1, HolderHasBuf
    <3>3. hold[q] = hold[p]
      BY <2>1, <3>1, <3>2 DEF IdentityStable
    <3>4. q = p
      BY <1>3, <3>1, <3>3, OneOwner DEF Modify, Owner
    <3> QED BY <1>3, <3>1, <3>4 DEF Modify
  <2> QED BY <1>3, <2>1, <2>2 DEF Modify
<1>4. CASE WriteDone(p)
  <2>1. hold[p] \in Bufs /\ want[p] \in Blocks /\ block[hold[p]] = want[p]
    BY <1>4, HolderHasBuf DEF WriteDone
  <2>2. data[hold[p]] = latest[want[p]]
    BY <1>4, <2>1 DEF WriteDone, DataInv
  <2> QED BY <1>4, <2>1, <2>2 DEF WriteDone
<1>5. CASE bunpin(p)
  <2>1. hold[p] \in Bufs /\ want[p] \in Blocks /\ block[hold[p]] = want[p]
    BY <1>5, HolderHasBuf DEF bunpin
  <2>2. \A q \in Procs : pc[q] \in {"writing", "unpin"} /\ hold[q] = hold[p] => q = p
    BY <1>5, OneOwner DEF bunpin, Owner
  <2>3. disk[want[p]] = latest[want[p]]
    BY <1>5 DEF bunpin
  <2> QED BY <1>5, <2>1, <2>2, <2>3 DEF bunpin
<1>6. CASE brelse(p)
  BY <1>6 DEF brelse
<1>7. CASE acquiresleep(p) \/ SleepOnBuf(p) \/ ReadHit(p) \/ ReadStart(p)
  BY <1>7 DEF acquiresleep, SleepOnBuf, ReadHit, ReadStart
<1>8. CASE ReadDone(p) \/ WriteStart(p) \/ releasesleep(p)
  BY <1>8 DEF ReadDone, WriteStart, releasesleep
<1> QED BY <1>1, <1>2, <1>3, <1>4, <1>5, <1>6, <1>7, <1>8 DEF Step

-----------------------------------------------------------------------------
(* The list                                                                *)

\* Where the buffer that brelse() moves stands, and who its neighbours are.
LEMMA Neighbours ==
  ASSUME TypeOK, NEW r, IsRing(r), NEW b \in Bufs,
         \A x \in Nodes : next[prev[x]] = x /\ prev[next[x]] = x
  PROVE  \E k \in 1..NBUF :
           /\ r[k] = b /\ prev[b] = r[k - 1]
           /\ next[b] = IF k = NBUF THEN head ELSE r[k + 1]
<1> USE BcacheAssumption DEF TypeOK, IsRing, Bufs, Nodes, head
<1>1. PICK k \in 0..NBUF : r[k] = b
  OBVIOUS
<1>2. k \in 1..NBUF
  BY <1>1
<1>3. next[r[k - 1]] = r[k] /\ r[k - 1] \in Nodes
  BY <1>2, SMTT(30)
<1>4. prev[b] = r[k - 1]
  BY <1>1, <1>3
<1> QED BY <1>1, <1>2, <1>4

\* The six assignments of brelse(), as one function for each direction.
LEMMA MoveValues ==
  ASSUME TypeOK, NEW b \in Bufs, MoveToFront(b)
  PROVE  LET second == IF prev[b] = head THEN next[b] ELSE next[head]
         IN /\ next' = [x \in Nodes |-> IF x = head THEN b
                                        ELSE IF x = b THEN second
                                        ELSE IF x = prev[b] THEN next[b]
                                        ELSE next[x]]
            /\ prev' = [x \in Nodes |-> IF x = second THEN b
                                        ELSE IF x = b THEN head
                                        ELSE IF x = next[b] THEN prev[b]
                                        ELSE prev[x]]
<1> USE BcacheAssumption DEF TypeOK, Bufs, Nodes, head
<1> DEFINE next1 == [next EXCEPT ![prev[b]] = next[b]]
           second == IF prev[b] = head THEN next[b] ELSE next[head]
<1>1. next1[head] = second
  OBVIOUS
<1>2. /\ next' = [next1 EXCEPT ![b] = next1[head], ![head] = b]
      /\ prev' = [[[prev EXCEPT ![next[b]] = prev[b]] EXCEPT ![b] = head]
                    EXCEPT ![next1[head]] = b]
  BY DEF MoveToFront
<1> QED BY <1>1, <1>2

\* brelse() keeps the ring: the buffer becomes the first after head and the ones
\* that were before it move back by one.
LEMMA MoveKeepsRing ==
  ASSUME TypeOK, RingInv, NEW b \in Bufs, MoveToFront(b)
  PROVE  RingInv'
<1> USE BcacheAssumption
<1>1. PICK r \in [0..NBUF -> Nodes] : IsRing(r)
  BY DEF RingInv
<1>2. \A x \in Nodes : next[prev[x]] = x /\ prev[next[x]] = x
  BY DEF RingInv
<1>3. PICK k \in 1..NBUF : /\ r[k] = b /\ prev[b] = r[k - 1]
                           /\ next[b] = IF k = NBUF THEN head ELSE r[k + 1]
  BY <1>1, <1>2, Neighbours
<1> DEFINE second == IF prev[b] = head THEN next[b] ELSE next[head]
           nx == [x \in Nodes |-> IF x = head THEN b ELSE IF x = b THEN second
                                  ELSE IF x = prev[b] THEN next[b] ELSE next[x]]
           pv == [x \in Nodes |-> IF x = second THEN b ELSE IF x = b THEN head
                                  ELSE IF x = next[b] THEN prev[b] ELSE prev[x]]
           rr == [i \in 0..NBUF |-> IF i = 0 THEN head ELSE IF i = 1 THEN b
                                    ELSE IF i <= k THEN r[i - 1] ELSE r[i]]
<1>4. next' = nx /\ prev' = pv
  BY MoveValues
<1>5. /\ b \in Nodes /\ head \in Nodes /\ b # head
      /\ next[b] # b /\ prev[b] # b /\ next[b] \in Nodes /\ prev[b] \in Nodes
      /\ second \in Nodes /\ second # b
  <2>1. /\ b \in Nodes /\ head \in Nodes /\ b # head
        /\ next[b] \in Nodes /\ prev[b] \in Nodes /\ second \in Nodes
    BY DEF TypeOK, Bufs, Nodes, head
  <2>2. \A i \in 0..NBUF : i # k => r[i] # b
    BY <1>1, <1>3 DEF IsRing
  <2>3. next[b] # b /\ prev[b] # b
    BY <1>3, <2>1, <2>2
  <2>4. second # b
    BY <1>2, <2>1, <2>3
  <2> QED BY <2>1, <2>3, <2>4
<1>6. \A x \in Nodes : nx[pv[x]] = x /\ pv[nx[x]] = x
  BY <1>2, <1>5 DEF TypeOK
<1>7. rr \in [0..NBUF -> Nodes] /\ rr[0] = head
  BY <1>1, <1>5 DEF IsRing
<1>8. \A i, j \in 0..NBUF : rr[i] = rr[j] => i = j
  BY <1>1, <1>3 DEF IsRing
<1>9. \A x \in Nodes : \E i \in 0..NBUF : rr[i] = x
  <2>1. SUFFICES ASSUME NEW x \in Nodes PROVE \E i \in 0..NBUF : rr[i] = x
    OBVIOUS
  <2>2. PICK j \in 0..NBUF : r[j] = x
    BY <1>1 DEF IsRing
  <2>3. CASE j = 0
    BY <2>2, <2>3, <1>1 DEF IsRing
  <2>4. CASE j = k
    <3>1. rr[1] = x
      BY <1>3, <2>2, <2>4
    <3> QED BY <3>1
  <2>5. CASE j # 0 /\ j < k
    <3>1. rr[j + 1] = x /\ j + 1 \in 0..NBUF
      BY <2>2, <2>5
    <3> QED BY <3>1
  <2>6. CASE j > k
    <3>1. rr[j] = x
      BY <2>2, <2>6
    <3> QED BY <3>1
  <2> QED BY <2>3, <2>4, <2>5, <2>6
<1>10. \A i \in 0..NBUF : nx[rr[i]] = IF i = NBUF THEN head ELSE rr[i + 1]
  <2>1. SUFFICES ASSUME NEW i \in 0..NBUF
                 PROVE  nx[rr[i]] = IF i = NBUF THEN head ELSE rr[i + 1]
    OBVIOUS
  <2> USE DEF IsRing
  <2>2. CASE i = 0
    BY <1>1, <1>3, <1>5, <2>2
  <2>3. CASE i = 1
    BY <1>1, <1>3, <1>5, <2>3
  <2>4. CASE i > 1 /\ i < k
    <3>1. rr[i] = r[i - 1] /\ rr[i + 1] = r[i] /\ i # NBUF
      BY <2>4
    <3>2. i - 1 \in 0..NBUF /\ i - 1 # k /\ i - 1 # k - 1 /\ i - 1 # 0
      BY <2>4
    <3>3. r[i - 1] # b /\ r[i - 1] # prev[b] /\ r[i - 1] # head
      BY <1>1, <1>3, <3>2
    <3>4. next[r[i - 1]] = r[i] /\ r[i - 1] \in Nodes
      BY <1>1, <2>4, <3>2
    <3> QED BY <3>1, <3>3, <3>4
  <2>5. CASE i > 1 /\ i = k
    BY <1>1, <1>3, <1>5, <2>5
  <2>6. CASE i > 1 /\ i > k
    BY <1>1, <1>3, <1>5, <2>6
  <2> QED BY <2>2, <2>3, <2>4, <2>5, <2>6
<1>11. IsRing(rr)'
  BY <1>4, <1>7, <1>8, <1>9, <1>10 DEF IsRing
<1> HIDE DEF rr, nx, pv
<1> QED BY <1>4, <1>6, <1>7, <1>11 DEF RingInv

\* Every step keeps the ring.
LEMMA RingStep ==
  ASSUME IInv, NEW p \in Procs, Step(p)
  PROVE  RingInv'
<1>1. ASSUME UNCHANGED list PROVE RingInv'
  BY <1>1 DEF IInv, RingInv, IsRing, list
<1>2. CASE brelse(p)
  <2>1. hold[p] \in Bufs
    BY <1>2, HolderHasBuf DEF brelse, At
  <2>2. MoveToFront(hold[p]) \/ UNCHANGED list
    BY <1>2 DEF brelse
  <2> QED BY <1>1, <2>1, <2>2, MoveKeepsRing DEF IInv
<1>3. ASSUME NEW k \in Blocks, bgetCached(p, k) \/ bgetRecycle(p, k)
      PROVE  UNCHANGED list
  BY <1>3 DEF bgetCached, bgetRecycle
<1>4. CASE acquiresleep(p) \/ SleepOnBuf(p) \/ ReadHit(p) \/ ReadStart(p)
  BY <1>1, <1>4 DEF acquiresleep, SleepOnBuf, ReadHit, ReadStart
<1>5. CASE ReadDone(p) \/ Modify(p) \/ WriteStart(p) \/ WriteDone(p)
  BY <1>1, <1>5 DEF ReadDone, Modify, WriteStart, WriteDone
<1>6. CASE bunpin(p) \/ releasesleep(p)
  BY <1>1, <1>6 DEF bunpin, releasesleep
<1> QED BY <1>1, <1>2, <1>3, <1>4, <1>5, <1>6 DEF Step

\* What Walk() computes on a ring: its k-th node, for every k up to the last.
LEMMA WalkIsRing ==
  ASSUME NEW r, IsRing(r), TypeOK
  PROVE  \A j \in 0..NBUF : Walk(next, head, j) = r[j]
<1> USE BcacheAssumption
<1> DEFINE N == NBUF + 1
           Def(w) == [j \in Nat |-> IF j = 0 THEN head ELSE next[w[j - 1]]]
           G == [j \in Nat |-> r[j % N]]
           W == CHOOSE w : w = Def(w)
\* going round and round satisfies the recursion, so it has a solution
<1>1. G = Def(G)
  <2>1. G[0] = head
    <3>1. 0 % N = 0
      <4>1. N \in Nat \ {0} /\ 0 = N * 0 + 0 /\ 0 \in 0..N-1
        OBVIOUS
      <4> QED BY <4>1, ModUnique
    <3> QED BY <3>1 DEF IsRing
  <2>2. ASSUME NEW j \in Nat, j # 0 PROVE G[j] = next[G[j - 1]]
    <3> DEFINE m == (j - 1) % N
    <3>1. N \in Nat \ {0} /\ j - 1 \in Nat /\ (j - 1) + 1 = j
      BY <2>2
    <3>2. m \in 0..NBUF
      BY <3>1, ModDef
    <3>3. j % N = IF m = N - 1 THEN 0 ELSE m + 1
      BY <3>1, ModSucc
    <3>4. G[j] = r[j % N] /\ G[j - 1] = r[m]
      BY <3>1
    <3> HIDE DEF m, G
    <3> QED BY <3>2, <3>3, <3>4 DEF IsRing
  <2>3. G = [j \in Nat |-> G[j]]
    OBVIOUS
  <2> HIDE DEF G
  <2> QED BY <2>1, <2>2, <2>3
<1>2. W = Def(W)
  <2> HIDE DEF G, Def
  <2> QED BY <1>1
<1>3. \A j \in Nat : Walk(next, head, j) = W[j]
  BY DEF Walk
<1> HIDE DEF W
<1>4. /\ W[0] = head
      /\ \A n \in Nat : W[n + 1] = next[W[n]]
  <2>1. \A j \in Nat : W[j] = IF j = 0 THEN head ELSE next[W[j - 1]]
    BY <1>2
  <2>2. W[0] = head
    BY <2>1
  <2>3. ASSUME NEW n \in Nat PROVE W[n + 1] = next[W[n]]
    <3>1. n + 1 \in Nat /\ n + 1 # 0 /\ (n + 1) - 1 = n
      OBVIOUS
    <3> QED BY <2>1, <3>1
  <2> QED BY <2>2, <2>3
<1> DEFINE S == {n \in Nat : n <= NBUF => W[n] = r[n]}
<1>5. Nat \subseteq S
  <2>1. 0 \in S
    BY <1>4 DEF IsRing
  <2>2. ASSUME NEW n \in Nat, n \in S PROVE n + 1 \in S
    <3>1. SUFFICES ASSUME n + 1 <= NBUF PROVE W[n + 1] = r[n + 1]
      OBVIOUS
    <3>2. W[n] = r[n] /\ n \in 0..NBUF /\ n # NBUF
      BY <2>2, <3>1
    <3>3. next[r[n]] = r[n + 1]
      BY <3>2 DEF IsRing
    <3> QED BY <1>4, <3>2, <3>3
  <2> HIDE DEF S
  <2> QED BY <2>1, <2>2, SetInduction
<1> QED BY <1>3, <1>5

\* The ring invariant is what ListIntact says.
LEMMA RingIsList ==
  ASSUME TypeOK, RingInv
  PROVE  ListIntact
<1>1. PICK r \in [0..NBUF -> Nodes] : IsRing(r)
  BY DEF RingInv
<1>2. \A j \in 0..NBUF : Walk(next, head, j) = r[j]
  BY <1>1, WalkIsRing
<1>3. \A j \in 1..NBUF : Walk(next, head, j) \in Bufs
  BY <1>1, <1>2, BcacheAssumption DEF IsRing, Bufs, Nodes, head
<1>4. ASSUME NEW b \in Bufs PROVE \E j \in 1..NBUF : Walk(next, head, j) = b
  <2>1. PICK j \in 0..NBUF : r[j] = b
    BY <1>1 DEF IsRing, Nodes
  <2>2. j \in 1..NBUF
    BY <1>1, <2>1, BcacheAssumption DEF IsRing, Bufs, head
  <2> QED BY <1>2, <2>1, <2>2
<1>5. {Walk(next, head, j) : j \in 1..NBUF} = Bufs
  BY <1>3, <1>4
<1> QED BY <1>5 DEF RingInv, ListIntact

-----------------------------------------------------------------------------
(* The theorems                                                            *)

\* binit() establishes the invariant.
LEMMA InitInv ==
  ASSUME Init
  PROVE  IInv
<1> USE BcacheAssumption DEF Init, Bufs, Nodes, head
<1>1. TypeOK
  BY DEF TypeOK
<1>2. HoldInv /\ LockInv /\ SleepInv /\ IdentityStable
  BY DEF HoldInv, LockInv, SleepInv, IdentityStable, At, Owner
<1>3. DataInv /\ DiskInv
  BY DEF DataInv, DiskInv, At
<1>4. RefsCounted
  <2>1. ASSUME NEW b \in Bufs PROVE Users(hold, b) = {}
    BY <2>1 DEF Users
  <2>2. CountInv(hold, refcnt, pinned)
    BY <2>1, FS_EmptySet DEF CountInv
  <2> QED BY <2>2, RefsAreCounts
<1>5. RingInv
  <2> DEFINE r == [i \in 0..NBUF |-> IF i = 0 THEN 0 ELSE NBUF + 1 - i]
  <2>1. \A x \in Nodes : next[prev[x]] = x /\ prev[next[x]] = x
    OBVIOUS
  <2>2. \A x \in Nodes : \E i \in 0..NBUF : r[i] = x
    <3>1. SUFFICES ASSUME NEW x \in Nodes PROVE \E i \in 0..NBUF : r[i] = x
      OBVIOUS
    <3>2. CASE x = 0
      BY <3>2
    <3>3. CASE x # 0
      <4>1. NBUF + 1 - x \in 0..NBUF /\ r[NBUF + 1 - x] = x
        BY <3>3
      <4> QED BY <4>1
    <3> QED BY <3>2, <3>3
  <2>3. r \in [0..NBUF -> Nodes]
    OBVIOUS
  <2>4. IsRing(r)
    BY <2>2, <2>3 DEF IsRing
  <2> HIDE DEF r
  <2> QED BY <2>1, <2>3, <2>4 DEF RingInv
<1> QED BY <1>1, <1>2, <1>3, <1>4, <1>5 DEF IInv

\* Every step keeps the invariant.
LEMMA StepInv ==
  ASSUME IInv, [Next]_vars
  PROVE  IInv'
<1>1. CASE Next
  <2>1. PICK p \in Procs : Step(p)
    BY <1>1 DEF Next, Step
  <2> QED BY <2>1, TypeStep, HoldStep, LockStep, SleepStep, IdentityStep,
             RefsStep, DataStep, DiskStep, RingStep DEF IInv
<1>2. CASE UNCHANGED vars
  <2> USE <1>2 DEF IInv, vars, list
  <2>1. TypeOK' /\ HoldInv' /\ LockInv'
    BY DEF TypeOK, HoldInv, LockInv, At
  <2>2. SleepInv' /\ IdentityStable' /\ DataInv' /\ DiskInv'
    BY DEF SleepInv, IdentityStable, DataInv, DiskInv, At
  <2>3. RefsCounted'
    BY DEF RefsCounted
  <2>4. RingInv'
    BY DEF RingInv, IsRing
  <2> QED BY <2>1, <2>2, <2>3, <2>4
<1> QED BY <1>1, <1>2

\* The invariant holds throughout every behaviour of the cache.
THEOREM BcacheInvariant == Spec => []IInv
<1>1. Init => IInv
  BY InitInv
<1>2. IInv /\ [Next]_vars => IInv'
  BY StepInv
<1> QED BY <1>1, <1>2, PTL DEF Spec

\* Buffers, list pointers, locks and locals of bio.c have their types.
THEOREM BcacheTypeCorrect == Spec => []TypeOK
<1>1. IInv => TypeOK
  BY DEF IInv
<1> QED BY <1>1, BcacheInvariant, PTL

\* The bookkeeping of bio.c is sound for any number of buffers, processes and
\* blocks: one buffer per block, one process per buffer, exact reference counts,
\* and a list that brelse() never breaks.
THEOREM CacheIsSound == Spec => []CacheSound
<1>1. IInv => CacheSound
  <2>1. IInv => ExclusiveUse
    BY OneOwner DEF ExclusiveUse
  <2>2. IInv => ListIntact
    BY RingIsList DEF IInv
  <2> QED BY <2>1, <2>2 DEF CacheSound, IInv
<1> QED BY <1>1, BcacheInvariant, PTL

\* bread() returns what was last written to the block, through whatever buffer and
\* by whatever process.
THEOREM ReadsLatest == Spec => []Coherent
<1>1. IInv => Coherent
  <2>1. SUFFICES ASSUME IInv, NEW p \in Procs, At(p, "use")
                 PROVE  data[hold[p]] = latest[want[p]]
    BY DEF Coherent
  <2>2. hold[p] \in Bufs /\ block[hold[p]] = want[p]
    BY <2>1, HolderHasBuf DEF At
  <2> QED BY <2>1, <2>2 DEF IInv, DataInv, At
<1> QED BY <1>1, BcacheInvariant, PTL

\* Nobody sleeps in acquiresleep() for a buffer that is free.
THEOREM SleepersHaveHolders == Spec => []SleeperHasHolder
<1>1. IInv => SleeperHasHolder
  <2>1. SUFFICES ASSUME IInv, NEW p \in Procs, asleep[p]
                 PROVE  \E q \in Procs : /\ locked[hold[p]] = q
                                         /\ hold[q] = hold[p] /\ pc[q] \in Owner
    BY DEF SleeperHasHolder
  <2>2. hold[p] \in Bufs
    BY <2>1, HolderHasBuf DEF IInv, SleepInv, At
  <2>3. PICK q \in Procs : locked[hold[p]] = q
    BY <2>1, <2>2 DEF IInv, SleepInv, TypeOK
  <2> QED BY <2>1, <2>2, <2>3 DEF IInv, LockInv
<1> QED BY <1>1, BcacheInvariant, PTL
=============================================================================
