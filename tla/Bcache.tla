------------------------------- MODULE Bcache -------------------------------
(* The buffer cache of bio.c with the sleep locks of sleeplock.c, used by   *)
(* processes that read blocks, change them the way log_write() wants        *)
(* (pinned until they are installed) and release them.  A step is a section *)
(* of bcache.lock or of a sleep lock's spin lock; a disk transfer is two    *)
(* steps, since virtio_disk_rw() sleeps.                                    *)
EXTENDS Integers, FiniteSets

CONSTANTS Procs, NoProc,
          Blocks, NoBlock,
          NBUF,
          Values,      \* contents of a block
          MaxPins      \* bound: blocks in the log at a time

ASSUME BcacheAssumption ==
  /\ NoProc \notin Procs /\ NoBlock \notin Blocks
  /\ IsFiniteSet(Procs)
  /\ NBUF \in Nat \ {0} /\ MaxPins \in Nat
  /\ Values # {}

Bufs == 1..NBUF
head == 0               \* bcache.head, which is in the list and holds no block
Nodes == Bufs \cup {head}

VARIABLES block, valid, refcnt, data,   \* struct buf
          next, prev,                   \* the list through bcache.head
          locked,      \* the holder of b->lock
          pinned,      \* buffers the log has called bpin() for
          disk,        \* contents of the disk
          latest,      \* history: the content each block should have
          pc,
          want, hold,  \* the block a process asked for and its buffer
          asleep       \* SLEEPING in acquiresleep()

list == <<next, prev>>
vars == <<block, valid, refcnt, data, list, locked, pinned, disk, latest, pc,
          want, hold, asleep>>

At(p, l) == pc[p] = l
Goto(p, l) == pc' = [pc EXCEPT ![p] = l]

\* binit() puts each buffer at the front of the list.
Init ==
  /\ block = [b \in Bufs |-> NoBlock]
  /\ valid = [b \in Bufs |-> FALSE]
  /\ refcnt = [b \in Bufs |-> 0]
  /\ \E v \in Values : data = [b \in Bufs |-> v]
  /\ next = [x \in Nodes |-> IF x = head THEN NBUF ELSE x - 1]
  /\ prev = [x \in Nodes |-> IF x = NBUF THEN head ELSE x + 1]
  /\ locked = [b \in Bufs |-> NoProc]
  /\ pinned = {}
  /\ disk \in [Blocks -> Values]
  /\ latest = disk
  /\ pc = [p \in Procs |-> "idle"]
  /\ want = [p \in Procs |-> NoBlock]
  /\ hold = [p \in Procs |-> head]
  /\ asleep = [p \in Procs |-> FALSE]

-----------------------------------------------------------------------------
(* bget() and acquiresleep()                                               *)

\* k steps from x along the list s.
Walk(s, x, k) ==
  LET w[j \in Nat] == IF j = 0 THEN x ELSE s[w[j - 1]] IN w[k]

Cached(k) == \E b \in Bufs : block[b] = k

\* The buffer bget() recycles: the first with refcnt 0, from head.prev backwards.
Victim(b) ==
  /\ refcnt[b] = 0
  /\ \E j \in 1..NBUF :
       /\ Walk(prev, head, j) = b
       /\ \A i \in 1..j - 1 : refcnt[Walk(prev, head, i)] # 0

bgetCached(p, k) ==
  /\ At(p, "idle")
  /\ \E b \in Bufs : /\ block[b] = k
                     /\ refcnt' = [refcnt EXCEPT ![b] = @ + 1]
                     /\ hold' = [hold EXCEPT ![p] = b]
  /\ want' = [want EXCEPT ![p] = k]
  /\ Goto(p, "lock")
  /\ UNCHANGED <<block, valid, data, list, locked, pinned, disk, latest,
                 asleep>>

\* Mutant: a recycled buffer keeps its valid flag.
bgetRecycleMutant(p, k) ==
  /\ At(p, "idle") /\ ~Cached(k)
  /\ \E b \in Bufs : /\ Victim(b)
                     /\ block' = [block EXCEPT ![b] = k]
                     /\ refcnt' = [refcnt EXCEPT ![b] = 1]
                     /\ hold' = [hold EXCEPT ![p] = b]
  /\ want' = [want EXCEPT ![p] = k]
  /\ Goto(p, "lock")
  /\ UNCHANGED <<valid, data, list, locked, pinned, disk, latest, asleep>>

\* Mutant: the lock is dropped and taken again between the two scans of bget().
bgetRaceMutant(p, k) ==
  /\ At(p, "idle")
  /\ \E b \in Bufs : /\ Victim(b)
                     /\ block' = [block EXCEPT ![b] = k]
                     /\ valid' = [valid EXCEPT ![b] = FALSE]
                     /\ refcnt' = [refcnt EXCEPT ![b] = 1]
                     /\ hold' = [hold EXCEPT ![p] = b]
  /\ want' = [want EXCEPT ![p] = k]
  /\ Goto(p, "lock")
  /\ UNCHANGED <<data, list, locked, pinned, disk, latest, asleep>>

bgetRecycle(p, k) ==
  /\ At(p, "idle") /\ ~Cached(k)
  /\ \E b \in Bufs : /\ Victim(b)
                     /\ block' = [block EXCEPT ![b] = k]
                     /\ valid' = [valid EXCEPT ![b] = FALSE]
                     /\ refcnt' = [refcnt EXCEPT ![b] = 1]
                     /\ hold' = [hold EXCEPT ![p] = b]
  /\ want' = [want EXCEPT ![p] = k]
  /\ Goto(p, "lock")
  /\ UNCHANGED <<data, list, locked, pinned, disk, latest, asleep>>

acquiresleep(p) ==
  /\ At(p, "lock") /\ ~asleep[p]
  /\ locked[hold[p]] = NoProc
  /\ locked' = [locked EXCEPT ![hold[p]] = p]
  /\ Goto(p, "got")
  /\ UNCHANGED <<block, valid, refcnt, data, list, pinned, disk, latest, want,
                 hold, asleep>>

\* The test of lk->locked and sleep() are one section of lk->lk.
SleepOnBuf(p) ==
  /\ At(p, "lock") /\ ~asleep[p]
  /\ locked[hold[p]] # NoProc
  /\ asleep' = [asleep EXCEPT ![p] = TRUE]
  /\ UNCHANGED <<block, valid, refcnt, data, list, locked, pinned, disk,
                 latest, pc, want, hold>>

-----------------------------------------------------------------------------
(* bread(), what its callers do with the buffer, bwrite()                  *)

ReadHit(p) ==
  /\ At(p, "got") /\ valid[hold[p]]
  /\ Goto(p, "use")
  /\ UNCHANGED <<block, valid, refcnt, data, list, locked, pinned, disk,
                 latest, want, hold, asleep>>

ReadStart(p) ==
  /\ At(p, "got") /\ ~valid[hold[p]]
  /\ Goto(p, "reading")
  /\ UNCHANGED <<block, valid, refcnt, data, list, locked, pinned, disk,
                 latest, want, hold, asleep>>

ReadDone(p) ==
  /\ At(p, "reading")
  /\ data' = [data EXCEPT ![hold[p]] = disk[block[hold[p]]]]
  /\ valid' = [valid EXCEPT ![hold[p]] = TRUE]
  /\ Goto(p, "use")
  /\ UNCHANGED <<block, refcnt, list, locked, pinned, disk, latest, want, hold,
                 asleep>>

\* The caller changes b->data and calls log_write(), which pins a block that is
\* new to the log.
Modify(p) ==
  /\ At(p, "use")
  /\ \E v \in Values : /\ data' = [data EXCEPT ![hold[p]] = v]
                       /\ latest' = [latest EXCEPT ![want[p]] = v]
  /\ Cardinality(pinned \cup {hold[p]}) <= MaxPins
  /\ pinned' = pinned \cup {hold[p]}
  /\ refcnt' = IF hold[p] \in pinned THEN refcnt
               ELSE [refcnt EXCEPT ![hold[p]] = @ + 1]
  /\ UNCHANGED <<block, valid, list, locked, disk, pc, want, hold, asleep>>

\* install_trans() after a commit: bwrite() of a pinned buffer, then bunpin().
WriteStart(p) ==
  /\ At(p, "use") /\ hold[p] \in pinned
  /\ Goto(p, "writing")
  /\ UNCHANGED <<block, valid, refcnt, data, list, locked, pinned, disk,
                 latest, want, hold, asleep>>

WriteDone(p) ==
  /\ At(p, "writing")
  /\ disk' = [disk EXCEPT ![block[hold[p]]] = data[hold[p]]]
  /\ Goto(p, "unpin")
  /\ UNCHANGED <<block, valid, refcnt, data, list, locked, pinned, latest,
                 want, hold, asleep>>

bunpin(p) ==
  /\ At(p, "unpin")
  /\ pinned' = pinned \ {hold[p]}
  /\ refcnt' = [refcnt EXCEPT ![hold[p]] = @ - 1]
  /\ Goto(p, "use")
  /\ UNCHANGED <<block, valid, data, list, locked, disk, latest, want, hold,
                 asleep>>

-----------------------------------------------------------------------------
(* brelse()                                                                *)

\* Mutant: the processes waiting for the lock are not woken.
releasesleepMutant(p) ==
  /\ At(p, "use")
  /\ locked' = [locked EXCEPT ![hold[p]] = NoProc]
  /\ Goto(p, "release")
  /\ UNCHANGED <<block, valid, refcnt, data, list, pinned, disk, latest, want,
                 hold, asleep>>

releasesleep(p) ==
  /\ At(p, "use")
  /\ locked' = [locked EXCEPT ![hold[p]] = NoProc]
  /\ asleep' = [q \in Procs |-> asleep[q] /\ hold[q] # hold[p]]
  /\ Goto(p, "release")
  /\ UNCHANGED <<block, valid, refcnt, data, list, pinned, disk, latest, want,
                 hold>>

\* The six assignments of brelse(), in their order.
MoveToFront(b) ==
  LET next1 == [next EXCEPT ![prev[b]] = next[b]]
      prev1 == [prev EXCEPT ![next[b]] = prev[b]]
      prev2 == [prev1 EXCEPT ![b] = head]
  IN /\ next' = [next1 EXCEPT ![b] = next1[head], ![head] = b]
     /\ prev' = [prev2 EXCEPT ![next1[head]] = b]

brelse(p) ==
  /\ At(p, "release")
  /\ refcnt' = [refcnt EXCEPT ![hold[p]] = @ - 1]
  /\ IF refcnt[hold[p]] = 1 THEN MoveToFront(hold[p]) ELSE UNCHANGED list
  /\ hold' = [hold EXCEPT ![p] = head]
  /\ want' = [want EXCEPT ![p] = NoBlock]
  /\ Goto(p, "idle")
  /\ UNCHANGED <<block, valid, data, locked, pinned, disk, latest, asleep>>

Next ==
  \E p \in Procs :
    \/ \E k \in Blocks : bgetCached(p, k) \/ bgetRecycle(p, k)
    \/ acquiresleep(p) \/ SleepOnBuf(p) \/ ReadHit(p) \/ ReadStart(p)
    \/ ReadDone(p) \/ Modify(p) \/ WriteStart(p) \/ WriteDone(p) \/ bunpin(p)
    \/ releasesleep(p) \/ brelse(p)

Spec == Init /\ [][Next]_vars

-----------------------------------------------------------------------------
(* Properties                                                              *)

\* Buffers, list pointers, locks and locals have their types.
TypeOK ==
  /\ block \in [Bufs -> Blocks \cup {NoBlock}]
  /\ valid \in [Bufs -> BOOLEAN] /\ refcnt \in [Bufs -> Nat]
  /\ data \in [Bufs -> Values]
  /\ next \in [Nodes -> Nodes] /\ prev \in [Nodes -> Nodes]
  /\ locked \in [Bufs -> Procs \cup {NoProc}]
  /\ pinned \subseteq Bufs
  /\ disk \in [Blocks -> Values] /\ latest \in [Blocks -> Values]
  /\ pc \in [Procs -> {"idle", "lock", "got", "reading", "use", "writing",
                       "unpin", "release"}]
  /\ want \in [Procs -> Blocks \cup {NoBlock}]
  /\ hold \in [Procs -> Nodes]
  /\ asleep \in [Procs -> BOOLEAN]

Owner == {"got", "reading", "use", "writing", "unpin"}

\* A block is in at most one buffer, and a process that waits for, has or is giving
\* back a buffer finds the block it asked for in it: bget() releases bcache.lock
\* before it takes the sleep lock.
IdentityStable ==
  /\ \A b, c \in Bufs : block[b] = block[c] /\ block[b] # NoBlock => b = c
  /\ \A p \in Procs : ~At(p, "idle") => block[hold[p]] = want[p]

\* One process at a time has a buffer.
ExclusiveUse ==
  \A p \in Procs : pc[p] \in Owner =>
    \A q \in Procs : pc[q] \in Owner /\ hold[q] = hold[p] => q = p

\* What a process reads in its buffer is what was last written to the block, by
\* whatever process and through whatever buffer.
Coherent ==
  \A p \in Procs : At(p, "use") => data[hold[p]] = latest[want[p]]

\* b->refcnt counts the processes that have or wait for b, and the log.  So bget()
\* does not recycle what is in use, and panics with "bget: no buffers" only if
\* processes and pins really use up all of them.
RefsCounted ==
  \A b \in Bufs :
    refcnt[b] = Cardinality({p \in Procs : hold[p] = b})
                + (IF b \in pinned THEN 1 ELSE 0)

\* bcache.head starts a doubly linked ring of all buffers.
ListIntact ==
  /\ \A x \in Nodes : next[prev[x]] = x /\ prev[next[x]] = x
  /\ {Walk(next, head, j) : j \in 1..NBUF} = Bufs

\* Nobody sleeps in acquiresleep() while the buffer is free: whoever sleeps waits
\* for a process that has the buffer and will wake it in releasesleep().
SleeperHasHolder ==
  \A p \in Procs : asleep[p] =>
    \E q \in Procs : locked[hold[p]] = q /\ hold[q] = hold[p] /\ pc[q] \in Owner

\* The bookkeeping of the cache is sound at every moment bget(), brelse() and the
\* log can interleave: one buffer per block that keeps its block while anybody
\* waits for it, exact counts, an unbroken ring.
CacheSound == IdentityStable /\ ExclusiveUse /\ RefsCounted /\ ListIntact
=============================================================================
