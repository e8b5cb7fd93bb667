------------------------------- MODULE Virtio -------------------------------
(* The disk driver of virtio_disk.c and the device behind it.  A request is   *)
(* named by its buffer: the caller of virtio_disk_rw() holds the buffer's      *)
(* sleep lock until it returns.  The device is external: it takes the chains   *)
(* of the available ring in order, finishes them in any order, and interrupts. *)
EXTENDS Integers, FiniteSets

CONSTANTS NUM,     \* descriptors, a power of two
          VWRAP,   \* where the 16-bit ring indices wrap (a multiple of NUM)
          Bufs,    \* buffers
          NoBuf    \* a null buffer pointer
ASSUME VirtioAssumption ==
  /\ NUM \in Nat \ {0} /\ VWRAP \in Nat \ {0} /\ VWRAP % NUM = 0
  /\ IsFiniteSet(Bufs) /\ NoBuf \notin Bufs

VARIABLES vfree,   \* disk.free[]: the free descriptors
          desc,    \* disk.desc[]: [b, next] of a formatted descriptor
          info,    \* disk.info[].b
          avail,   \* [ring, idx]: avail[2..] and avail[1]
          used,    \* [ring, id]: used->elems[] and used->id
          used_idx,\* disk.used_idx
          dev,     \* the device: [last, busy], next avail entry and chains in work
          bdisk,   \* buffers with b->disk = 1
          moved,   \* buffers whose contents and block's are in step
          vpc,     \* where virtio_disk_rw() is for each buffer
          idx,     \* idx[0] of that call, once it has descriptors
          vintr,   \* virtio_disk_intr() holds vdisk_lock
          vpanic   \* free_desc() has panicked
vdVars == <<vfree, desc, info, avail, used, used_idx, dev, bdisk, moved,
            vpc, idx, vintr, vpanic>>

Desc == 0..NUM - 1
NoDesc == [b |-> NoBuf, next |-> {}]

\* virtio_disk_init(): queue 0 has NUM descriptors, all free; rings are zero.
VdInit ==
  /\ vfree = Desc
  /\ desc = [i \in Desc |-> NoDesc]
  /\ info = [i \in Desc |-> NoBuf]
  /\ avail = [ring |-> [i \in Desc |-> NUM], idx |-> 0]
  /\ used = [ring |-> [i \in Desc |-> NUM], id |-> 0]
  /\ used_idx = 0
  /\ dev = [last |-> 0, busy |-> {}]
  /\ bdisk = {}
  /\ moved = Bufs
  /\ vpc = [b \in Bufs |-> "idle"]
  /\ idx = [b \in Bufs |-> {}]
  /\ vintr = FALSE
  /\ vpanic = FALSE

Least3 == {i \in vfree : Cardinality({j \in vfree : j < i}) < 3}
Nth(S, n) == CHOOSE i \in S : Cardinality({j \in S : j < i}) = n
\* wakeup(&disk.free[0]) and wakeup(b): the sleepers of pc become runnable.
\* Mutant: nobody is woken when descriptors are freed.
WakeFreeMutant(pc) == pc
WakeFree(pc) == [b \in Bufs |-> IF pc[b] = "freesleep" THEN "alloc" ELSE pc[b]]
WakeBuf(pc, b) == IF pc[b] = "bufsleep" THEN [pc EXCEPT ![b] = "wait"] ELSE pc

\* A call, for reading or writing: buffer and block differ until the transfer.
RwCall(b) ==
  /\ vpc[b] = "idle"
  /\ moved' = moved \ {b}
  /\ vpc' = [vpc EXCEPT ![b] = "alloc"]
  /\ UNCHANGED <<vfree, desc, info, avail, used, used_idx, dev, bdisk, idx, vintr, vpanic>>

\* alloc3_desc() fails: it gives back what it took, which wakes the other
\* waiters, and the caller sleeps on free[0].
RwNoDesc(b) ==
  /\ ~vintr /\ vpc[b] = "alloc"
  /\ Cardinality(vfree) < 3
  /\ vpc' = [(IF vfree = {} THEN vpc ELSE WakeFree(vpc)) EXCEPT ![b] = "freesleep"]
  /\ UNCHANGED <<vfree, desc, info, avail, used, used_idx, dev, bdisk, moved,
                 idx, vintr, vpanic>>

\* alloc3_desc() succeeds: format the chain, publish it, notify, and sleep(b).
Post(ring, head) == [ring |-> [ring.ring EXCEPT ![ring.idx % NUM] = head],
                     idx |-> (ring.idx + 1) % VWRAP]
Chain(b, ds, i) ==
  IF i = Nth(ds, 0) THEN [b |-> b, next |-> {Nth(ds, 1)}]
  ELSE IF i = Nth(ds, 1) THEN [b |-> b, next |-> {Nth(ds, 2)}]
  ELSE [b |-> b, next |-> {}]
RwSubmit(b) ==
  /\ ~vintr /\ vpc[b] = "alloc"
  /\ Cardinality(vfree) >= 3
  /\ vfree' = vfree \ Least3
  /\ desc' = [i \in Desc |-> IF i \in Least3 THEN Chain(b, Least3, i)
                             ELSE desc[i]]
  /\ info' = [info EXCEPT ![Nth(vfree, 0)] = b]
  /\ bdisk' = bdisk \cup {b}
  /\ avail' = Post(avail, Nth(vfree, 0))
  /\ idx' = [idx EXCEPT ![b] = {Nth(vfree, 0)}]
  /\ vpc' = [vpc EXCEPT ![b] = "bufsleep"]
  /\ UNCHANGED <<used, used_idx, dev, moved, vintr, vpanic>>

\* Woken with b->disk still set: sleep again.
RwAgain(b) ==
  /\ ~vintr /\ vpc[b] = "wait" /\ b \in bdisk
  /\ vpc' = [vpc EXCEPT ![b] = "bufsleep"]
  /\ UNCHANGED <<vfree, desc, info, avail, used, used_idx, dev, bdisk, moved,
                 idx, vintr, vpanic>>

\* free_chain(): the descriptors from the head on, by their next fields.
Chained(i) == {i} \cup desc[i].next \cup UNION {desc[j].next : j \in desc[i].next}
\* Mutant: only the head of the chain is freed.
FreedMutant(b) == idx[b]
FreedBy(b) == UNION {Chained(i) : i \in idx[b]}
RwReturn(b) ==
  /\ ~vintr /\ vpc[b] = "wait" /\ b \notin bdisk
  /\ info' = [i \in Desc |-> IF i \in idx[b] THEN NoBuf ELSE info[i]]
  /\ vpanic' = (vpanic \/ FreedBy(b) \cap vfree # {})
  /\ vfree' = vfree \cup FreedBy(b)
  /\ desc' = [i \in Desc |-> IF i \in FreedBy(b) THEN NoDesc ELSE desc[i]]
  /\ vpc' = [WakeFree(vpc) EXCEPT ![b] = "idle"]
  /\ idx' = [idx EXCEPT ![b] = {}]
  /\ UNCHANGED <<avail, used, used_idx, dev, bdisk, moved, vintr>>

\* virtio_disk_intr(): the lock is held over the loop, which the device extends.
IntrEnter ==
  /\ ~vintr
  /\ used_idx % NUM # used.id % NUM
  /\ vintr' = TRUE
  /\ UNCHANGED <<vfree, desc, info, avail, used, used_idx, dev, bdisk, moved,
                 vpc, idx, vpanic>>
IntrOne ==
  /\ vintr
  /\ used_idx % NUM # used.id % NUM
  /\ bdisk' = bdisk \ {info[used.ring[used_idx]]}
  /\ vpc' = WakeBuf(vpc, info[used.ring[used_idx]])
  /\ used_idx' = (used_idx + 1) % NUM
  \* an element is read once: what a second reading would find is marked
  /\ used' = [used EXCEPT !.ring[used_idx] = NUM]
  /\ UNCHANGED <<vfree, desc, info, avail, dev, moved, idx, vintr, vpanic>>
IntrExit ==
  /\ vintr
  /\ used_idx % NUM = used.id % NUM
  /\ vintr' = FALSE
  /\ UNCHANGED <<vfree, desc, info, avail, used, used_idx, dev, bdisk, moved,
                 vpc, idx, vpanic>>

\* The device fetches the next chain, and completes any chain it has.
DevFetch ==
  /\ dev.last # avail.idx
  /\ dev' = [last |-> (dev.last + 1) % VWRAP,
             busy |-> dev.busy \cup {avail.ring[dev.last % NUM]}]
  /\ avail' = [avail EXCEPT !.ring[dev.last % NUM] = NUM]
  /\ UNCHANGED <<vfree, desc, info, used, used_idx, bdisk, moved, vpc, idx, vintr, vpanic>>
DevDone(i) ==
  /\ i \in dev.busy
  /\ dev' = [dev EXCEPT !.busy = @ \ {i}]
  /\ used' = [ring |-> [used.ring EXCEPT ![used.id % NUM] = i], id |-> (used.id + 1) % VWRAP]
  /\ moved' = moved \cup {desc[i].b}
  /\ UNCHANGED <<vfree, desc, info, avail, used_idx, bdisk, vpc, idx, vintr, vpanic>>

\* kill() of the caller makes it runnable in either sleep; the loops test again.
KillWake(b) ==
  /\ vpc[b] \in {"freesleep", "bufsleep"}
  /\ vpc' = [vpc EXCEPT ![b] = IF @ = "freesleep" THEN "alloc" ELSE "wait"]
  /\ UNCHANGED <<vfree, desc, info, avail, used, used_idx, dev, bdisk, moved,
                 idx, vintr, vpanic>>

DevDoneFor(b) == \E i \in Desc : desc[i].b = b /\ DevDone(i)
VdNext == \/ \E b \in Bufs : RwCall(b) \/ RwNoDesc(b) \/ RwSubmit(b) \/ RwAgain(b)
                             \/ RwReturn(b) \/ KillWake(b) \/ DevDoneFor(b)
          \/ IntrEnter \/ IntrOne \/ IntrExit \/ DevFetch
\* Fairness: the device finishes each chain and its interrupt is delivered; a
\* process that is runnable again and again gets the CPU and vdisk_lock, and gets
\* descriptors, since free_desc() wakes every waiter each time three come back.
VdFair == /\ \A b \in Bufs : /\ SF_vdVars(RwSubmit(b) \/ RwReturn(b))
                             /\ WF_vdVars(DevDoneFor(b))
          /\ WF_vdVars(IntrEnter \/ IntrOne \/ IntrExit)
          /\ WF_vdVars(DevFetch)
VdSpec == VdInit /\ [][VdNext]_vdVars /\ VdFair

-----------------------------------------------------------------------------
(* Properties                                                              *)

Held(b) == UNION {Chained(i) : i \in idx[b]}
Queued == {avail.ring[i] : i \in Desc} \ {NUM}
Finished == {used.ring[i] : i \in Desc} \ {NUM}

\* The descriptors are divided without overlap or leak between the free list and
\* the chains of the calls in progress, so free_desc() never panics; each call's
\* head is in exactly one of the available ring, the device and the used ring for
\* as long as b->disk is set, and once it is clear that transfer has been done.  So
\* alloc3_desc() giving back a partial chain, completions out of order and the
\* indices wrapping never hand one call's descriptors to another.
DescOwned ==
  /\ ~vpanic
  /\ Desc = vfree \cup UNION {Held(b) : b \in Bufs}
  /\ \A b \in Bufs : Held(b) \cap vfree = {} /\ \A c \in Bufs \ {b} : Held(b) \cap Held(c) = {}
  /\ \A b \in Bufs : vpc[b] \in {"bufsleep", "wait"} => Cardinality(Held(b)) = 3
  /\ \A b \in Bufs : idx[b] # {} /\ b \notin bdisk => b \in moved
  /\ UNION {idx[b] : b \in bdisk} = Queued \cup dev.busy \cup Finished
  /\ Cardinality(Queued) + Cardinality(dev.busy) + Cardinality(Finished) = Cardinality(bdisk)

\* Every call of virtio_disk_rw() returns: no completion is missed although the
\* loop compares the indices modulo NUM, and no waiter for descriptors is left.
RwReturns == \A b \in Bufs : vpc[b] # "idle" ~> vpc[b] = "idle"
=============================================================================
