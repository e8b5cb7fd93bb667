----------------------------- MODULE PipeProofs -----------------------------
(* The inductive invariant of Pipe and the theorems that follow from it,   *)
(* for every number of processes, pipe size and size of a call.            *)
EXTENDS Pipe, ArithFacts, SequenceTheorems, TLAPS

Locked == {"w_loop", "w_sleep", "r_test", "r_sleep", "r_loop"}
WritePcs == {"w_acquire", "w_loop", "w_sleep"}
ReadPcs == {"r_acquire", "r_test", "r_sleep", "r_loop"}

\* pi->lock is held exactly by the process inside a locked section.
LockInv == \A p \in Procs : lock = p <=> pc[p] \in Locked

\* A sleeping process is inside sleep() of the loop its channel belongs to.
AsleepInv ==
  \A p \in Procs : /\ asleep[p] = "nread" => pc[p] = "r_acquire"
                   /\ asleep[p] = "nwrite" => pc[p] = "w_acquire"

\* A process keeps the end it uses open.
EndsInv ==
  \A p \in Procs : /\ pc[p] \in WritePcs => "w" \in ends[p]
                   /\ pc[p] \in ReadPcs => "r" \in ends[p]

\* Only the last holder of an end is on its way to pipeclose().
CloserInv ==
  \A p, q \in Procs :
    /\ pc[p] = "close_w" => "w" \notin ends[q] /\ (pc[q] = "close_w" => q = p)
    /\ pc[p] = "close_r" => "r" \notin ends[q] /\ (pc[q] = "close_r" => q = p)

\* The open flags say who holds, or is about to close, an end.
OpenInv ==
  /\ writeopen <=> \E p \in Procs : "w" \in ends[p] \/ pc[p] = "close_w"
  /\ readopen <=> \E p \in Procs : "r" \in ends[p] \/ pc[p] = "close_r"
  /\ allocated <=> readopen \/ writeopen

\* What the tests of the loops established still holds under pi->lock.
TestInv ==
  \A p \in Procs :
    /\ pc[p] = "w_sleep" => Full /\ readopen
    /\ pc[p] = "r_sleep" => Empty /\ writeopen
    /\ pc[p] = "r_loop" /\ i[p] = 0 => ~(Empty /\ writeopen)

\* At most PIPESIZE bytes are between the counters.
CountInv == (nwrite - nread) % WRAP <= PIPESIZE

IInv == /\ TypeOK /\ LockInv /\ AsleepInv /\ EndsInv /\ CloserInv
        /\ OpenInv /\ TestInv /\ CountInv /\ NoLostWakeup

-----------------------------------------------------------------------------
(* The ring of a pipe as a sequence.                                       *)

USE SizeAssumption, ConstAssumption

\* The counters r and w of a ring with at most PIPESIZE bytes.
Counters(r, w) ==
  /\ r \in 0..WRAP - 1 /\ w \in 0..WRAP - 1
  /\ (w - r) % WRAP <= PIPESIZE

\* The ring d after pipewrite() stored b at nwrite = w.
Store(d, w, b) == [d EXCEPT ![w % PIPESIZE] = b]

\* nread++ and nwrite++ of a uint.
LEMMA AdvanceIs ==
  ASSUME NEW x \in 0..WRAP - 1
  PROVE  (x + 1) % WRAP = IF x + 1 < WRAP THEN x + 1 ELSE 0
<1>1. CASE x + 1 < WRAP
  <2>1. x + 1 = WRAP * 0 + (x + 1) OBVIOUS
  <2> QED BY <1>1, <2>1, ModUnique
<1>2. CASE x + 1 = WRAP
  <2>1. x + 1 = WRAP * 1 + 0 BY <1>2
  <2> QED BY <1>2, <2>1, ModUnique
<1> QED BY <1>1, <1>2

\* The tests for a full and for an empty pipe count the bytes in it.
LEMMA FullIs ==
  ASSUME NEW r, NEW w, Counters(r, w)
  PROVE  /\ w = (r + PIPESIZE) % WRAP <=> (w - r) % WRAP = PIPESIZE
         /\ r = w <=> (w - r) % WRAP = 0
         /\ (w - r) % WRAP \in Nat
<1>1. (w - r) % WRAP = IF r <= w THEN w - r ELSE w - r + WRAP
  BY ModDiff DEF Counters
<1>2. (r + PIPESIZE) % WRAP =
        IF r + PIPESIZE < WRAP THEN r + PIPESIZE ELSE r + PIPESIZE - WRAP
  <2>1. CASE r + PIPESIZE < WRAP
    <3>1. r + PIPESIZE = WRAP * 0 + (r + PIPESIZE) BY DEF Counters
    <3> QED BY <2>1, <3>1, ModUnique DEF Counters
  <2>2. CASE r + PIPESIZE >= WRAP
    <3>1. r + PIPESIZE = WRAP * 1 + (r + PIPESIZE - WRAP) BY DEF Counters
    <3>2. r + PIPESIZE - WRAP \in 0..WRAP - 1 BY <2>2 DEF Counters
    <3> QED BY <2>2, <3>1, <3>2, ModUnique DEF Counters
  <2> QED BY <2>1, <2>2 DEF Counters
<1> QED BY <1>1, <1>2 DEF Counters

\* nwrite++ adds one byte to a pipe that is not full.
LEMMA CountPut ==
  ASSUME NEW r, NEW w, Counters(r, w), w # (r + PIPESIZE) % WRAP
  PROVE  /\ Counters(r, (w + 1) % WRAP)
         /\ (((w + 1) % WRAP) - r) % WRAP = ((w - r) % WRAP) + 1
<1> DEFINE v == (w + 1) % WRAP
<1>1. v = IF w + 1 < WRAP THEN w + 1 ELSE 0 BY AdvanceIs DEF Counters
<1>2. v \in 0..WRAP - 1 BY <1>1 DEF Counters
<1> HIDE DEF v
<1>3. (w - r) % WRAP = IF r <= w THEN w - r ELSE w - r + WRAP
  BY ModDiff DEF Counters
<1>4. (v - r) % WRAP = IF r <= v THEN v - r ELSE v - r + WRAP
  BY <1>2, ModDiff, SMTT(30) DEF Counters
<1>5. (w - r) % WRAP < PIPESIZE
  <2>1. (w - r) % WRAP \in Nat /\ (w - r) % WRAP # PIPESIZE BY FullIs
  <2> QED BY <2>1 DEF Counters
<1>6. (v - r) % WRAP = ((w - r) % WRAP) + 1
  BY <1>1, <1>3, <1>4, <1>5 DEF Counters
<1>7. Counters(r, v) BY <1>2, <1>3, <1>5, <1>6 DEF Counters
<1> QED BY <1>6, <1>7 DEF v

\* nread++ removes one byte from a pipe that is not empty.
LEMMA CountTake ==
  ASSUME NEW r, NEW w, Counters(r, w), r # w
  PROVE  /\ Counters((r + 1) % WRAP, w)
         /\ (w - ((r + 1) % WRAP)) % WRAP = ((w - r) % WRAP) - 1
<1> DEFINE v == (r + 1) % WRAP
<1>1. v = IF r + 1 < WRAP THEN r + 1 ELSE 0 BY AdvanceIs DEF Counters
<1>2. v \in 0..WRAP - 1 BY <1>1 DEF Counters
<1> HIDE DEF v
<1>3. (w - r) % WRAP = IF r <= w THEN w - r ELSE w - r + WRAP
  BY ModDiff DEF Counters
<1>4. (w - v) % WRAP = IF v <= w THEN w - v ELSE w - v + WRAP
  BY <1>2, ModDiff DEF Counters
<1>6. (w - v) % WRAP = ((w - r) % WRAP) - 1
  BY <1>1, <1>3, <1>4 DEF Counters
<1>7. Counters(v, w) BY <1>2, <1>3, <1>6 DEF Counters
<1> QED BY <1>6, <1>7 DEF v

\* A round of the counters is a whole number of rounds of the ring.
LEMMA Round ==
  ASSUME NEW m \in Nat
  PROVE  (WRAP + m) % PIPESIZE = m % PIPESIZE
<1>1. PIPESIZE \in Nat \ {0} /\ WRAP \in Int /\ m \in Int OBVIOUS
<1>2. WRAP % PIPESIZE = 0 OBVIOUS
<1> QED BY <1>1, <1>2, ModAdd, Zenon

\* nwrite % PIPESIZE is the slot behind the bytes in the pipe.
LEMMA SlotOf ==
  ASSUME NEW r, NEW w, Counters(r, w)
  PROVE  w % PIPESIZE = (r + ((w - r) % WRAP)) % PIPESIZE
<1>1. (w - r) % WRAP = IF r <= w THEN w - r ELSE w - r + WRAP
  BY ModDiff DEF Counters
<1>2. CASE r <= w
  <2>1. r + ((w - r) % WRAP) = w BY <1>1, <1>2 DEF Counters
  <2> QED BY <2>1
<1>3. CASE r > w
  <2>1. r + ((w - r) % WRAP) = WRAP + w BY <1>1, <1>3 DEF Counters
  <2>2. w \in Nat BY DEF Counters
  <2>3. (WRAP + w) % PIPESIZE = w % PIPESIZE BY <2>2, Round
  <2> QED BY <2>1, <2>3
<1> QED BY <1>2, <1>3 DEF Counters

\* Advancing nread shifts the slots by one, when it wraps too.
LEMMA NextSlot ==
  ASSUME NEW r \in 0..WRAP - 1, NEW j \in Nat
  PROVE  (((r + 1) % WRAP) + j) % PIPESIZE = (r + 1 + j) % PIPESIZE
<1>1. CASE r + 1 < WRAP
  <2>1. (r + 1) % WRAP = r + 1 BY <1>1, AdvanceIs
  <2> QED BY <2>1
<1>2. CASE r + 1 = WRAP
  <2>1. (r + 1) % WRAP = 0 BY <1>2, AdvanceIs
  <2>2. (WRAP + j) % PIPESIZE = j % PIPESIZE BY Round
  <2> QED BY <2>1, <2>2, <1>2
<1> QED BY <1>1, <1>2

\* The bytes between the counters are a sequence of bytes.
LEMMA IsRing ==
  ASSUME NEW d \in [0..PIPESIZE - 1 -> Bytes], NEW r, NEW w, Counters(r, w)
  PROVE  /\ Ring(d, r, w) \in Seq(Bytes)
         /\ Len(Ring(d, r, w)) = (w - r) % WRAP
         /\ \A j \in 1..((w - r) % WRAP) :
              Ring(d, r, w)[j] = d[(r + j - 1) % PIPESIZE]
<1> DEFINE c == (w - r) % WRAP
<1>1. c \in Nat BY FullIs
<1> HIDE DEF c
<1>2. \A j \in 1..c : d[(r + j - 1) % PIPESIZE] \in Bytes
  <2> TAKE j \in 1..c
  <2>1. (r + j - 1) % PIPESIZE \in 0..PIPESIZE - 1
    BY <1>1, ModDef DEF Counters
  <2> QED BY <2>1
<1>3. Ring(d, r, w) = [j \in 1..c |-> d[(r + j - 1) % PIPESIZE]]
  BY DEF Ring, c
<1>4. Ring(d, r, w) \in Seq(Bytes) BY <1>1, <1>2, <1>3
<1>5. Len(Ring(d, r, w)) = c BY <1>1, <1>3
<1> QED BY <1>3, <1>4, <1>5 DEF c

\* pipewrite()'s assignment appends a byte and leaves the others alone.
LEMMA RingPut ==
  ASSUME NEW d \in [0..PIPESIZE - 1 -> Bytes], NEW r, NEW w, NEW b \in Bytes,
         Counters(r, w), w # (r + PIPESIZE) % WRAP
  PROVE  /\ Len(Ring(d, r, w)) < PIPESIZE
         /\ Ring(Store(d, w, b), r, (w + 1) % WRAP) = Append(Ring(d, r, w), b)
<1> DEFINE e == Store(d, w, b)
           v == (w + 1) % WRAP
           c == (w - r) % WRAP
           s == Ring(d, r, w)
           t == Ring(e, r, v)
<1>1. c \in Nat /\ c < PIPESIZE
  <2>1. c \in Nat /\ c # PIPESIZE /\ c <= PIPESIZE BY FullIs DEF Counters
  <2> QED BY <2>1
<1>2. w % PIPESIZE \in 0..PIPESIZE - 1 BY ModDef DEF Counters
<1>3. e \in [0..PIPESIZE - 1 -> Bytes] BY <1>2 DEF Store
<1>4. Counters(r, v) /\ (v - r) % WRAP = c + 1 BY CountPut
<1>5. s \in Seq(Bytes) /\ Len(s) = c
      /\ \A j \in 1..c : s[j] = d[(r + j - 1) % PIPESIZE] BY IsRing
<1> HIDE DEF e, v
<1>6. t \in Seq(Bytes) /\ Len(t) = c + 1
      /\ \A j \in 1..(c + 1) : t[j] = e[(r + j - 1) % PIPESIZE]
  BY <1>3, <1>4, IsRing
<1>7. w % PIPESIZE = (r + c) % PIPESIZE BY SlotOf
<1> HIDE DEF c, s, t
<1>8. \A j \in 1..c : t[j] = s[j]
  <2> TAKE j \in 1..c
  <2>1. (r + j - 1) % PIPESIZE # (r + c) % PIPESIZE
    <3>1. r + j - 1 \in Int /\ r + c \in Int /\ PIPESIZE \in Nat \ {0}
      BY <1>1 DEF Counters
    <3>2. r + j - 1 < r + c /\ r + c < (r + j - 1) + PIPESIZE
      BY <1>1 DEF Counters
    <3> QED BY <3>1, <3>2, ModDistinct, Zenon
  <2>2. (r + j - 1) % PIPESIZE \in 0..PIPESIZE - 1
    BY <1>1, ModDef, SMTT(30) DEF Counters
  <2>3. e[(r + j - 1) % PIPESIZE] = d[(r + j - 1) % PIPESIZE]
    BY <2>1, <2>2, <1>7 DEF e, Store
  <2> QED BY <2>3, <1>1, <1>5, <1>6
<1>9. t[c + 1] = b
  <2>1. r + (c + 1) - 1 = r + c BY <1>1 DEF Counters
  <2>2. e[w % PIPESIZE] = b BY <1>2 DEF e, Store
  <2> QED BY <2>1, <2>2, <1>1, <1>6, <1>7
<1>10. /\ Append(s, b) \in Seq(Bytes) /\ Len(Append(s, b)) = c + 1
       /\ \A j \in 1..c : Append(s, b)[j] = s[j]
       /\ Append(s, b)[c + 1] = b
  BY <1>5, AppendProperties
<1>11. \A j \in 1..Len(t) : t[j] = Append(s, b)[j]
  <2> TAKE j \in 1..Len(t)
  <2>1. j \in 1..c \/ j = c + 1 BY <1>1, <1>6
  <2> QED BY <2>1, <1>8, <1>9, <1>10
<1>12. t = Append(s, b) BY <1>6, <1>10, <1>11, SeqEqual
<1> QED BY <1>1, <1>5, <1>12 DEF s, t, e, v

\* piperead()'s read is of the first byte, and removes only it.
LEMMA RingTake ==
  ASSUME NEW d \in [0..PIPESIZE - 1 -> Bytes], NEW r, NEW w,
         Counters(r, w), r # w
  PROVE  /\ Ring(d, r, w) # <<>>
         /\ Head(Ring(d, r, w)) = d[r % PIPESIZE]
         /\ Ring(d, (r + 1) % WRAP, w) = Tail(Ring(d, r, w))
<1> DEFINE v == (r + 1) % WRAP
           c == (w - r) % WRAP
           s == Ring(d, r, w)
           t == Ring(d, v, w)
<1>1. c \in Nat /\ c # 0 BY FullIs
<1>2. Counters(v, w) /\ (w - v) % WRAP = c - 1 BY CountTake
<1>3. s \in Seq(Bytes) /\ Len(s) = c
      /\ \A j \in 1..c : s[j] = d[(r + j - 1) % PIPESIZE] BY IsRing
<1>4. \A j \in Nat : (v + j) % PIPESIZE = (r + 1 + j) % PIPESIZE
  BY NextSlot DEF Counters
<1> HIDE DEF v
<1>5. t \in Seq(Bytes) /\ Len(t) = c - 1
      /\ \A j \in 1..(c - 1) : t[j] = d[(v + j - 1) % PIPESIZE]
  BY <1>2, IsRing
<1> HIDE DEF c, s, t
<1>6. s # <<>> BY <1>1, <1>3, EmptySeq
<1>7. Head(s) = d[r % PIPESIZE]
  <2>1. s[1] = d[(r + 1 - 1) % PIPESIZE] BY <1>1, <1>3
  <2>2. r + 1 - 1 = r BY DEF Counters
  <2> QED BY <2>1, <2>2, <1>3, <1>6
<1>8. /\ Tail(s) \in Seq(Bytes) /\ Len(Tail(s)) = c - 1
      /\ \A j \in 1..(c - 1) : Tail(s)[j] = s[j + 1]
  BY <1>3, <1>6, HeadTailProperties
<1>9. \A j \in 1..Len(t) : t[j] = Tail(s)[j]
  <2> TAKE j \in 1..Len(t)
  <2>1. j \in 1..(c - 1) /\ j + 1 \in 1..c /\ j - 1 \in Nat BY <1>1, <1>5
  <2>2. (v + (j - 1)) % PIPESIZE = (r + 1 + (j - 1)) % PIPESIZE BY <2>1, <1>4
  <2>3. v + (j - 1) = v + j - 1 /\ r + 1 + (j - 1) = r + (j + 1) - 1
    BY <2>1, <1>2 DEF Counters
  <2> QED BY <2>1, <2>2, <2>3, <1>3, <1>5, <1>8
<1>10. t = Tail(s) BY <1>5, <1>8, <1>9, SeqEqual
<1> QED BY <1>6, <1>7, <1>10 DEF s, t, v

-----------------------------------------------------------------------------
(* The invariant.                                                          *)

\* The invariant holds of a fresh pipe shared in any way.
LEMMA InitOK == Init => IInv
<1> SUFFICES ASSUME Init PROVE IInv OBVIOUS
<1>1. CountInv
  <2>1. (0 - 0) % WRAP = 0 BY ModDiff
  <2> QED BY <2>1 DEF Init, CountInv
<1> QED
  BY <1>1 DEF Init, IInv, TypeOK, LockInv, AsleepInv, EndsInv, CloserInv,
     OpenInv, TestInv, NoLostWakeup, Locked, WritePcs, ReadPcs, Pcs, Holders

\* Shared by the lemmas of the actions.
USE DEF At, Goto, pipe, locals, Locked, WritePcs, ReadPcs

\* WriteCall keeps the invariant.
LEMMA WriteCallOK ==
  ASSUME IInv, NEW p \in Procs, WriteCall(p)
  PROVE  IInv'
<1>1. TypeOK' BY DEF IInv, TypeOK, WriteCall, Pcs
<1>2. LockInv' /\ AsleepInv' BY DEF IInv, TypeOK, WriteCall, LockInv,
     AsleepInv
<1>3. EndsInv' /\ CloserInv' /\ OpenInv' /\ CountInv'
  BY DEF IInv, TypeOK, WriteCall, EndsInv, CloserInv, OpenInv, CountInv
<1>4. TestInv'
  BY DEF IInv, TypeOK, WriteCall, TestInv, LockInv, Empty, Full
<1>5. NoLostWakeup'
  BY DEF IInv, TypeOK, WriteCall, NoLostWakeup, HolderAt, LockInv, AsleepInv,
     EndsInv, OpenInv, TestInv, Empty, Full
<1> QED BY <1>1, <1>2, <1>3, <1>4, <1>5 DEF IInv

\* WriteLock keeps the invariant.
LEMMA WriteLockOK ==
  ASSUME IInv, NEW p \in Procs, WriteLock(p)
  PROVE  IInv'
<1>1. TypeOK' BY DEF IInv, TypeOK, WriteLock, Acquire, Pcs
<1>2. LockInv' /\ AsleepInv' BY DEF IInv, TypeOK, WriteLock, Acquire,
     LockInv, AsleepInv
<1>3. EndsInv' /\ CloserInv' /\ OpenInv' /\ CountInv'
  BY DEF IInv, TypeOK, WriteLock, Acquire, EndsInv, CloserInv, OpenInv,
     CountInv
<1>4. TestInv'
  BY DEF IInv, TypeOK, WriteLock, Acquire, TestInv, LockInv, Empty, Full
<1>5. NoLostWakeup'
  BY DEF IInv, TypeOK, WriteLock, Acquire, NoLostWakeup, HolderAt, LockInv,
     AsleepInv, EndsInv, OpenInv, TestInv, Empty, Full
<1> QED BY <1>1, <1>2, <1>3, <1>4, <1>5 DEF IInv

\* WriteFail keeps the invariant.
LEMMA WriteFailOK ==
  ASSUME IInv, NEW p \in Procs, WriteFail(p)
  PROVE  IInv'
<1>1. TypeOK' BY DEF IInv, TypeOK, WriteFail, Return, Release, Pcs
<1>2. LockInv' /\ AsleepInv' BY DEF IInv, TypeOK, WriteFail, Return, Release,
     LockInv, AsleepInv
<1>3. EndsInv' /\ CloserInv' /\ OpenInv' /\ CountInv'
  BY DEF IInv, TypeOK, WriteFail, Return, Release, EndsInv, CloserInv,
     OpenInv, CountInv
<1>4. TestInv'
  BY DEF IInv, TypeOK, WriteFail, Return, Release, TestInv, LockInv, Empty,
     Full
<1>5. NoLostWakeup'
  BY DEF IInv, TypeOK, WriteFail, Return, Release, NoLostWakeup, HolderAt,
     LockInv, AsleepInv, EndsInv, OpenInv, TestInv, Empty, Full
<1> QED BY <1>1, <1>2, <1>3, <1>4, <1>5 DEF IInv

\* WriteWait keeps the invariant.
LEMMA WriteWaitOK ==
  ASSUME IInv, NEW p \in Procs, WriteWait(p)
  PROVE  IInv'
<1>1. TypeOK' BY DEF IInv, TypeOK, WriteWait, wakeup, Pcs
<1>2. LockInv' /\ AsleepInv' BY DEF IInv, TypeOK, WriteWait, wakeup, LockInv,
     AsleepInv
<1>3. EndsInv' /\ CloserInv' /\ OpenInv' /\ CountInv'
  BY DEF IInv, TypeOK, WriteWait, wakeup, EndsInv, CloserInv, OpenInv,
     CountInv
<1>4. TestInv'
  BY DEF IInv, TypeOK, WriteWait, wakeup, TestInv, LockInv, Empty, Full
<1>5. NoLostWakeup'
  BY DEF IInv, TypeOK, WriteWait, wakeup, NoLostWakeup, HolderAt, LockInv,
     AsleepInv, EndsInv, OpenInv, TestInv, Empty, Full
<1> QED BY <1>1, <1>2, <1>3, <1>4, <1>5 DEF IInv

\* WriteSleep keeps the invariant.
LEMMA WriteSleepOK ==
  ASSUME IInv, NEW p \in Procs, WriteSleep(p)
  PROVE  IInv'
<1>1. TypeOK' BY DEF IInv, TypeOK, WriteSleep, SleepOn, Release, Pcs
<1>2. LockInv' /\ AsleepInv' BY DEF IInv, TypeOK, WriteSleep, SleepOn,
     Release, LockInv, AsleepInv
<1>3. EndsInv' /\ CloserInv' /\ OpenInv' /\ CountInv'
  BY DEF IInv, TypeOK, WriteSleep, SleepOn, Release, EndsInv, CloserInv,
     OpenInv, CountInv
<1>4. TestInv'
  BY DEF IInv, TypeOK, WriteSleep, SleepOn, Release, TestInv, LockInv, Empty,
     Full
<1>5. NoLostWakeup'
  BY DEF IInv, TypeOK, WriteSleep, SleepOn, Release, NoLostWakeup, HolderAt,
     LockInv, AsleepInv, EndsInv, OpenInv, TestInv, Empty, Full
<1> QED BY <1>1, <1>2, <1>3, <1>4, <1>5 DEF IInv

\* WriteByte keeps the invariant.
LEMMA WriteByteOK ==
  ASSUME IInv, NEW p \in Procs, WriteByte(p)
  PROVE  IInv'
<1>1. TypeOK'
  <2>1. nwrite' \in 0..WRAP - 1
    BY AdvanceIs DEF IInv, TypeOK, WriteByte
  <2>2. nwrite % PIPESIZE \in 0..PIPESIZE - 1
    BY ModDef DEF IInv, TypeOK
  <2> QED BY <2>1, <2>2 DEF IInv, TypeOK, WriteByte, Pcs
<1>2. LockInv' /\ AsleepInv' BY DEF IInv, TypeOK, WriteByte, LockInv,
     AsleepInv
<1>3. EndsInv' /\ CloserInv' /\ OpenInv'
  BY DEF IInv, TypeOK, WriteByte, EndsInv, CloserInv, OpenInv
<1>4. TestInv'
  BY DEF IInv, TypeOK, WriteByte, TestInv, LockInv, Empty, Full
<1>5. CountInv'
  <2>1. Counters(nread, nwrite) BY DEF IInv, TypeOK, CountInv, Counters
  <2>2. Counters(nread', nwrite') BY <2>1, CountPut DEF WriteByte, Full, Empty
  <2> QED BY <2>2 DEF CountInv, Counters
<1>6. NoLostWakeup'
  BY DEF IInv, TypeOK, WriteByte, NoLostWakeup, HolderAt, LockInv, AsleepInv,
     EndsInv, OpenInv, TestInv, Empty, Full
<1> QED BY <1>1, <1>2, <1>3, <1>4, <1>5, <1>6 DEF IInv

\* WriteDone keeps the invariant.
LEMMA WriteDoneOK ==
  ASSUME IInv, NEW p \in Procs, WriteDone(p)
  PROVE  IInv'
<1>1. TypeOK' BY DEF IInv, TypeOK, WriteDone, wakeup, Return, Release, Pcs
<1>2. LockInv' /\ AsleepInv' BY DEF IInv, TypeOK, WriteDone, wakeup, Return,
     Release, LockInv, AsleepInv
<1>3. EndsInv' /\ CloserInv' /\ OpenInv' /\ CountInv'
  BY DEF IInv, TypeOK, WriteDone, wakeup, Return, Release, EndsInv,
     CloserInv, OpenInv, CountInv
<1>4. TestInv'
  BY DEF IInv, TypeOK, WriteDone, wakeup, Return, Release, TestInv, LockInv,
     Empty, Full
<1>5. NoLostWakeup'
  BY DEF IInv, TypeOK, WriteDone, wakeup, Return, Release, NoLostWakeup,
     HolderAt, LockInv, AsleepInv, EndsInv, OpenInv, TestInv, Empty, Full
<1> QED BY <1>1, <1>2, <1>3, <1>4, <1>5 DEF IInv

\* ReadCall keeps the invariant.
LEMMA ReadCallOK ==
  ASSUME IInv, NEW p \in Procs, ReadCall(p)
  PROVE  IInv'
<1>1. TypeOK' BY DEF IInv, TypeOK, ReadCall, Pcs
<1>2. LockInv' /\ AsleepInv' BY DEF IInv, TypeOK, ReadCall, LockInv, AsleepInv
<1>3. EndsInv' /\ CloserInv' /\ OpenInv' /\ CountInv'
  BY DEF IInv, TypeOK, ReadCall, EndsInv, CloserInv, OpenInv, CountInv
<1>4. TestInv'
  BY DEF IInv, TypeOK, ReadCall, TestInv, LockInv, Empty, Full
<1>5. NoLostWakeup'
  BY DEF IInv, TypeOK, ReadCall, NoLostWakeup, HolderAt, LockInv, AsleepInv,
     EndsInv, OpenInv, TestInv, Empty, Full
<1> QED BY <1>1, <1>2, <1>3, <1>4, <1>5 DEF IInv

\* ReadLock keeps the invariant.
LEMMA ReadLockOK ==
  ASSUME IInv, NEW p \in Procs, ReadLock(p)
  PROVE  IInv'
<1>1. TypeOK' BY DEF IInv, TypeOK, ReadLock, Acquire, Pcs
<1>2. LockInv' /\ AsleepInv' BY DEF IInv, TypeOK, ReadLock, Acquire, LockInv,
     AsleepInv
<1>3. EndsInv' /\ CloserInv' /\ OpenInv' /\ CountInv'
  BY DEF IInv, TypeOK, ReadLock, Acquire, EndsInv, CloserInv, OpenInv,
     CountInv
<1>4. TestInv'
  BY DEF IInv, TypeOK, ReadLock, Acquire, TestInv, LockInv, Empty, Full
<1>5. NoLostWakeup'
  BY DEF IInv, TypeOK, ReadLock, Acquire, NoLostWakeup, HolderAt, LockInv,
     AsleepInv, EndsInv, OpenInv, TestInv, Empty, Full
<1> QED BY <1>1, <1>2, <1>3, <1>4, <1>5 DEF IInv

\* ReadFail keeps the invariant.
LEMMA ReadFailOK ==
  ASSUME IInv, NEW p \in Procs, ReadFail(p)
  PROVE  IInv'
<1>1. TypeOK' BY DEF IInv, TypeOK, ReadFail, Return, Release, Pcs
<1>2. LockInv' /\ AsleepInv' BY DEF IInv, TypeOK, ReadFail, Return, Release,
     LockInv, AsleepInv
<1>3. EndsInv' /\ CloserInv' /\ OpenInv' /\ CountInv'
  BY DEF IInv, TypeOK, ReadFail, Return, Release, EndsInv, CloserInv,
     OpenInv, CountInv
<1>4. TestInv'
  BY DEF IInv, TypeOK, ReadFail, Return, Release, TestInv, LockInv, Empty,
     Full
<1>5. NoLostWakeup'
  BY DEF IInv, TypeOK, ReadFail, Return, Release, NoLostWakeup, HolderAt,
     LockInv, AsleepInv, EndsInv, OpenInv, TestInv, Empty, Full
<1> QED BY <1>1, <1>2, <1>3, <1>4, <1>5 DEF IInv

\* ReadWait keeps the invariant.
LEMMA ReadWaitOK ==
  ASSUME IInv, NEW p \in Procs, ReadWait(p)
  PROVE  IInv'
<1>1. TypeOK' BY DEF IInv, TypeOK, ReadWait, Pcs
<1>2. LockInv' /\ AsleepInv' BY DEF IInv, TypeOK, ReadWait, LockInv, AsleepInv
<1>3. EndsInv' /\ CloserInv' /\ OpenInv' /\ CountInv'
  BY DEF IInv, TypeOK, ReadWait, EndsInv, CloserInv, OpenInv, CountInv
<1>4. TestInv'
  BY DEF IInv, TypeOK, ReadWait, TestInv, LockInv, Empty, Full
<1>5. NoLostWakeup'
  BY DEF IInv, TypeOK, ReadWait, NoLostWakeup, HolderAt, LockInv, AsleepInv,
     EndsInv, OpenInv, TestInv, Empty, Full
<1> QED BY <1>1, <1>2, <1>3, <1>4, <1>5 DEF IInv

\* ReadSleep keeps the invariant.
LEMMA ReadSleepOK ==
  ASSUME IInv, NEW p \in Procs, ReadSleep(p)
  PROVE  IInv'
<1>1. TypeOK' BY DEF IInv, TypeOK, ReadSleep, SleepOn, Release, Pcs
<1>2. LockInv' /\ AsleepInv' BY DEF IInv, TypeOK, ReadSleep, SleepOn,
     Release, LockInv, AsleepInv
<1>3. EndsInv' /\ CloserInv' /\ OpenInv' /\ CountInv'
  BY DEF IInv, TypeOK, ReadSleep, SleepOn, Release, EndsInv, CloserInv,
     OpenInv, CountInv
<1>4. TestInv'
  BY DEF IInv, TypeOK, ReadSleep, SleepOn, Release, TestInv, LockInv, Empty,
     Full
<1>5. NoLostWakeup'
  BY DEF IInv, TypeOK, ReadSleep, SleepOn, Release, NoLostWakeup, HolderAt,
     LockInv, AsleepInv, EndsInv, OpenInv, TestInv, Empty, Full
<1> QED BY <1>1, <1>2, <1>3, <1>4, <1>5 DEF IInv

\* ReadReady keeps the invariant.
LEMMA ReadReadyOK ==
  ASSUME IInv, NEW p \in Procs, ReadReady(p)
  PROVE  IInv'
<1>1. TypeOK' BY DEF IInv, TypeOK, ReadReady, Pcs
<1>2. LockInv' /\ AsleepInv' BY DEF IInv, TypeOK, ReadReady, LockInv,
     AsleepInv
<1>3. EndsInv' /\ CloserInv' /\ OpenInv' /\ CountInv'
  BY DEF IInv, TypeOK, ReadReady, EndsInv, CloserInv, OpenInv, CountInv
<1>4. TestInv'
  BY DEF IInv, TypeOK, ReadReady, TestInv, LockInv, Empty, Full
<1>5. NoLostWakeup'
  BY DEF IInv, TypeOK, ReadReady, NoLostWakeup, HolderAt, LockInv, AsleepInv,
     EndsInv, OpenInv, TestInv, Empty, Full
<1> QED BY <1>1, <1>2, <1>3, <1>4, <1>5 DEF IInv

\* ReadByte keeps the invariant.
LEMMA ReadByteOK ==
  ASSUME IInv, NEW p \in Procs, ReadByte(p)
  PROVE  IInv'
<1>1. TypeOK'
  <2>1. nread' \in 0..WRAP - 1
    BY AdvanceIs DEF IInv, TypeOK, ReadByte
  <2>2. nread % PIPESIZE \in 0..PIPESIZE - 1
    BY ModDef DEF IInv, TypeOK
  <2> QED BY <2>1, <2>2 DEF IInv, TypeOK, ReadByte, Pcs
<1>2. LockInv' /\ AsleepInv' BY DEF IInv, TypeOK, ReadByte, LockInv, AsleepInv
<1>3. EndsInv' /\ CloserInv' /\ OpenInv'
  BY DEF IInv, TypeOK, ReadByte, EndsInv, CloserInv, OpenInv
<1>4. TestInv'
  BY DEF IInv, TypeOK, ReadByte, TestInv, LockInv, Empty, Full
<1>5. CountInv'
  <2>1. Counters(nread, nwrite) BY DEF IInv, TypeOK, CountInv, Counters
  <2>2. Counters(nread', nwrite') BY <2>1, CountTake DEF ReadByte, Full, Empty
  <2> QED BY <2>2 DEF CountInv, Counters
<1>6. NoLostWakeup'
  BY DEF IInv, TypeOK, ReadByte, NoLostWakeup, HolderAt, LockInv, AsleepInv,
     EndsInv, OpenInv, TestInv, Empty, Full
<1> QED BY <1>1, <1>2, <1>3, <1>4, <1>5, <1>6 DEF IInv

\* ReadFault keeps the invariant.
LEMMA ReadFaultOK ==
  ASSUME IInv, NEW p \in Procs, ReadFault(p)
  PROVE  IInv'
<1>1. TypeOK'
  <2>1. nread' \in 0..WRAP - 1
    BY AdvanceIs DEF IInv, TypeOK, ReadFault
  <2>2. nread % PIPESIZE \in 0..PIPESIZE - 1
    BY ModDef DEF IInv, TypeOK
  <2> QED BY <2>1, <2>2 DEF IInv, TypeOK, ReadFault, wakeup, Return, Release,
      Pcs
<1>2. LockInv' /\ AsleepInv' BY DEF IInv, TypeOK, ReadFault, wakeup, Return,
     Release, LockInv, AsleepInv
<1>3. EndsInv' /\ CloserInv' /\ OpenInv'
  BY DEF IInv, TypeOK, ReadFault, wakeup, Return, Release, EndsInv,
     CloserInv, OpenInv
<1>4. TestInv'
  BY DEF IInv, TypeOK, ReadFault, wakeup, Return, Release, TestInv, LockInv,
     Empty, Full
<1>5. CountInv'
  <2>1. Counters(nread, nwrite) BY DEF IInv, TypeOK, CountInv, Counters
  <2>2. Counters(nread', nwrite') BY <2>1, CountTake DEF ReadFault, Full,
     Empty
  <2> QED BY <2>2 DEF CountInv, Counters
<1>6. NoLostWakeup'
  BY DEF IInv, TypeOK, ReadFault, wakeup, Return, Release, NoLostWakeup,
     HolderAt, LockInv, AsleepInv, EndsInv, OpenInv, TestInv, Empty, Full
<1> QED BY <1>1, <1>2, <1>3, <1>4, <1>5, <1>6 DEF IInv

\* ReadDone keeps the invariant.
LEMMA ReadDoneOK ==
  ASSUME IInv, NEW p \in Procs, ReadDone(p)
  PROVE  IInv'
<1>1. TypeOK' BY DEF IInv, TypeOK, ReadDone, wakeup, Return, Release, Pcs
<1>2. LockInv' /\ AsleepInv' BY DEF IInv, TypeOK, ReadDone, wakeup, Return,
     Release, LockInv, AsleepInv
<1>3. EndsInv' /\ CloserInv' /\ OpenInv' /\ CountInv'
  BY DEF IInv, TypeOK, ReadDone, wakeup, Return, Release, EndsInv, CloserInv,
     OpenInv, CountInv
<1>4. TestInv'
  BY DEF IInv, TypeOK, ReadDone, wakeup, Return, Release, TestInv, LockInv,
     Empty, Full
<1>5. NoLostWakeup'
  BY DEF IInv, TypeOK, ReadDone, wakeup, Return, Release, NoLostWakeup,
     HolderAt, LockInv, AsleepInv, EndsInv, OpenInv, TestInv, Empty, Full
<1> QED BY <1>1, <1>2, <1>3, <1>4, <1>5 DEF IInv

\* CloseEnd keeps the invariant.
LEMMA CloseEndOK ==
  ASSUME IInv, NEW p \in Procs, NEW e \in {"r", "w"}, CloseEnd(p, e)
  PROVE  IInv'
<1>1. TypeOK' BY DEF IInv, TypeOK, CloseEnd, Holders, Pcs
<1>2. LockInv' /\ AsleepInv' BY DEF IInv, TypeOK, CloseEnd, Holders, LockInv,
     AsleepInv
<1>3. EndsInv' /\ CloserInv' /\ OpenInv' /\ CountInv'
  BY SMTT(30) DEF IInv, TypeOK, CloseEnd, Holders, EndsInv, CloserInv, OpenInv,
     CountInv
<1>4. TestInv'
  BY DEF IInv, TypeOK, CloseEnd, Holders, TestInv, LockInv, Empty, Full
<1>5. NoLostWakeup'
  BY DEF IInv, TypeOK, CloseEnd, Holders, NoLostWakeup, HolderAt, LockInv,
     AsleepInv, EndsInv, OpenInv, TestInv, Empty, Full
<1> QED BY <1>1, <1>2, <1>3, <1>4, <1>5 DEF IInv

\* PipeCloseWrite keeps the invariant.
LEMMA PipeCloseWriteOK ==
  ASSUME IInv, NEW p \in Procs, PipeCloseWrite(p)
  PROVE  IInv'
<1>1. TypeOK' BY DEF IInv, TypeOK, PipeCloseWrite, wakeup, FreePipe, Pcs
<1>2. LockInv' /\ AsleepInv' BY DEF IInv, TypeOK, PipeCloseWrite, wakeup,
     FreePipe, LockInv, AsleepInv
<1>3. EndsInv' /\ CloserInv' /\ OpenInv' /\ CountInv'
  BY DEF IInv, TypeOK, PipeCloseWrite, wakeup, FreePipe, EndsInv, CloserInv,
     OpenInv, CountInv
<1>4. TestInv'
  BY DEF IInv, TypeOK, PipeCloseWrite, wakeup, FreePipe, TestInv, LockInv,
     Empty, Full
<1>5. NoLostWakeup'
  BY DEF IInv, TypeOK, PipeCloseWrite, wakeup, FreePipe, NoLostWakeup,
     HolderAt, LockInv, AsleepInv, EndsInv, OpenInv, TestInv, Empty, Full
<1> QED BY <1>1, <1>2, <1>3, <1>4, <1>5 DEF IInv

\* PipeCloseRead keeps the invariant.
LEMMA PipeCloseReadOK ==
  ASSUME IInv, NEW p \in Procs, PipeCloseRead(p)
  PROVE  IInv'
<1>1. TypeOK' BY DEF IInv, TypeOK, PipeCloseRead, wakeup, FreePipe, Pcs
<1>2. LockInv' /\ AsleepInv' BY DEF IInv, TypeOK, PipeCloseRead, wakeup,
     FreePipe, LockInv, AsleepInv
<1>3. EndsInv' /\ CloserInv' /\ OpenInv' /\ CountInv'
  BY DEF IInv, TypeOK, PipeCloseRead, wakeup, FreePipe, EndsInv, CloserInv,
     OpenInv, CountInv
<1>4. TestInv'
  BY DEF IInv, TypeOK, PipeCloseRead, wakeup, FreePipe, TestInv, LockInv,
     Empty, Full
<1>5. NoLostWakeup'
  BY DEF IInv, TypeOK, PipeCloseRead, wakeup, FreePipe, NoLostWakeup,
     HolderAt, LockInv, AsleepInv, EndsInv, OpenInv, TestInv, Empty, Full
<1> QED BY <1>1, <1>2, <1>3, <1>4, <1>5 DEF IInv

\* Kill keeps the invariant.
LEMMA KillOK ==
  ASSUME IInv, NEW p \in Procs, Kill(p)
  PROVE  IInv'
<1>1. TypeOK' BY DEF IInv, TypeOK, Kill, Pcs
<1>2. LockInv' /\ AsleepInv' BY DEF IInv, TypeOK, Kill, LockInv, AsleepInv
<1>3. EndsInv' /\ CloserInv' /\ OpenInv' /\ CountInv'
  BY DEF IInv, TypeOK, Kill, EndsInv, CloserInv, OpenInv, CountInv
<1>4. TestInv'
  BY DEF IInv, TypeOK, Kill, TestInv, LockInv, Empty, Full
<1>5. NoLostWakeup'
  BY DEF IInv, TypeOK, Kill, NoLostWakeup, HolderAt, LockInv, AsleepInv,
     EndsInv, OpenInv, TestInv, Empty, Full
<1> QED BY <1>1, <1>2, <1>3, <1>4, <1>5 DEF IInv

\* A step that changes nothing keeps the invariant.
LEMMA StutterOK == IInv /\ UNCHANGED vars => IInv'
BY DEF IInv, TypeOK, LockInv, AsleepInv, EndsInv, CloserInv, OpenInv, TestInv,
   CountInv, NoLostWakeup, HolderAt, Empty, Full, vars, pipe, locals

\* Every step keeps the invariant.
LEMMA NextOK == IInv /\ [Next]_vars => IInv'
<1> SUFFICES ASSUME IInv, [Next]_vars PROVE IInv' OBVIOUS
<1>1. ASSUME NEW p \in Procs, WriteCall(p) \/ ReadCall(p) PROVE IInv'
  BY <1>1, WriteCallOK, ReadCallOK
<1>2. ASSUME NEW p \in Procs, Step(p) PROVE IInv'
  BY <1>2, WriteLockOK, WriteFailOK, WriteWaitOK, WriteSleepOK, WriteByteOK,
     WriteDoneOK, ReadLockOK, ReadFailOK, ReadWaitOK, ReadSleepOK,
     ReadReadyOK, ReadByteOK, ReadFaultOK, ReadDoneOK, PipeCloseWriteOK,
     PipeCloseReadOK DEF Step
<1>3. ASSUME NEW p \in Procs, NEW e \in {"r", "w"}, CloseEnd(p, e) PROVE IInv'
  BY <1>3, CloseEndOK
<1>4. ASSUME NEW p \in Victims, Kill(p) PROVE IInv'
  BY <1>4, KillOK
<1>5. CASE UNCHANGED vars BY <1>5, StutterOK
<1> QED BY <1>1, <1>2, <1>3, <1>4, <1>5 DEF Next

\* The invariant of Pipe: the holder of pi->lock, the open flags and the
\* counters agree with what the processes are doing.
THEOREM Invariance == Spec => []IInv
BY InitOK, NextOK, PTL DEF Spec

\* The fields of struct pipe keep their types: nread and nwrite are uints.
THEOREM TypeCorrect == Spec => []TypeOK
<1>1. IInv => TypeOK BY DEF IInv
<1> QED BY <1>1, Invariance, PTL

\* sleep() and wakeup() in pipe.c: nobody sleeps beside something to do; a reader
\* beside bytes only in states with a killed process.
THEOREM NoSleepBesideWork == Spec => []NoLostWakeup
<1>1. IInv => NoLostWakeup BY DEF IInv
<1> QED BY <1>1, Invariance, PTL

\* pipeclose() frees the page when, and only when, nobody can use it any more.
THEOREM PageSafe == Spec => []PageInUse
<1>1. IInv => PageInUse
  BY DEF IInv, PageInUse, OpenInv, EndsInv, WritePcs, ReadPcs, TypeOK, Pcs
<1> QED BY <1>1, Invariance, PTL

\* read() returns 0 for the end of the stream only when nobody can write.
THEOREM EofIsFinal == Spec => EofMeansNoWriter
<1> DEFINE A == \A p \in Procs :
                  /\ At(p, "r_loop") /\ pc'[p] = "user"
                  /\ i[p] = 0 /\ n[p] > 0 /\ nread' = nread
                  => Holders("w") = {}
<1>1. IInv /\ [Next]_vars => [A]_vars
  <2> SUFFICES ASSUME IInv, Next, NEW p \in Procs,
                      At(p, "r_loop"), pc'[p] = "user",
                      i[p] = 0, n[p] > 0, nread' = nread
               PROVE  Holders("w") = {}
    OBVIOUS
  <2>1. (nread + 1) % WRAP # nread
    <3>1. nread \in 0..WRAP - 1 BY DEF IInv, TypeOK
    <3>2. (nread + 1) % WRAP = IF nread + 1 < WRAP THEN nread + 1 ELSE 0
      BY <3>1, AdvanceIs
    <3> QED BY <3>1, <3>2
  <2>2. Empty
    <3>1. pc \in [Procs -> Pcs] BY DEF IInv, TypeOK
    <3>2. ASSUME NEW q \in Procs, Step(q) PROVE Empty
      <4>1. q = p
        BY <3>1, <3>2 DEF Step, At, Goto, Return, WriteLock, WriteFail,
           WriteWait, WriteSleep, WriteByte, WriteDone, ReadLock, ReadFail,
           ReadWait, ReadSleep, ReadReady, ReadByte, ReadFault, ReadDone,
           PipeCloseWrite, PipeCloseRead
      <4>2. ReadDone(p) \/ ReadFault(p)
        BY <3>1, <3>2, <4>1 DEF Step, At, Goto, WriteLock, WriteFail,
           WriteWait, WriteSleep, WriteByte, WriteDone, ReadLock, ReadFail,
           ReadWait, ReadSleep, ReadReady, ReadByte,
           PipeCloseWrite, PipeCloseRead
      <4>3. ~ReadFault(p) BY <2>1 DEF ReadFault
      <4> QED BY <4>2, <4>3 DEF ReadDone, IInv, TypeOK
    <3>3. ASSUME NEW q \in Procs, WriteCall(q) \/ ReadCall(q) PROVE FALSE
      BY <3>1, <3>3 DEF WriteCall, ReadCall, At, Goto
    <3>4. ASSUME NEW q \in Procs, NEW e \in {"r", "w"}, CloseEnd(q, e)
          PROVE  FALSE
      BY <3>1, <3>4 DEF CloseEnd, At, Goto
    <3>5. ASSUME NEW q \in Victims, Kill(q) PROVE FALSE
      BY <3>5 DEF Kill, At
    <3> QED BY <3>2, <3>3, <3>4, <3>5 DEF Next
  <2>3. ~writeopen BY <2>2 DEF IInv, TestInv, At
  <2> QED BY <2>3 DEF IInv, OpenInv, Holders
<1> QED BY <1>1, Invariance, PTL DEF Spec, EofMeansNoWriter

-----------------------------------------------------------------------------
(* Pipe implements ByteStream.                                             *)

\* A byte written is a byte put at the end of the stream.
LEMMA WriteByteRefines ==
  ASSUME IInv, NEW p \in Procs, WriteByte(p)
  PROVE  Stream!Next
<1>1. PICK b \in Bytes : data' = [data EXCEPT ![nwrite % PIPESIZE] = b]
  BY DEF WriteByte
<1>2. Counters(nread, nwrite) BY DEF IInv, TypeOK, CountInv, Counters
<1>3. data \in [0..PIPESIZE - 1 -> Bytes] BY DEF IInv, TypeOK
<1>4. /\ nwrite # (nread + PIPESIZE) % WRAP
      /\ nwrite' = (nwrite + 1) % WRAP /\ nread' = nread
  BY DEF WriteByte, Full
<1>5. Len(queue) < PIPESIZE /\ queue' = Append(queue, b)
  <2>1. /\ Len(Ring(data, nread, nwrite)) < PIPESIZE
        /\ Ring(Store(data, nwrite, b), nread, (nwrite + 1) % WRAP)
             = Append(Ring(data, nread, nwrite), b)
    BY <1>2, <1>3, <1>4, RingPut
  <2>2. data' = Store(data, nwrite, b) BY <1>1 DEF Store
  <2>3. queue' = Ring(data', nread', nwrite') BY DEF queue, Ring
  <2> QED BY <1>4, <2>1, <2>2, <2>3 DEF queue
<1>6. writeopen BY DEF IInv, EndsInv, OpenInv, WriteByte, At, WritePcs
<1>7. UNCHANGED <<last, writeopen, readopen>> BY DEF WriteByte
<1>8. Stream!Put(b) BY <1>5, <1>6, <1>7 DEF Stream!Put
<1> QED BY <1>8 DEF Stream!Next

\* A byte read, or lost to a bad address, is the first of the stream.
LEMMA ReadByteRefines ==
  ASSUME IInv, NEW p \in Procs, ReadByte(p) \/ ReadFault(p)
  PROVE  Stream!Next
<1>1. Counters(nread, nwrite) BY DEF IInv, TypeOK, CountInv, Counters
<1>2. data \in [0..PIPESIZE - 1 -> Bytes] BY DEF IInv, TypeOK
<1>3. /\ nread # nwrite /\ nread' = (nread + 1) % WRAP
      /\ nwrite' = nwrite /\ data' = data
  BY DEF ReadByte, ReadFault, Empty
<1>4. /\ queue # <<>> /\ Head(queue) = data[nread % PIPESIZE]
      /\ queue' = Tail(queue)
  BY <1>1, <1>2, <1>3, RingTake DEF queue
<1>5. readopen
  BY DEF IInv, EndsInv, OpenInv, ReadByte, ReadFault, At, ReadPcs
<1>6. CASE ReadByte(p)
  <2>1. last' = data[nread % PIPESIZE] /\ UNCHANGED <<writeopen, readopen>>
    BY <1>6 DEF ReadByte
  <2>2. Stream!Take BY <1>4, <1>5, <2>1 DEF Stream!Take
  <2> QED BY <2>2 DEF Stream!Next
<1>7. CASE ReadFault(p)
  <2>1. UNCHANGED <<last, writeopen, readopen>> BY <1>7 DEF ReadFault
  <2>2. Stream!Lose BY <1>4, <1>5, <2>1 DEF Stream!Lose
  <2> QED BY <2>2 DEF Stream!Next
<1> QED BY <1>6, <1>7

\* pipeclose() closes an end of the stream.
LEMMA CloseRefines ==
  ASSUME IInv, NEW p \in Procs, PipeCloseWrite(p) \/ PipeCloseRead(p)
  PROVE  Stream!Next
<1>1. CASE PipeCloseWrite(p)
  <2>1. writeopen BY <1>1 DEF IInv, OpenInv, PipeCloseWrite, At
  <2>2. queue' = queue BY <1>1 DEF PipeCloseWrite, queue
  <2>3. Stream!CloseWrite
    BY <1>1, <2>1, <2>2 DEF PipeCloseWrite, Stream!CloseWrite
  <2> QED BY <2>3 DEF Stream!Next
<1>2. CASE PipeCloseRead(p)
  <2>1. readopen BY <1>2 DEF IInv, OpenInv, PipeCloseRead, At
  <2>2. queue' = queue BY <1>2 DEF PipeCloseRead, queue
  <2>3. Stream!CloseRead
    BY <1>2, <2>1, <2>2 DEF PipeCloseRead, Stream!CloseRead
  <2> QED BY <2>3 DEF Stream!Next
<1> QED BY <1>1, <1>2

\* The other steps leave the stream alone.
LEMMA QuietRefines ==
  ASSUME UNCHANGED <<pipe, last>>
  PROVE  UNCHANGED Stream!vars
<1>1. queue' = queue BY DEF pipe, queue
<1> QED BY <1>1 DEF pipe, Stream!vars

\* piperead(), pipewrite() and pipeclose() with their wrapping counters implement
\* a first-in first-out stream of at most PIPESIZE bytes.
THEOREM ImplementsStream == Spec => IsByteStream
<1>1. Init => Stream!Init
  <2> SUFFICES ASSUME Init PROVE Stream!Init OBVIOUS
  <2>1. IInv BY InitOK
  <2>2. Counters(nread, nwrite) BY <2>1 DEF IInv, TypeOK, CountInv, Counters
  <2>3. data \in [0..PIPESIZE - 1 -> Bytes] BY <2>1 DEF IInv, TypeOK
  <2>4. (nwrite - nread) % WRAP = 0 BY <2>2, FullIs DEF Init
  <2>5. queue \in Seq(Bytes) /\ Len(queue) = 0
    BY <2>2, <2>3, <2>4, IsRing DEF queue
  <2>6. queue = <<>> BY <2>5, EmptySeq
  <2> QED BY <2>6 DEF Init, Stream!Init
<1>2. IInv /\ [Next]_vars => [Stream!Next]_(Stream!vars)
  <2> SUFFICES ASSUME IInv, [Next]_vars
               PROVE  Stream!Next \/ UNCHANGED Stream!vars
    OBVIOUS
  <2>1. ASSUME NEW p \in Procs, Step(p)
        PROVE  Stream!Next \/ UNCHANGED Stream!vars
    <3>1. CASE WriteByte(p) BY <3>1, WriteByteRefines
    <3>2. CASE ReadByte(p) \/ ReadFault(p) BY <3>2, ReadByteRefines
    <3>3. CASE PipeCloseWrite(p) \/ PipeCloseRead(p) BY <3>3, CloseRefines
    <3>4. CASE UNCHANGED <<pipe, last>> BY <3>4, QuietRefines
    <3> QED
      BY <2>1, <3>1, <3>2, <3>3, <3>4 DEF Step, WriteLock, WriteFail,
         WriteWait, WriteSleep, WriteDone, ReadLock, ReadFail, ReadWait,
         ReadSleep, ReadReady, ReadDone
  <2>2. ASSUME NEW p \in Procs, WriteCall(p) \/ ReadCall(p)
        PROVE  UNCHANGED <<pipe, last>>
    BY <2>2 DEF WriteCall, ReadCall
  <2>3. ASSUME NEW p \in Procs, NEW e \in {"r", "w"}, CloseEnd(p, e)
        PROVE  UNCHANGED <<pipe, last>>
    BY <2>3 DEF CloseEnd
  <2>4. ASSUME NEW p \in Victims, Kill(p) PROVE UNCHANGED <<pipe, last>>
    BY <2>4 DEF Kill
  <2>5. CASE UNCHANGED vars BY <2>5, QuietRefines DEF vars
  <2> QED BY <2>1, <2>2, <2>3, <2>4, <2>5, QuietRefines DEF Next
<1> QED BY <1>1, <1>2, Invariance, PTL DEF Spec, IsByteStream, Stream!Spec
=============================================================================
