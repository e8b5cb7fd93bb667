-------------------------------- MODULE Pipe --------------------------------
(* One pipe of pipe.c, the processes that hold its ends, and kill().       *)
(* pi->lock is a variable; what happens while it is held is split into the *)
(* steps of the loops, so that kill(), which takes only p->lock, can come  *)
(* between the test of p->killed and sleep().                              *)
EXTENDS Integers, Sequences

CONSTANTS Procs,
          NoProc,     \* pi->lock is free
          Bytes,
          PIPESIZE,
          WRAP,       \* nread and nwrite are uints: 2^32
          Sizes,      \* the n of read(fd, addr, n) and write(fd, addr, n)
          Faults,     \* copyin() and copyout() may fail
          Victims     \* processes that kill() may be called for

ASSUME SizeAssumption ==
  /\ PIPESIZE \in Nat \ {0}
  /\ WRAP \in Nat /\ WRAP > PIPESIZE
  /\ WRAP % PIPESIZE = 0

ASSUME ConstAssumption ==
  /\ Sizes \subseteq Nat
  /\ Faults \in BOOLEAN
  /\ Victims \subseteq Procs
  /\ Bytes # {}
  /\ NoProc \notin Procs

VARIABLES data, nread, nwrite, readopen, writeopen,   \* struct pipe
          allocated,  \* its page has not been given to kfree()
          lock,       \* the holder of pi->lock
          ends,       \* the ends of the pipe a process has open: "r", "w"
          pc,
          asleep,     \* the channel a SLEEPING process waits on, or "no"
          killed,
          i, n,       \* locals of piperead() and pipewrite()
          last        \* the byte most recently copied out to a reader

pipe == <<data, nread, nwrite, readopen, writeopen, allocated>>
locals == <<i, n>>
vars == <<pipe, lock, ends, pc, asleep, killed, locals, last>>

Empty == nread = nwrite
Full == nwrite = (nread + PIPESIZE) % WRAP

Holders(e) == {p \in Procs : e \in ends[p]}

At(p, l) == pc[p] = l
Goto(p, l) == pc' = [pc EXCEPT ![p] = l]

\* Every state in which processes share a fresh pipe: pipe() gives both ends
\* to one process, fork() copies them and close() drops them.
Init ==
  /\ \E b \in Bytes : data = [j \in 0..PIPESIZE - 1 |-> b]   \* kalloc()'s junk
  /\ nread = 0 /\ nwrite = 0
  /\ readopen = TRUE /\ writeopen = TRUE /\ allocated = TRUE
  /\ lock = NoProc
  /\ ends \in [Procs -> SUBSET {"r", "w"}]
  /\ Holders("r") # {} /\ Holders("w") # {}
  /\ pc = [p \in Procs |-> "user"]
  /\ asleep = [p \in Procs |-> "no"]
  /\ killed = [p \in Procs |-> FALSE]
  /\ i = [p \in Procs |-> 0]
  /\ n = [p \in Procs |-> 0]
  /\ last \in Bytes

-----------------------------------------------------------------------------
(* Spin lock, sleep and wakeup as pipe.c uses them.                        *)

Acquire(p) == lock = NoProc /\ lock' = p

Release(p) == lock = p /\ lock' = NoProc

\* Mutant: nobody is woken.
wakeupMutant(chan) == asleep

\* wakeup(): every process asleep on chan is made RUNNABLE.
wakeup(chan) ==
  [q \in Procs |-> IF asleep[q] = chan THEN "no" ELSE asleep[q]]

\* sleep() releases pi->lock and marks the process SLEEPING under p->lock.
SleepOn(p, chan) ==
  /\ Release(p)
  /\ asleep' = [asleep EXCEPT ![p] = chan]

\* The call is over: pi->lock is released and the process is back in user code.
Return(p) ==
  /\ Release(p)
  /\ Goto(p, "user")
  /\ i' = [i EXCEPT ![p] = 0]
  /\ n' = [n EXCEPT ![p] = 0]

-----------------------------------------------------------------------------
(* pipewrite()                                                             *)

WriteCall(p) ==
  /\ At(p, "user") /\ ~killed[p]
  /\ "w" \in ends[p]
  /\ \E k \in Sizes : n' = [n EXCEPT ![p] = k]
  /\ Goto(p, "w_acquire")
  /\ UNCHANGED <<pipe, lock, ends, asleep, killed, i, last>>

\* The first acquire(), and the one at the end of sleep().
WriteLock(p) ==
  /\ At(p, "w_acquire") /\ asleep[p] = "no"
  /\ Acquire(p)
  /\ Goto(p, "w_loop")
  /\ UNCHANGED <<pipe, ends, asleep, killed, locals, last>>

WriteFail(p) ==
  /\ At(p, "w_loop") /\ i[p] < n[p] /\ Full
  /\ ~readopen \/ killed[p]
  /\ Return(p)
  /\ UNCHANGED <<pipe, ends, asleep, killed, last>>

\* Mutant: the readers are not woken before the writer sleeps.
WriteWaitMutant(p) ==
  /\ At(p, "w_loop") /\ i[p] < n[p] /\ Full
  /\ readopen /\ ~killed[p]
  /\ Goto(p, "w_sleep")
  /\ UNCHANGED <<pipe, lock, ends, asleep, killed, locals, last>>

WriteWait(p) ==
  /\ At(p, "w_loop") /\ i[p] < n[p] /\ Full
  /\ readopen /\ ~killed[p]
  /\ asleep' = wakeup("nread")
  /\ Goto(p, "w_sleep")
  /\ UNCHANGED <<pipe, lock, ends, killed, locals, last>>

WriteSleep(p) ==
  /\ At(p, "w_sleep")
  /\ SleepOn(p, "nwrite")
  /\ Goto(p, "w_acquire")
  /\ UNCHANGED <<pipe, ends, killed, locals, last>>

\* Mutant: the test for a full pipe is made once per call, not per byte.
WriteByteMutant(p) ==
  /\ At(p, "w_loop") /\ i[p] < n[p] /\ (~Full \/ i[p] > 0)
  /\ \E b \in Bytes : data' = [data EXCEPT ![nwrite % PIPESIZE] = b]
  /\ nwrite' = (nwrite + 1) % WRAP
  /\ i' = [i EXCEPT ![p] = @ + 1]
  /\ UNCHANGED <<nread, readopen, writeopen, allocated, lock, ends, pc,
                 asleep, killed, n, last>>

WriteByte(p) ==
  /\ At(p, "w_loop") /\ i[p] < n[p] /\ ~Full
  /\ \E b \in Bytes : data' = [data EXCEPT ![nwrite % PIPESIZE] = b]
  /\ nwrite' = (nwrite + 1) % WRAP
  /\ i' = [i EXCEPT ![p] = @ + 1]
  /\ UNCHANGED <<nread, readopen, writeopen, allocated, lock, ends, pc,
                 asleep, killed, n, last>>

\* All n bytes are written, or copyin() failed.
WriteDone(p) ==
  /\ At(p, "w_loop")
  /\ i[p] >= n[p] \/ (Faults /\ ~Full)
  /\ asleep' = wakeup("nread")
  /\ Return(p)
  /\ UNCHANGED <<pipe, ends, killed, last>>

-----------------------------------------------------------------------------
(* piperead()                                                              *)

ReadCall(p) ==
  /\ At(p, "user") /\ ~killed[p]
  /\ "r" \in ends[p]
  /\ \E k \in Sizes : n' = [n EXCEPT ![p] = k]
  /\ Goto(p, "r_acquire")
  /\ UNCHANGED <<pipe, lock, ends, asleep, killed, i, last>>

ReadLock(p) ==
  /\ At(p, "r_acquire") /\ asleep[p] = "no"
  /\ Acquire(p)
  /\ Goto(p, "r_test")
  /\ UNCHANGED <<pipe, ends, asleep, killed, locals, last>>

ReadFail(p) ==
  /\ At(p, "r_test") /\ Empty /\ writeopen
  /\ killed[p]
  /\ Return(p)
  /\ UNCHANGED <<pipe, ends, asleep, killed, last>>

ReadWait(p) ==
  /\ At(p, "r_test") /\ Empty /\ writeopen
  /\ ~killed[p]
  /\ Goto(p, "r_sleep")
  /\ UNCHANGED <<pipe, lock, ends, asleep, killed, locals, last>>

ReadSleep(p) ==
  /\ At(p, "r_sleep")
  /\ SleepOn(p, "nread")
  /\ Goto(p, "r_acquire")
  /\ UNCHANGED <<pipe, ends, killed, locals, last>>

\* Mutant: a reader that was woken does not test again.
ReadReadyMutant(p) ==
  /\ At(p, "r_test")
  /\ Goto(p, "r_loop")
  /\ UNCHANGED <<pipe, lock, ends, asleep, killed, locals, last>>

ReadReady(p) ==
  /\ At(p, "r_test")
  /\ ~(Empty /\ writeopen)
  /\ Goto(p, "r_loop")
  /\ UNCHANGED <<pipe, lock, ends, asleep, killed, locals, last>>

ReadByte(p) ==
  /\ At(p, "r_loop") /\ i[p] < n[p] /\ ~Empty
  /\ last' = data[nread % PIPESIZE]
  /\ nread' = (nread + 1) % WRAP
  /\ i' = [i EXCEPT ![p] = @ + 1]
  /\ UNCHANGED <<data, nwrite, readopen, writeopen, allocated, lock, ends, pc,
                 asleep, killed, n>>

\* copyout() fails after nread was advanced.
ReadFault(p) ==
  /\ Faults
  /\ At(p, "r_loop") /\ i[p] < n[p] /\ ~Empty
  /\ nread' = (nread + 1) % WRAP
  /\ asleep' = wakeup("nwrite")
  /\ Return(p)
  /\ UNCHANGED <<data, nwrite, readopen, writeopen, allocated, ends, killed,
                 last>>

ReadDone(p) ==
  /\ At(p, "r_loop")
  /\ i[p] >= n[p] \/ Empty
  /\ asleep' = wakeup("nwrite")
  /\ Return(p)
  /\ UNCHANGED <<pipe, ends, killed, last>>

-----------------------------------------------------------------------------
(* close(), exit() and kill()                                              *)

\* fileclose() under ftable.lock, called by close() and, once killed, by exit():
\* only the last reference to an end goes on to pipeclose().
CloseEnd(p, e) ==
  /\ At(p, "user")
  /\ e \in ends[p]
  /\ ends' = [ends EXCEPT ![p] = @ \ {e}]
  /\ IF Holders(e) = {p}
       THEN Goto(p, IF e = "w" THEN "close_w" ELSE "close_r")
       ELSE UNCHANGED pc
  /\ UNCHANGED <<pipe, lock, asleep, killed, locals, last>>

\* Mutant: the page is freed by whoever closes the read end.
FreePipeMutant(ropen, wopen) == allocated' = (allocated /\ ropen)

FreePipe(ropen, wopen) == allocated' = (allocated /\ (ropen \/ wopen))

PipeCloseWrite(p) ==
  /\ At(p, "close_w")
  /\ lock = NoProc
  /\ writeopen' = FALSE
  /\ asleep' = wakeup("nread")
  /\ FreePipe(readopen, FALSE)
  /\ Goto(p, "user")
  /\ UNCHANGED <<data, nread, nwrite, readopen, lock, ends, killed, locals,
                 last>>

PipeCloseRead(p) ==
  /\ At(p, "close_r")
  /\ lock = NoProc
  /\ readopen' = FALSE
  /\ asleep' = wakeup("nwrite")
  /\ FreePipe(FALSE, writeopen)
  /\ Goto(p, "user")
  /\ UNCHANGED <<data, nread, nwrite, writeopen, lock, ends, killed, locals,
                 last>>

Kill(p) ==
  /\ killed' = [killed EXCEPT ![p] = TRUE]
  /\ asleep' = [asleep EXCEPT ![p] = "no"]
  /\ UNCHANGED <<pipe, lock, ends, pc, locals, last>>

\* What a process does in the kernel, once it has called read() or write().
Step(p) ==
  \/ WriteLock(p) \/ WriteFail(p) \/ WriteWait(p) \/ WriteSleep(p)
  \/ WriteByte(p) \/ WriteDone(p)
  \/ ReadLock(p) \/ ReadFail(p) \/ ReadWait(p) \/ ReadSleep(p)
  \/ ReadReady(p) \/ ReadByte(p) \/ ReadFault(p) \/ ReadDone(p)
  \/ PipeCloseWrite(p) \/ PipeCloseRead(p)

Next ==
  \/ \E p \in Procs : \/ WriteCall(p) \/ ReadCall(p) \/ Step(p)
                      \/ \E e \in {"r", "w"} : CloseEnd(p, e)
  \/ \E p \in Victims : Kill(p)

Spec == Init /\ [][Next]_vars

\* usertrap() makes a killed process exit, and exit() closes its files.
ExitClose(p) == killed[p] /\ \E e \in {"r", "w"} : CloseEnd(p, e)

\* A thread in the kernel runs, and a spinning acquire() gets a lock that is
\* free again and again.
FairSpec == Spec /\ \A p \in Procs : SF_vars(Step(p) \/ ExitClose(p))

-----------------------------------------------------------------------------
(* Properties                                                              *)

Pcs == {"user", "w_acquire", "w_loop", "w_sleep",
        "r_acquire", "r_test", "r_sleep", "r_loop", "close_w", "close_r"}

\* The pipe's fields, pi->lock and the locals of its readers and writers have
\* their types; nread and nwrite stay below WRAP.
TypeOK ==
  /\ data \in [0..PIPESIZE - 1 -> Bytes]
  /\ nread \in 0..WRAP - 1 /\ nwrite \in 0..WRAP - 1
  /\ readopen \in BOOLEAN /\ writeopen \in BOOLEAN /\ allocated \in BOOLEAN
  /\ lock \in Procs \cup {NoProc}
  /\ ends \in [Procs -> SUBSET {"r", "w"}]
  /\ pc \in [Procs -> Pcs]
  /\ asleep \in [Procs -> {"no", "nread", "nwrite"}]
  /\ killed \in [Procs -> BOOLEAN]
  /\ i \in [Procs -> Nat] /\ n \in [Procs -> Nat]
  /\ last \in Bytes

HolderAt(labels) == lock # NoProc /\ pc[lock] \in labels

\* A process is asleep in piperead() or pipewrite() only while there is nothing
\* for it to do, or while the process that has just changed that still holds
\* pi->lock and has its wakeup() before it.  A writer killed in mid-call does leave
\* a reader asleep with bytes in the pipe (see DataReachesReader), so states with a
\* killed process are excused from the part about bytes.
NoLostWakeup ==
  \A p \in Procs :
    /\ asleep[p] = "nread" =>
         /\ writeopen
         /\ Empty \/ HolderAt({"w_loop"}) \/ (\E q \in Procs : killed[q])
    /\ asleep[p] = "nwrite" => readopen /\ (Full \/ HolderAt({"r_loop"}))

\* No process reads, writes, sleeps on or is about to close a pipe whose page
\* pipeclose() has given back, and a page is not lost: it is kept only while an
\* end is open or about to be closed.
PageInUse ==
  allocated <=> \/ \E p \in Procs : ends[p] # {}
                \/ \E p \in Procs : pc[p] # "user"

\* read() reports the end of the stream (0 bytes for n > 0) only when no process
\* has the write end open any more.
EofMeansNoWriter ==
  [][\A p \in Procs :
       /\ At(p, "r_loop") /\ pc'[p] = "user"
       /\ i[p] = 0 /\ n[p] > 0 /\ nread' = nread
       => Holders("w") = {}]_vars

\* The bytes of the ring d between the counters r and w.
Ring(d, r, w) == [j \in 1..((w - r) % WRAP) |-> d[(r + j - 1) % PIPESIZE]]

queue == Ring(data, nread, nwrite)

Stream == INSTANCE ByteStream WITH
            Capacity <- PIPESIZE, wopen <- writeopen, ropen <- readopen

\* The ring of pipe.c with its wrapping counters is a first-in first-out stream
\* of at most PIPESIZE bytes: none is lost, overwritten, repeated or reordered.
IsByteStream == Stream!Spec

InCall(p, e) ==
  pc[p] \in IF e = "w" THEN {"w_acquire", "w_loop", "w_sleep"}
                       ELSE {"r_acquire", "r_test", "r_sleep", "r_loop"}

\* A write() that no process can read any more, and a read() that no process
\* can write for any more, return: pipeclose() wakes whoever waits.
PeerGoneReturns ==
  \A p \in Procs :
    /\ (InCall(p, "r") /\ Holders("w") = {}) ~> ~InCall(p, "r")
    /\ (InCall(p, "w") /\ Holders("r") = {}) ~> ~InCall(p, "w")

\* A reader does not sleep for ever beside bytes it could read: piperead()
\* sleeps for an empty pipe only.
DataReachesReader ==
  \A p \in Procs :
    (asleep[p] = "nread" /\ ~Empty) ~> (asleep[p] = "no" \/ Empty)
=============================================================================
