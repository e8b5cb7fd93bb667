-------------------------------- MODULE Log --------------------------------
(* The write-ahead log of kernel/log.c for one device, with crashes.      *)
(*                                                                        *)
(* System calls of several processes share one transaction.  The disk is  *)
(* an array of blocks: the header, the log's data blocks, then the home   *)
(* blocks (inodes, bitmap, data), as mkfs lays them out.  A block is two  *)
(* sectors, so a crash during a write may leave it Torn; the header's     *)
(* fields fit in its first sector and change at once.  A critical section *)
(* under log.lock is one action; every disk write is two.                 *)
(*                                                                        *)
(* The buffer cache is kept as the contents each block has in memory, and *)
(* the pins of the log.  It is taken at its word that it recycles no      *)
(* buffer in use.  refcnt is an unsigned int; -1 stands for its maximum.  *)
EXTENDS Integers, Sequences, FiniteSets

CONSTANTS Procs,        \* processes that make file system calls
          NHome,        \* number of home blocks
          LOGSIZE,      \* param.h
          MAXOPBLOCKS,  \* param.h: blocks begin_op() reserves for a system call
          OpBlocks,     \* bound: blocks a system call really writes
          nlog,         \* blocks of the on-disk log, header included
          MaxOps,       \* bound: number of system calls
          MaxCrashes,   \* bound: number of crashes
          FullBoots     \* bound: boots, from the first, in which buffers run short

ASSUME SizesAssumption ==
  /\ "boot" \notin Procs
  /\ NHome \in Nat \ {0} /\ LOGSIZE \in Nat /\ MAXOPBLOCKS \in Nat \ {0}
  /\ OpBlocks \in 0 .. MAXOPBLOCKS
  /\ nlog \in Nat \ {0} /\ MaxOps \in Nat /\ MaxCrashes \in Nat
  /\ FullBoots \in Nat

Addrs == 0 .. nlog + NHome - 1       \* block 0 here is sb.logstart
Home  == nlog .. nlog + NHome - 1    \* from sb.inodestart
Torn  == -1
boot  == "boot"                      \* the thread that runs initlog()
LogThreads == Procs \cup {boot}

VARIABLES disk,         \* contents of the blocks, the header's apart
          head,         \* the on-disk header: sequence of block numbers
          cache,        \* contents of the blocks as seen in memory
          pins,         \* refcnt contributed by bpin() and bunpin()
          lh,           \* log.lh.block[0 .. lh.n - 1]
          outstanding,  \* log.outstanding
          committing,   \* log.committing
          panicked,     \* panic() was called
          pc, blk, tail, written, op,  \* per thread
          nops, crashes                \* counters for the bounds

volatile == <<cache, pins, lh, outstanding, committing>>
locals   == <<pc, blk, tail, written, op>>
bounds   == <<nops, crashes>>
vars     == <<disk, head, volatile, panicked, locals, bounds>>

NoBlock == -1
Goto(p, l) == pc' = [pc EXCEPT ![p] = l]
Logged == {lh[i] : i \in 1 .. Len(lh)}
HeldBufs == {blk[p] : p \in LogThreads}

Boot ==
  /\ pc = [p \in LogThreads |-> IF p = boot THEN "read_head" ELSE "down"]
  /\ blk = [p \in LogThreads |-> NoBlock]
  /\ tail = [p \in LogThreads |-> 0]
  /\ written = [p \in LogThreads |-> {}]
  /\ op = [p \in LogThreads |-> 0]
  /\ pins = [a \in Addrs |-> 0]
  /\ lh = <<>>
  /\ outstanding = 0
  /\ committing = FALSE

Init ==
  /\ disk = [a \in Addrs |-> 0]
  /\ head = <<>>
  /\ cache = disk
  /\ panicked = FALSE
  /\ nops = 0 /\ crashes = 0
  /\ Boot

(***************************************************************************)
(* begin_op().  wakeup(&log) makes every sleeper look again.               *)
(***************************************************************************)
BeginCall(p) ==
  /\ pc[p] = "idle"
  /\ nops < MaxOps
  /\ Goto(p, "begin")
  /\ nops' = nops + 1
  /\ op' = [op EXCEPT ![p] = nops + 1]
  /\ UNCHANGED <<disk, head, volatile, panicked, blk, tail, written, crashes>>

\* Mutant: the caller's own blocks are not reserved.
MustWaitOthersOnly == committing \/ Len(lh) + outstanding * MAXOPBLOCKS > LOGSIZE

MustWait == committing \/ Len(lh) + (outstanding + 1) * MAXOPBLOCKS > LOGSIZE

BeginSleep(p) ==
  /\ pc[p] = "begin"
  /\ MustWait
  /\ Goto(p, "asleep")
  /\ UNCHANGED <<disk, head, volatile, panicked, blk, tail, written, op, bounds>>

BeginOp(p) ==
  /\ pc[p] = "begin"
  /\ ~MustWait
  /\ outstanding' = outstanding + 1
  /\ Goto(p, "op")
  /\ UNCHANGED <<disk, head, cache, pins, lh, committing, panicked,
                 blk, tail, written, op, bounds>>

wakeup(p, l) ==
  pc' = [q \in LogThreads |-> IF q = p THEN l
                              ELSE IF pc[q] = "asleep" THEN "begin" ELSE pc[q]]

(***************************************************************************)
(* A system call modifies a locked buffer and calls log_write(), whose     *)
(* checks are made before it takes log.lock.                               *)
(***************************************************************************)
TooBig == Len(lh) >= LOGSIZE \/ Len(lh) >= nlog - 1

Modify(p) ==
  /\ pc[p] = "op"
  /\ \E b \in Home \ HeldBufs :
       /\ Cardinality(written[p] \cup {b}) <= OpBlocks
       /\ cache' = [cache EXCEPT ![b] = op[p]]
       /\ blk' = [blk EXCEPT ![p] = b]
       /\ written' = [written EXCEPT ![p] = @ \cup {b}]
  /\ Goto(p, "append")
  /\ panicked' = (TooBig \/ outstanding < 1)
  /\ UNCHANGED <<disk, head, pins, lh, outstanding, committing, tail, op, bounds>>

LogWrite(p) ==
  /\ pc[p] = "append"
  /\ IF blk[p] \in Logged
       THEN UNCHANGED <<lh, pins>>
       ELSE /\ lh' = Append(lh, blk[p])
            /\ pins' = [pins EXCEPT ![blk[p]] = @ + 1]
  /\ blk' = [blk EXCEPT ![p] = NoBlock]
  /\ Goto(p, "op")
  /\ UNCHANGED <<disk, head, cache, outstanding, committing, panicked,
                 tail, written, op, bounds>>

(***************************************************************************)
(* end_op() and commit().                                                  *)
(***************************************************************************)
EndOp(p) ==
  /\ pc[p] = "op"
  /\ outstanding' = outstanding - 1
  /\ panicked' = committing
  /\ IF outstanding = 1
       THEN /\ committing' = TRUE
            /\ Goto(p, IF lh = <<>> THEN "committed" ELSE "write_log")
       ELSE wakeup(p, "idle") /\ UNCHANGED committing
  /\ written' = [written EXCEPT ![p] = {}]
  /\ op' = [op EXCEPT ![p] = 0]
  /\ UNCHANGED <<disk, head, cache, pins, lh, blk, tail, bounds>>

\* bwrite() of the cached block a, in two steps.
StartWrite(p, a) ==
  /\ disk' = [disk EXCEPT ![a] = Torn]
  /\ blk' = [blk EXCEPT ![p] = a]

FinishWrite(p) ==
  /\ disk' = [disk EXCEPT ![blk[p]] = cache[blk[p]]]
  /\ blk' = [blk EXCEPT ![p] = NoBlock]

\* write_log(): copy a block from the cache to the next log block.
WriteLog(p) ==
  /\ pc[p] = "write_log"
  /\ tail[p] < Len(lh)
  /\ cache' = [cache EXCEPT ![tail[p] + 1] = cache[lh[tail[p] + 1]]]
  /\ StartWrite(p, tail[p] + 1)
  /\ Goto(p, "write_log_io")
  /\ UNCHANGED <<head, pins, lh, outstanding, committing, panicked,
                 tail, written, op, bounds>>

WriteLogDone(p) ==
  /\ pc[p] = "write_log_io"
  /\ FinishWrite(p)
  /\ tail' = [tail EXCEPT ![p] = @ + 1]
  /\ Goto(p, "write_log")
  /\ UNCHANGED <<head, volatile, panicked, written, op, bounds>>

\* Mutant: the header is written one block too early.
WriteHeadMutant(p) ==
  /\ pc[p] = "write_log"
  /\ tail[p] + 1 = Len(lh)
  /\ head' = lh
  /\ tail' = [tail EXCEPT ![p] = 0]
  /\ Goto(p, "install")
  /\ UNCHANGED <<disk, volatile, panicked, blk, written, op, bounds>>

\* write_head(): the real commit.
WriteHead(p) ==
  /\ pc[p] = "write_log"
  /\ tail[p] = Len(lh)
  /\ head' = lh
  /\ tail' = [tail EXCEPT ![p] = 0]
  /\ Goto(p, "install")
  /\ UNCHANGED <<disk, volatile, panicked, blk, written, op, bounds>>

\* install_trans(): copy a log block to its home and unpin the home's buffer.
Install(p) ==
  /\ pc[p] = "install"
  /\ tail[p] < Len(lh)
  /\ cache' = [cache EXCEPT ![lh[tail[p] + 1]] = cache[tail[p] + 1]]
  /\ StartWrite(p, lh[tail[p] + 1])
  /\ Goto(p, "install_io")
  /\ UNCHANGED <<head, pins, lh, outstanding, committing, panicked,
                 tail, written, op, bounds>>

InstallDone(p) ==
  /\ pc[p] = "install_io"
  /\ FinishWrite(p)
  /\ pins' = [pins EXCEPT ![blk[p]] = @ - 1]
  /\ tail' = [tail EXCEPT ![p] = @ + 1]
  /\ Goto(p, "install")
  /\ UNCHANGED <<head, cache, lh, outstanding, committing, panicked,
                 written, op, bounds>>

\* lh.n = 0; write_head(): erase the transaction.  Recovery ends here.
ClearHead(p) ==
  /\ pc[p] = "install"
  /\ tail[p] = Len(lh)
  /\ lh' = <<>>
  /\ head' = <<>>
  /\ tail' = [tail EXCEPT ![p] = 0]
  /\ pc' = IF p = boot THEN [q \in LogThreads |-> IF q = boot THEN "down" ELSE "idle"]
                       ELSE [pc EXCEPT ![p] = "committed"]
  /\ UNCHANGED <<disk, cache, pins, outstanding, committing, panicked,
                 blk, written, op, bounds>>

\* Mutant: the processes that wait for the commit are not woken.
CommittedMutant(p) ==
  /\ pc[p] = "committed"
  /\ committing' = FALSE
  /\ Goto(p, "idle")
  /\ UNCHANGED <<disk, head, cache, pins, lh, outstanding, panicked,
                 blk, tail, written, op, bounds>>

Committed(p) ==
  /\ pc[p] = "committed"
  /\ committing' = FALSE
  /\ wakeup(p, "idle")
  /\ UNCHANGED <<disk, head, cache, pins, lh, outstanding, panicked,
                 blk, tail, written, op, bounds>>

(***************************************************************************)
(* A crash loses everything but the disk; recover_from_log() runs in the   *)
(* first process before any other can make a system call.                  *)
(***************************************************************************)
Crash ==
  /\ crashes < MaxCrashes
  /\ crashes' = crashes + 1
  /\ cache' = disk
  /\ pc' = [p \in LogThreads |-> IF p = boot THEN "read_head" ELSE "down"]
  /\ blk' = [p \in LogThreads |-> NoBlock]
  /\ tail' = [p \in LogThreads |-> 0]
  /\ written' = [p \in LogThreads |-> {}]
  /\ op' = [p \in LogThreads |-> 0]
  /\ pins' = [a \in Addrs |-> 0]
  /\ lh' = <<>>
  /\ outstanding' = 0
  /\ committing' = FALSE
  /\ UNCHANGED <<disk, head, panicked, nops>>

ReadHead ==
  /\ pc[boot] = "read_head"
  /\ lh' = head
  /\ Goto(boot, "install")
  /\ UNCHANGED <<disk, head, cache, pins, outstanding, committing, panicked,
                 blk, tail, written, op, bounds>>

\* bget() gives the buffer of block a, whose refcnt is 0, to another block; a is
\* read back later.
Recycle(a) ==
  /\ crashes < FullBoots
  /\ pins[a] = 0
  /\ a \notin HeldBufs
  /\ cache' = [cache EXCEPT ![a] = disk[a]]
  /\ UNCHANGED <<disk, head, pins, lh, outstanding, committing, panicked,
                 locals, bounds>>

\* The bound on system calls is reached: nothing is left to do.
AllDone ==
  /\ nops = MaxOps
  /\ \A p \in Procs : pc[p] = "idle"
  /\ UNCHANGED vars

---------------------------------------------------------------------------
CommitStep(p) == WriteLog(p) \/ WriteLogDone(p) \/ WriteHead(p) \/ Install(p)
                   \/ InstallDone(p) \/ ClearHead(p) \/ Committed(p)
OpStep(p) == BeginSleep(p) \/ BeginOp(p) \/ LogWrite(p)

Next == /\ ~panicked
        /\ \/ \E p \in Procs : BeginCall(p) \/ OpStep(p) \/ Modify(p) \/ EndOp(p)
           \/ \E p \in LogThreads : CommitStep(p)
           \/ ReadHead \/ Crash \/ AllDone
           \/ \E a \in Addrs : Recycle(a)

Spec == Init /\ [][Next]_vars

\* A thread that can run does; a system call returns in the end; a waiter that
\* finds room again and again when it looks takes it.
Fairness == /\ WF_vars(ReadHead)
            /\ \A p \in LogThreads : WF_vars(CommitStep(p))
            /\ \A p \in Procs : /\ WF_vars(LogWrite(p) \/ BeginSleep(p))
                                /\ SF_vars(EndOp(p) \/ BeginOp(p))

FairSpec == Spec /\ Fairness

---------------------------------------------------------------------------
(***************************************************************************)
(* Properties.                                                             *)
(***************************************************************************)
PCs == {"down", "idle", "begin", "asleep", "op", "append", "write_log",
        "write_log_io", "install", "install_io", "committed", "read_head"}
Values == 0 .. MaxOps

\* Every variable has its type.
TypeOK ==
  /\ disk \in [Addrs -> Values \cup {Torn}]
  /\ cache \in [Addrs -> Values \cup {Torn}]
  /\ head \in Seq(Home) /\ lh \in Seq(Home)
  /\ pins \in [Addrs -> Int]
  /\ outstanding \in Nat
  /\ committing \in BOOLEAN /\ panicked \in BOOLEAN
  /\ pc \in [LogThreads -> PCs]
  /\ blk \in [LogThreads -> Addrs \cup {NoBlock}]
  /\ tail \in [LogThreads -> Nat]
  /\ written \in [LogThreads -> SUBSET Home]
  /\ op \in [LogThreads -> Values]
  /\ nops \in 0 .. MaxOps /\ crashes \in 0 .. MaxCrashes

Running == pc[boot] = "down"
InMemory == [b \in Home |-> cache[b]]

\* What recover_from_log() would make of the disk as it is.
Recovered ==
  [b \in Home |-> IF \E i \in 1 .. Len(head) : head[i] = b
                    THEN disk[CHOOSE i \in 1 .. Len(head) : head[i] = b]
                    ELSE disk[b]]

\* The atomic disk this log implements.
Atomic == INSTANCE AtomicDisk WITH
            mem <- IF Running THEN InMemory ELSE Recovered,
            stable <- Recovered,
            active <- {p \in Procs : pc[p] \in {"op", "append"}}

\* Once the last end_op() has finished its commit, every update is on disk.
QuiescentDurable ==
  Running /\ outstanding = 0 /\ ~committing => Recovered = InMemory

\* Whatever the interleaving of system calls and wherever a crash falls, in a
\* commit or in a recovery, the disk recovers to a moment at which no system
\* call was in progress: "there is never any reasoning required about whether
\* a commit might write an uncommitted system call's updates to disk".  And
\* the updates of the calls that have returned are there once nobody commits.
CrashAtomic == Atomic!Spec /\ []QuiescentDurable

\* "Record the block number and pin in the cache by increasing refcnt": until it
\* is installed, the only copy of a logged block cannot be recycled.
PinnedWhileLogged ==
  Running /\ (\A p \in Procs : pc[p] \notin {"install", "install_io"})
    => \A b \in Logged : pins[b] > 0

\* The transaction stays within the on-disk log, and no panic is reached: "max
\* data blocks in on-disk log" are LOGSIZE, and begin_op() reserves up to that.
LogFits == ~panicked /\ Len(lh) < nlog

\* A system call that waits in begin_op() is admitted, or a crash ends it.
Admitted ==
  \A p \in Procs : pc[p] = "begin" ~> pc[p] \in {"op", "down"}

============================================================================
