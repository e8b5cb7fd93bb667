------------------------------- MODULE Proc -------------------------------
(* The life cycle of a process in kernel/proc.c: fork, exit, wait, kill   *)
(* and the scheduler's dispatch, at the granularity of the per-process    *)
(* spinlocks p->lock.                                                     *)
(*                                                                        *)
(* A critical section that takes one p->lock and no other is one action.  *)
(* Where the code holds one p->lock and takes a second (wait, exit,       *)
(* reparent), or reads p->parent without the lock, every acquire and      *)
(* every such read is an action of its own, so that all the interleavings *)
(* of several exiting, waiting and forking processes appear.  A lock is   *)
(* held by a process; the scheduler's acquire(&p->lock) is handed over to *)
(* p by swtch(), so it is p's.  Preemption (yield) only delays a process  *)
(* and CPUs are not counted.                                              *)
EXTENDS Integers, FiniteSets

CONSTANTS NPROC,      \* number of slots of proc[]
          MaxPid,     \* bound: fork stops when allocpid() passes this pid
          KillPids,   \* bound: the arguments user programs give to kill()
          Failures    \* bound: whether kalloc(), copyout() and user code fail

ASSUME NPROCAssumption == NPROC \in Nat \ {0}
ASSUME KillPidsAssumption == KillPids \subseteq Nat /\ 1 \notin KillPids
ASSUME FailuresAssumption == Failures \in BOOLEAN

Slots == 0 .. NPROC - 1
initproc == 0
NoProc == -1

VARIABLES state,     \* p->state
          parent,    \* p->parent
          chan,      \* p->chan; a slot stands for &proc[slot]
          killed,    \* p->killed
          pid,       \* p->pid
          nextpid,   \* the pid counter
          lock,      \* holder of p->lock
          pc,        \* where p's kernel thread stands
          orig,      \* exit()'s original_parent
          idx,       \* the slot a scan of proc[] has reached
          havekids,  \* wait()'s havekids
          target,    \* kill()'s argument
          victims    \* history: every pid kill() or a fault was aimed at

table  == <<state, parent, chan, killed, pid, nextpid>>
locals == <<orig, idx, havekids, target>>
vars   == <<table, lock, pc, locals, victims>>

States == {"UNUSED", "SLEEPING", "RUNNABLE", "RUNNING", "ZOMBIE"}
\* Points of the code at which a thread holds no lock and is on a CPU.
Unlocked == {"user", "fork_scan", "kill_scan", "wait_enter",
             "exit_init", "exit_orig", "exit_parent"}
\* The rest of exit() and wait().
Exiting == {"exit_self", "exit_scan", "exit_child"}
Waiting == {"wait_scan", "wait_child"}
PCs == {"none", "ret", "zombie", "exit_sched", "wait_sched", "wait_asleep"}
         \cup Unlocked \cup Exiting \cup Waiting

At(p, l) == p \in Slots /\ pc[p] = l
Goto(p, l) == pc' = [pc EXCEPT ![p] = l]
Free(s) == lock[s] = NoProc

\* The end of a system call; its local variables are dead.
Return(p) ==
  /\ Goto(p, "user")
  /\ idx' = [idx EXCEPT ![p] = 0]
  /\ havekids' = [havekids EXCEPT ![p] = FALSE]
  /\ target' = [target EXCEPT ![p] = 0]
  /\ UNCHANGED orig

(***************************************************************************)
(* main() after userinit(): init is RUNNABLE in slot 0 with pid 1.         *)
(***************************************************************************)
Init ==
  /\ state = [s \in Slots |-> IF s = initproc THEN "RUNNABLE" ELSE "UNUSED"]
  /\ parent = [s \in Slots |-> NoProc]
  /\ chan = [s \in Slots |-> NoProc]
  /\ killed = [s \in Slots |-> FALSE]
  /\ pid = [s \in Slots |-> IF s = initproc THEN 1 ELSE 0]
  /\ nextpid = 2
  /\ lock = [s \in Slots |-> NoProc]
  /\ pc = [s \in Slots |-> IF s = initproc THEN "ret" ELSE "none"]
  /\ orig = [s \in Slots |-> NoProc]
  /\ idx = [s \in Slots |-> 0]
  /\ havekids = [s \in Slots |-> FALSE]
  /\ target = [s \in Slots |-> 0]
  /\ victims = {}

(***************************************************************************)
(* Switching.  scheduler() takes p->lock and swtches to p, which releases  *)
(* it; a process that calls sched() holds p->lock, which the scheduler     *)
(* thread of its CPU then releases.                                        *)
(***************************************************************************)
Dispatch(p) ==
  /\ state[p] = "RUNNABLE"
  /\ Free(p)
  /\ state' = [state EXCEPT ![p] = "RUNNING"]
  /\ lock' = [lock EXCEPT ![p] = p]
  /\ UNCHANGED <<parent, chan, killed, pid, nextpid, pc, locals, victims>>

Forkret(p) ==
  /\ At(p, "ret")
  /\ state[p] = "RUNNING"
  /\ lock' = [lock EXCEPT ![p] = NoProc]
  /\ Goto(p, "user")
  /\ UNCHANGED <<table, locals, victims>>

Sched(p) ==
  /\ \/ At(p, "exit_sched") /\ Goto(p, "zombie")
     \/ At(p, "wait_sched") /\ Goto(p, "wait_asleep")
  /\ lock' = [lock EXCEPT ![p] = NoProc]
  /\ UNCHANGED <<table, locals, victims>>

(***************************************************************************)
(* fork().  allocproc() visits the slots in order, locking each.  A slot   *)
(* it finds UNUSED gets a pid; p->killed is left as it is.                 *)
(***************************************************************************)
ForkCall(p) ==
  /\ At(p, "user")
  /\ ~killed[p]
  /\ nextpid + Cardinality({q \in Slots : pc[q] = "fork_scan"}) <= MaxPid
  /\ Goto(p, "fork_scan")
  /\ idx' = [idx EXCEPT ![p] = 0]
  /\ UNCHANGED <<table, lock, orig, havekids, target, victims>>

ForkSkip(p) ==
  /\ At(p, "fork_scan")
  /\ idx[p] < NPROC
  /\ Free(idx[p])
  /\ state[idx[p]] # "UNUSED"
  /\ idx' = [idx EXCEPT ![p] = @ + 1]
  /\ UNCHANGED <<table, lock, pc, orig, havekids, target, victims>>

ForkNoSlot(p) ==
  /\ At(p, "fork_scan")
  /\ idx[p] = NPROC
  /\ Return(p)
  /\ UNCHANGED <<table, lock, victims>>

\* Mutant: a slot that holds a zombie is taken for a free one.
allocprocMutant(p) ==
  /\ At(p, "fork_scan")
  /\ idx[p] < NPROC
  /\ Free(idx[p])
  /\ state[idx[p]] \in {"UNUSED", "ZOMBIE"}
  /\ nextpid' = nextpid + 1
  /\ UNCHANGED <<lock, victims>>

allocproc(p) ==
  /\ At(p, "fork_scan")
  /\ idx[p] < NPROC
  /\ Free(idx[p])
  /\ state[idx[p]] = "UNUSED"
  /\ nextpid' = nextpid + 1
  /\ UNCHANGED <<lock, victims>>

Fork(p) ==
  /\ allocproc(p)
  /\ pid' = [pid EXCEPT ![idx[p]] = nextpid]
  /\ parent' = [parent EXCEPT ![idx[p]] = p]
  /\ state' = [state EXCEPT ![idx[p]] = "RUNNABLE"]
  /\ pc' = [pc EXCEPT ![p] = "user", ![idx[p]] = "ret"]
  /\ idx' = [idx EXCEPT ![p] = 0]
  /\ UNCHANGED <<chan, killed, orig, havekids, target>>

\* kalloc() of the trapframe fails: the slot stays UNUSED but keeps the pid.
ForkNoTrapframe(p) ==
  /\ Failures
  /\ allocproc(p)
  /\ pid' = [pid EXCEPT ![idx[p]] = nextpid]
  /\ Return(p)
  /\ UNCHANGED <<state, parent, chan, killed>>

\* What freeproc() leaves in slot s.
freeproc(s) ==
  /\ state' = [state EXCEPT ![s] = "UNUSED"]
  /\ parent' = [parent EXCEPT ![s] = NoProc]
  /\ chan' = [chan EXCEPT ![s] = NoProc]
  /\ killed' = [killed EXCEPT ![s] = FALSE]
  /\ pid' = [pid EXCEPT ![s] = 0]

\* uvmcopy() fails.
ForkNoMemory(p) ==
  /\ Failures
  /\ allocproc(p)
  /\ freeproc(idx[p])
  /\ Return(p)

(***************************************************************************)
(* kill(target) by p: locks the slots in order until one has the pid.      *)
(***************************************************************************)
KillCall(p) ==
  /\ At(p, "user")
  /\ ~killed[p]
  /\ \E k \in KillPids : target' = [target EXCEPT ![p] = k]
  /\ idx' = [idx EXCEPT ![p] = 0]
  /\ Goto(p, "kill_scan")
  /\ UNCHANGED <<table, lock, orig, havekids, victims>>

KillSkip(p) ==
  /\ At(p, "kill_scan")
  /\ idx[p] < NPROC
  /\ Free(idx[p])
  /\ pid[idx[p]] # target[p]
  /\ idx' = [idx EXCEPT ![p] = @ + 1]
  /\ UNCHANGED <<table, lock, pc, orig, havekids, target, victims>>

\* Mutant: a sleeping victim is not woken.
KillMutant(p) ==
  /\ At(p, "kill_scan")
  /\ idx[p] < NPROC
  /\ Free(idx[p])
  /\ pid[idx[p]] = target[p]
  /\ killed' = [killed EXCEPT ![idx[p]] = TRUE]
  /\ victims' = victims \cup {target[p]}
  /\ Return(p)
  /\ UNCHANGED <<state, parent, chan, pid, nextpid, lock>>

Kill(p) ==
  /\ At(p, "kill_scan")
  /\ idx[p] < NPROC
  /\ Free(idx[p])
  /\ pid[idx[p]] = target[p]
  /\ killed' = [killed EXCEPT ![idx[p]] = TRUE]
  /\ state' = [state EXCEPT ![idx[p]] =
                 IF @ = "SLEEPING" THEN "RUNNABLE" ELSE @]
  /\ victims' = victims \cup {target[p]}
  /\ Return(p)
  /\ UNCHANGED <<parent, chan, pid, nextpid, lock>>

KillNone(p) ==
  /\ At(p, "kill_scan")
  /\ idx[p] = NPROC
  /\ Return(p)
  /\ UNCHANGED <<table, lock, victims>>

(***************************************************************************)
(* exit().  init never gets past the first line: panic("init exiting").    *)
(* Closing files and the current directory is left out.                    *)
(***************************************************************************)
ExitCall(p) ==
  /\ At(p, "user")
  /\ ~killed[p]
  /\ p # initproc
  /\ Goto(p, "exit_init")
  /\ UNCHANGED <<table, lock, locals, victims>>

\* usertrap(): the killed checks before and after syscall() and interrupts.
TrapKilled(p) ==
  /\ At(p, "user")
  /\ killed[p]
  /\ p # initproc
  /\ Goto(p, "exit_init")
  /\ UNCHANGED <<table, lock, locals, victims>>

\* usertrap(): an unexpected scause sets p->killed and exits.
TrapFault(p) ==
  /\ Failures
  /\ At(p, "user")
  /\ p # initproc
  /\ killed' = [killed EXCEPT ![p] = TRUE]
  /\ victims' = victims \cup {pid[p]}
  /\ Goto(p, "exit_init")
  /\ UNCHANGED <<state, parent, chan, pid, nextpid, lock, locals>>

\* Mutant: the parent is not woken.
wakeup1Mutant(q) == state

\* The process states after wakeup1(q), which sleeps in wait() if chan = q.
wakeup1(q) ==
  IF chan[q] = q /\ state[q] = "SLEEPING"
    THEN [state EXCEPT ![q] = "RUNNABLE"] ELSE state

ExitWakeInit(p) ==
  /\ At(p, "exit_init")
  /\ Free(initproc)
  /\ state' = wakeup1(initproc)
  /\ Goto(p, "exit_orig")
  /\ UNCHANGED <<parent, chan, killed, pid, nextpid, lock, locals, victims>>

\* Mutant: p->lock is not released before the parent's is taken.
ExitGetParentMutant(p) ==
  /\ At(p, "exit_orig")
  /\ Free(p)
  /\ orig' = [orig EXCEPT ![p] = parent[p]]
  /\ lock' = [lock EXCEPT ![p] = p]
  /\ Goto(p, "exit_parent")
  /\ UNCHANGED <<table, idx, havekids, target, victims>>

ExitGetParent(p) ==
  /\ At(p, "exit_orig")
  /\ Free(p)
  /\ orig' = [orig EXCEPT ![p] = parent[p]]
  /\ Goto(p, "exit_parent")
  /\ UNCHANGED <<table, lock, idx, havekids, target, victims>>

ExitLockParent(p) ==
  /\ At(p, "exit_parent")
  /\ Free(orig[p])
  /\ lock' = [lock EXCEPT ![orig[p]] = p]
  /\ Goto(p, "exit_self")
  /\ UNCHANGED <<table, locals, victims>>

ExitLockSelf(p) ==
  /\ At(p, "exit_self")
  /\ Free(p)
  /\ lock' = [lock EXCEPT ![p] = p]
  /\ idx' = [idx EXCEPT ![p] = 0]
  /\ Goto(p, "exit_scan")
  /\ UNCHANGED <<table, orig, havekids, target, victims>>

\* Mutant: zombie children are not given away.
ReparentCheckMutant(p) ==
  /\ At(p, "exit_scan")
  /\ idx[p] < NPROC
  /\ IF parent[idx[p]] = p /\ state[idx[p]] # "ZOMBIE"
       THEN Goto(p, "exit_child") /\ UNCHANGED idx
       ELSE idx' = [idx EXCEPT ![p] = @ + 1] /\ UNCHANGED pc
  /\ UNCHANGED <<table, lock, orig, havekids, target, victims>>

\* reparent(): the read of pp->parent takes no lock.
ReparentCheck(p) ==
  /\ At(p, "exit_scan")
  /\ idx[p] < NPROC
  /\ IF parent[idx[p]] = p
       THEN Goto(p, "exit_child") /\ UNCHANGED idx
       ELSE idx' = [idx EXCEPT ![p] = @ + 1] /\ UNCHANGED pc
  /\ UNCHANGED <<table, lock, orig, havekids, target, victims>>

ReparentChild(p) ==
  /\ At(p, "exit_child")
  /\ Free(idx[p])
  /\ parent' = [parent EXCEPT ![idx[p]] = initproc]
  /\ idx' = [idx EXCEPT ![p] = @ + 1]
  /\ Goto(p, "exit_scan")
  /\ UNCHANGED <<state, chan, killed, pid, nextpid, lock, orig, havekids,
                 target, victims>>

ExitZombie(p) ==
  /\ At(p, "exit_scan")
  /\ idx[p] = NPROC
  /\ state' = [wakeup1(orig[p]) EXCEPT ![p] = "ZOMBIE"]
  /\ lock' = [lock EXCEPT ![orig[p]] = NoProc]
  /\ Goto(p, "exit_sched")
  /\ idx' = [idx EXCEPT ![p] = 0]
  /\ orig' = [orig EXCEPT ![p] = NoProc]
  /\ UNCHANGED <<parent, chan, killed, pid, nextpid, havekids, target,
                 victims>>

(***************************************************************************)
(* wait().  p->lock is held from WaitEnter to the return, except asleep.   *)
(***************************************************************************)
WaitCall(p) ==
  /\ At(p, "user")
  /\ ~killed[p]
  /\ Goto(p, "wait_enter")
  /\ UNCHANGED <<table, lock, locals, victims>>

ScanFromStart(p) ==
  /\ idx' = [idx EXCEPT ![p] = 0]
  /\ havekids' = [havekids EXCEPT ![p] = FALSE]
  /\ Goto(p, "wait_scan")
  /\ UNCHANGED <<orig, target, victims>>

WaitEnter(p) ==
  /\ At(p, "wait_enter")
  /\ Free(p)
  /\ lock' = [lock EXCEPT ![p] = p]
  /\ ScanFromStart(p)
  /\ UNCHANGED table

\* The read of np->parent takes no lock.
WaitCheck(p) ==
  /\ At(p, "wait_scan")
  /\ idx[p] < NPROC
  /\ IF parent[idx[p]] = p
       THEN Goto(p, "wait_child") /\ UNCHANGED idx
       ELSE idx' = [idx EXCEPT ![p] = @ + 1] /\ UNCHANGED pc
  /\ UNCHANGED <<table, lock, orig, havekids, target, victims>>

WaitChildAlive(p) ==
  /\ At(p, "wait_child")
  /\ Free(idx[p])
  /\ state[idx[p]] # "ZOMBIE"
  /\ havekids' = [havekids EXCEPT ![p] = TRUE]
  /\ idx' = [idx EXCEPT ![p] = @ + 1]
  /\ Goto(p, "wait_scan")
  /\ UNCHANGED <<table, lock, orig, target, victims>>

WaitReap(p) ==
  /\ At(p, "wait_child")
  /\ Free(idx[p])
  /\ state[idx[p]] = "ZOMBIE"
  /\ freeproc(idx[p])
  /\ lock' = [lock EXCEPT ![p] = NoProc]
  /\ pc' = [pc EXCEPT ![p] = "user", ![idx[p]] = "none"]
  /\ idx' = [idx EXCEPT ![p] = 0]
  /\ havekids' = [havekids EXCEPT ![p] = FALSE]
  /\ UNCHANGED <<nextpid, orig, target, victims>>

\* copyout() of the exit status fails: the zombie stays.
WaitBadAddr(p) ==
  /\ Failures
  /\ At(p, "wait_child")
  /\ Free(idx[p])
  /\ state[idx[p]] = "ZOMBIE"
  /\ lock' = [lock EXCEPT ![p] = NoProc]
  /\ Return(p)
  /\ UNCHANGED <<table, victims>>

WaitFail(p) ==
  /\ At(p, "wait_scan")
  /\ idx[p] = NPROC
  /\ ~havekids[p] \/ killed[p]
  /\ lock' = [lock EXCEPT ![p] = NoProc]
  /\ Return(p)
  /\ UNCHANGED <<table, victims>>

\* Mutant: p->lock is released before sched().
WaitSleepMutant(p) ==
  /\ At(p, "wait_scan")
  /\ idx[p] = NPROC
  /\ havekids[p] /\ ~killed[p]
  /\ chan' = [chan EXCEPT ![p] = p]
  /\ state' = [state EXCEPT ![p] = "SLEEPING"]
  /\ lock' = [lock EXCEPT ![p] = NoProc]
  /\ Goto(p, "wait_sched")
  /\ idx' = [idx EXCEPT ![p] = 0]
  /\ havekids' = [havekids EXCEPT ![p] = FALSE]
  /\ UNCHANGED <<parent, killed, pid, nextpid, orig, target, victims>>

\* sleep(p, &p->lock) up to its call of sched().
WaitSleep(p) ==
  /\ At(p, "wait_scan")
  /\ idx[p] = NPROC
  /\ havekids[p] /\ ~killed[p]
  /\ chan' = [chan EXCEPT ![p] = p]
  /\ state' = [state EXCEPT ![p] = "SLEEPING"]
  /\ Goto(p, "wait_sched")
  /\ idx' = [idx EXCEPT ![p] = 0]
  /\ havekids' = [havekids EXCEPT ![p] = FALSE]
  /\ UNCHANGED <<parent, killed, pid, nextpid, lock, orig, target, victims>>

\* sleep() after sched() returns, and the next turn of wait()'s loop.
WaitResume(p) ==
  /\ At(p, "wait_asleep")
  /\ state[p] = "RUNNING"
  /\ chan' = [chan EXCEPT ![p] = NoProc]
  /\ ScanFromStart(p)
  /\ UNCHANGED <<state, parent, killed, pid, nextpid, lock>>

---------------------------------------------------------------------------
ForkStep(p) == ForkSkip(p) \/ ForkNoSlot(p) \/ Fork(p) \/ ForkNoTrapframe(p)
                 \/ ForkNoMemory(p)
KillStep(p) == KillSkip(p) \/ Kill(p) \/ KillNone(p)
ExitStep(p) == ExitWakeInit(p) \/ ExitGetParent(p) \/ ExitLockParent(p)
                 \/ ExitLockSelf(p) \/ ReparentCheck(p) \/ ReparentChild(p)
                 \/ ExitZombie(p)
WaitStep(p) == WaitEnter(p) \/ WaitCheck(p) \/ WaitChildAlive(p)
                 \/ WaitReap(p) \/ WaitBadAddr(p) \/ WaitFail(p)
                 \/ WaitSleep(p) \/ WaitResume(p)
UserStep(p) == ForkCall(p) \/ KillCall(p) \/ WaitCall(p) \/ ExitCall(p)
                 \/ TrapKilled(p) \/ TrapFault(p)

Next == \E p \in Slots :
          \/ Dispatch(p) \/ Forkret(p) \/ Sched(p) \/ UserStep(p)
          \/ ForkStep(p) \/ KillStep(p) \/ ExitStep(p) \/ WaitStep(p)

Spec == Init /\ [][Next]_vars

(***************************************************************************)
(* Fairness.  A kernel thread that can run keeps running, a spinning       *)
(* acquire() of a lock that is free again and again succeeds in the end,   *)
(* and the scheduler's loop comes back to every RUNNABLE process: SF of    *)
(* the thread's next step.  A timer interrupt takes a process in user      *)
(* space to usertrap(): WF of TrapKilled.  No user program is obliged to   *)
(* fork, wait, kill or exit.                                               *)
(***************************************************************************)
KernelStep(p) == Dispatch(p) \/ Forkret(p) \/ Sched(p) \/ ForkStep(p)
                   \/ KillStep(p) \/ ExitStep(p) \/ WaitStep(p)

Fairness == \A p \in Slots : SF_vars(KernelStep(p)) /\ WF_vars(TrapKilled(p))

FairSpec == Spec /\ Fairness

---------------------------------------------------------------------------
(***************************************************************************)
(* Properties.                                                             *)
(***************************************************************************)
\* Every variable has its type.
TypeOK ==
  /\ state \in [Slots -> States]
  /\ parent \in [Slots -> Slots \cup {NoProc}]
  /\ chan \in [Slots -> Slots \cup {NoProc}]
  /\ killed \in [Slots -> BOOLEAN]
  /\ pid \in [Slots -> Nat]
  /\ nextpid \in Nat
  /\ lock \in [Slots -> Slots \cup {NoProc}]
  /\ pc \in [Slots -> PCs]
  /\ orig \in [Slots -> Slots \cup {NoProc}]
  /\ idx \in [Slots -> 0 .. NPROC]
  /\ havekids \in [Slots -> BOOLEAN]
  /\ target \in [Slots -> Nat]
  /\ victims \subseteq Nat

\* wait() and reparent() read a slot's parent without its lock and then take
\* the lock: "pp->parent can't change between the check and the acquire()
\* because only the parent changes it, and we're the parent."
CheckedParentStable ==
  \A p \in Slots : pc[p] \in {"wait_child", "exit_child"}
                     => idx[p] \in Slots /\ parent[idx[p]] = p

\* p sleeps in wait(), or is about to with p->lock still held.
SleepsInWait(p) == pc[p] \in {"wait_sched", "wait_asleep"}
                     /\ state[p] = "SLEEPING"

\* wait() holds p->lock "for the whole time to avoid lost wakeups from a
\* child's exit()": no process but init sleeps in wait() with a zombie child.
NoMissedExit ==
  \A q \in Slots \ {initproc}, c \in Slots :
    SleepsInWait(q) /\ parent[c] = q => state[c] # "ZOMBIE"

\* reparent() has given every child away by the time exit() makes a process a
\* zombie, so nothing points at a slot that is free or about to be.
OrphansHaveInit ==
  \A p, c \in Slots : parent[c] = p => state[p] \notin {"ZOMBIE", "UNUSED"}

\* sched() panics unless its caller holds exactly one lock, p->lock.
SchedHoldsOnlyOwnLock ==
  \A p \in Slots : pc[p] \in {"exit_sched", "wait_sched"}
                     => {s \in Slots : lock[s] = p} = {p}

\* A process that a scheduler could dispatch or a parent could free is off its
\* kernel stack: it has gone through sched() or has never run.  exit() marks
\* itself ZOMBIE, and wait() itself SLEEPING, while still running on it.
StackQuiescent ==
  \A p \in Slots : Free(p) /\ state[p] \in {"RUNNABLE", "SLEEPING", "ZOMBIE"}
                     => pc[p] \in {"ret", "wait_asleep", "zombie"}

\* wait() returns -1 to a live process other than init only if it has no
\* children.  (init may be given a child in a slot its scan has passed.)
WaitFailsOnlyChildless ==
  [][\A p \in Slots \ {initproc} :
       WaitFail(p) /\ ~killed[p] => \A c \in Slots : parent[c] # p]_vars

\* The process tree this table stands for.
Tree == INSTANCE ProcTree WITH
          status <- [s \in Slots |-> CASE state[s] = "UNUSED" -> "free"
                                       [] state[s] = "ZOMBIE" -> "zombie"
                                       [] OTHER -> "live"],
          pid <- [s \in Slots |-> IF state[s] = "UNUSED" THEN 0 ELSE pid[s]],
          fresh <- nextpid

\* fork(), exit(), reparent() and wait() implement the process tree: every step
\* of the scans, locks and wakeups is a step of ProcTree or changes nothing there.
TreeSpec == Tree!Spec

\* The lock p is trying to acquire.
Wants(p) ==
  CASE pc[p] = "exit_init" -> initproc
    [] pc[p] \in {"exit_orig", "exit_self", "wait_enter"} -> p
    [] pc[p] = "exit_parent" -> orig[p]
    [] pc[p] \in {"exit_child", "wait_child"} -> idx[p]
    [] pc[p] \in {"fork_scan", "kill_scan"} /\ idx[p] < NPROC -> idx[p]
    [] OTHER -> NoProc

\* No set of processes wait for locks that only its members hold.  The
\* comments of exit(), reparent() and wait() argue this from the
\* parent-then-child locking order.
NoDeadlock ==
  \A S \in (SUBSET Slots) \ {{}} :
    \E p \in S : Wants(p) = NoProc \/ lock[Wants(p)] \notin S

\* "killed: If non-zero, have been killed": a process carries the flag only if
\* kill() was called with its pid, or it faulted.
KilledWasKilled ==
  \A p \in Slots : state[p] # "UNUSED" /\ killed[p] => pid[p] \in victims

\* A zombie whose parent has gone to sleep in wait() is noticed: "An exited
\* process remains in the zombie state until its parent calls wait()".
ZombieChildReaped ==
  \A p, c \in Slots :
    state[c] = "ZOMBIE" /\ parent[c] = p /\ pc[p] = "wait_asleep"
      ~> state[c] # "ZOMBIE" \/ pc[p] # "wait_asleep"

\* kill() wakes its victim out of wait(), and the victim exits when it tries
\* to return to user space.
KilledEventuallyExits ==
  \A p \in Slots \ {initproc} :
    killed[p] /\ state[p] # "UNUSED" ~> state[p] \in {"ZOMBIE", "UNUSED"}

===========================================================================
