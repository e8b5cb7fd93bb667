-------------------------------- MODULE Sched --------------------------------
(* CPUs, interrupts and spin locks: acquire(), release(), push_off() and       *)
(* pop_off() of spinlock.c; scheduler(), sched(), yield(), sleep() and         *)
(* wakeup() of proc.c; the timer path of trap.c; and processes that compute in *)
(* user space or call sys_sleep().  A thread (a process, or the scheduler of a *)
(* CPU) is a stack of frames: a trap pushes one on whatever is running.        *)
EXTENDS Integers, Sequences, FiniteSets

CONSTANTS NCPU, NPROC,   \* CPUs 0..NCPU - 1; processes 1..NPROC
          TWRAP,         \* where the uint ticks wraps
          SleepFor       \* bound: arguments of sys_sleep()
ASSUME SchedAssumption ==
  /\ NCPU \in Nat \ {0} /\ NPROC \in Nat \ {0} /\ TWRAP \in Nat \ {0}
  /\ SleepFor \subseteq Nat

VARIABLES cpu,      \* struct cpu and the interrupt bit: [intr, noff, intena, proc]
          cur,      \* the thread each CPU executes: Scheduler(c), or a process
          spin,     \* the lock a CPU spins for, or NoLock
          holder,   \* lk->cpu: the CPU that holds a lock, or NoCpu
          frames,   \* each thread's stack of [pc, i], the top one last
          saved,    \* the intena a process keeps across sched()
          pstate, onticks,   \* p->state; whether p->chan is &ticks
          ticks, until,      \* ticks; each sleeper's [from, n]
          timer,    \* CPUs with a pending timer interrupt
          kpanic    \* the panic reached, or ""
scVars == <<cpu, cur, spin, holder, frames, saved, pstate, onticks, ticks, until, timer, kpanic>>

CPUs == 0..NCPU - 1
Kprocs == 1..NPROC
tickslock == 0          \* lock p > 0 is the p->lock of process p
Locks == 0..NPROC
NoLock == -1
NoCpu == -1
Scheduler(c) == -1 - c
Threads == Kprocs \cup {Scheduler(c) : c \in CPUs}

Frame(pc) == [pc |-> pc, i |-> 1, found |-> FALSE]
ScInit ==
  /\ cpu = [c \in CPUs |-> [intr |-> FALSE, noff |-> 0, intena |-> FALSE, proc |-> 0]]
  /\ cur = [c \in CPUs |-> Scheduler(c)]
  /\ spin = [c \in CPUs |-> NoLock]
  /\ holder = [l \in Locks |-> NoCpu]
  /\ frames = [t \in Threads |-> <<Frame(IF t \in Kprocs THEN "forkret" ELSE "on")>>]
  /\ saved = [p \in Kprocs |-> FALSE]
  /\ pstate = [p \in Kprocs |-> "RUNNABLE"]
  /\ onticks = {}
  /\ ticks = 0
  /\ until = [p \in Kprocs |-> [from |-> 0, n |-> 0]]
  /\ timer = {}
  /\ kpanic = ""

-----------------------------------------------------------------------------
(* spinlock.c                                                              *)

push_off(k) == [k EXCEPT !.intr = FALSE, !.noff = @ + 1,
                         !.intena = IF k.noff = 0 THEN k.intr ELSE @]
\* Mutant: interrupts come back with the first of two releases.
pop_offMutant(k) == [k EXCEPT !.noff = @ - 1, !.intr = k.intena]
pop_off(k) == [k EXCEPT !.noff = @ - 1, !.intr = k.noff = 1 /\ k.intena]

Top(t) == frames[t][Len(frames[t])]
Here(c, pc) == kpanic = "" /\ spin[c] = NoLock /\ Top(cur[c]).pc = pc
\* The top frame of CPU c's thread goes on at pc, or is replaced.
Jump(c, pc) == frames' = [frames EXCEPT ![cur[c]][Len(frames[cur[c]])].pc = pc]
Become(c, f) == frames' = [frames EXCEPT ![cur[c]][Len(frames[cur[c]])] = f]
Index(c) == Top(cur[c]).i

\* acquire(): interrupts off, then spin.
acquire(c, l) ==
  /\ cpu' = [cpu EXCEPT ![c] = push_off(@)]
  /\ kpanic' = IF holder[l] = c THEN "acquire" ELSE ""
  /\ spin' = [spin EXCEPT ![c] = l]
Take(c) ==
  /\ kpanic = "" /\ spin[c] # NoLock /\ holder[spin[c]] = NoCpu
  /\ holder' = [holder EXCEPT ![spin[c]] = c]
  /\ spin' = [spin EXCEPT ![c] = NoLock]
  /\ UNCHANGED <<cpu, cur, frames, saved, pstate, onticks, ticks, until, timer, kpanic>>
\* release(), given the state k of the CPU.
release(c, l, k) ==
  /\ holder' = [holder EXCEPT ![l] = NoCpu]
  /\ cpu' = [cpu EXCEPT ![c] = pop_off(k)]
  /\ kpanic' = IF holder[l] # c THEN "release"
               ELSE IF k.intr THEN "pop_off - interruptible"
               ELSE IF k.noff < 1 THEN "pop_off" ELSE ""

-----------------------------------------------------------------------------
(* scheduler()                                                             *)

SchedOn(c) ==
  /\ Here(c, "on")
  /\ cpu' = [cpu EXCEPT ![c].intr = TRUE]
  /\ Jump(c, "off")
  /\ UNCHANGED <<cur, spin, holder, saved, pstate, onticks, ticks, until, timer, kpanic>>
SchedOff(c) ==
  /\ Here(c, "off")
  /\ cpu' = [cpu EXCEPT ![c].intr = FALSE]
  /\ Become(c, Frame("lock"))
  /\ UNCHANGED <<cur, spin, holder, saved, pstate, onticks, ticks, until, timer, kpanic>>
SchedLock(c) ==
  /\ Here(c, "lock")
  /\ acquire(c, Index(c))
  /\ Jump(c, "look")
  /\ UNCHANGED <<cur, holder, saved, pstate, onticks, ticks, until, timer>>
\* Mutant: found is not set.
RanMutant(f) == [f EXCEPT !.pc = "back"]
Ran(f) == [f EXCEPT !.pc = "back", !.found = TRUE]
\* swtch() to a RUNNABLE process, with its lock held.
SchedRun(c) ==
  /\ Here(c, "look") /\ pstate[Index(c)] = "RUNNABLE"
  /\ pstate' = [pstate EXCEPT ![Index(c)] = "RUNNING"]
  /\ cpu' = [cpu EXCEPT ![c].proc = Index(c)]
  /\ cur' = [cur EXCEPT ![c] = Index(c)]
  /\ Become(c, Ran(Top(cur[c])))
  /\ UNCHANGED <<spin, holder, saved, onticks, ticks, until, timer, kpanic>>
\* c->intena = 0, release, and on to the next process or to the end of the scan.
AfterRun(c) == [cpu[c] EXCEPT !.proc = 0, !.intena = FALSE]
SchedNext(c) ==
  /\ Here(c, "back") \/ (Here(c, "look") /\ pstate[Index(c)] # "RUNNABLE")
  /\ release(c, Index(c), AfterRun(c))
  /\ Become(c, IF Index(c) < NPROC THEN [Top(cur[c]) EXCEPT !.pc = "lock", !.i = @ + 1]
               ELSE Frame(IF Top(cur[c]).found THEN "on" ELSE "wfi"))
  /\ UNCHANGED <<cur, spin, saved, pstate, onticks, ticks, until, timer>>
\* wfi ends when an interrupt is pending, taken or not.
Wfi(c) ==
  /\ Here(c, "wfi") /\ c \in timer
  /\ Jump(c, "on")
  /\ UNCHANGED <<cpu, cur, spin, holder, saved, pstate, onticks, ticks, until, timer, kpanic>>

\* sched() of process p, whose state becomes s: the checks, and swtch() back.
sched(c, p, s, k) ==
  /\ kpanic' = IF holder[p] # c THEN "sched p->lock" ELSE IF k.noff # 1 THEN "sched locks"
               ELSE IF s = "RUNNING" THEN "sched running"
               ELSE IF k.intr THEN "sched interruptible" ELSE ""
  /\ saved' = [saved EXCEPT ![p] = k.intena]
  /\ pstate' = [pstate EXCEPT ![p] = s]
  /\ cur' = [cur EXCEPT ![c] = Scheduler(c)]
\* sched() returns, perhaps on another CPU; the caller releases p->lock.
Resumed(c) == [cpu[c] EXCEPT !.intena = saved[cur[c]]]

-----------------------------------------------------------------------------
(* A process: user code, sys_sleep() and sleep()                           *)

\* usertrapret(): user mode has interrupts on.
usertrapret(k) == [k EXCEPT !.intr = TRUE]
Forkret(c) ==
  /\ Here(c, "forkret")
  /\ holder' = [holder EXCEPT ![cur[c]] = NoCpu]
  /\ kpanic' = IF holder[cur[c]] # c THEN "release" ELSE ""
  /\ cpu' = [cpu EXCEPT ![c] = usertrapret(pop_off(@))]
  /\ Jump(c, "user")
  /\ UNCHANGED <<cur, spin, saved, pstate, onticks, ticks, until, timer>>
SysSleep(c, n) ==
  /\ Here(c, "user")
  /\ until' = [until EXCEPT ![cur[c]] = [from |-> 0, n |-> n]]
  /\ Jump(c, "enter")
  /\ UNCHANGED <<cpu, cur, spin, holder, saved, pstate, onticks, ticks, timer, kpanic>>
LockTicks(c) ==
  /\ Here(c, "enter") \/ Here(c, "again")
  /\ acquire(c, tickslock)
  /\ Jump(c, IF Here(c, "enter") THEN "since" ELSE "test")
  /\ UNCHANGED <<cur, holder, saved, pstate, onticks, ticks, until, timer>>
Since(c) ==
  /\ Here(c, "since")
  /\ until' = [until EXCEPT ![cur[c]].from = ticks]
  /\ Jump(c, "test")
  /\ UNCHANGED <<cpu, cur, spin, holder, saved, pstate, onticks, ticks, timer, kpanic>>
Elapsed(p) == (ticks - until[p].from) % TWRAP >= until[p].n
SleepDone(c) ==
  /\ Here(c, "test") /\ Elapsed(cur[c])
  /\ release(c, tickslock, cpu[c])
  /\ until' = [until EXCEPT ![cur[c]] = [from |-> 0, n |-> 0]]
  /\ Jump(c, "user")
  /\ UNCHANGED <<cur, spin, saved, pstate, onticks, ticks, timer>>
SleepLock(c) ==
  /\ Here(c, "test") /\ ~Elapsed(cur[c])
  /\ acquire(c, cur[c])
  /\ Jump(c, "sleep")
  /\ UNCHANGED <<cur, holder, saved, pstate, onticks, ticks, until, timer>>
Sleep(c) ==
  /\ Here(c, "sleep")
  /\ holder' = [holder EXCEPT ![tickslock] = NoCpu]
  /\ cpu' = [cpu EXCEPT ![c] = pop_off(@)]
  /\ onticks' = onticks \cup {cur[c]}
  /\ sched(c, cur[c], "SLEEPING", pop_off(cpu[c]))
  /\ Jump(c, "woken")
  /\ UNCHANGED <<spin, ticks, until, timer>>
Woken(c) ==
  /\ Here(c, "woken")
  /\ onticks' = onticks \ {cur[c]}
  /\ release(c, cur[c], Resumed(c))
  /\ Jump(c, "again")
  /\ UNCHANGED <<cur, spin, saved, pstate, ticks, until, timer>>

-----------------------------------------------------------------------------
(* Timer interrupts: timervec raises them at any time; usertrap() or          *)
(* kerneltrap() handles them on the stack of the running thread.              *)

Timer(c) ==
  /\ kpanic = "" /\ c \notin timer
  /\ timer' = timer \cup {c}
  /\ UNCHANGED <<cpu, cur, spin, holder, frames, saved, pstate, onticks, ticks, until, kpanic>>
\* devintr(): CPU 0 also runs clockintr().
Trap(c) ==
  /\ kpanic = "" /\ spin[c] = NoLock /\ c \in timer /\ cpu[c].intr
  /\ cpu' = [cpu EXCEPT ![c].intr = FALSE]
  /\ frames' = [frames EXCEPT ![cur[c]] = Append(@, Frame(IF c = 0 THEN "clock" ELSE "ack"))]
  /\ UNCHANGED <<cur, spin, holder, saved, pstate, onticks, ticks, until, timer, kpanic>>
Clockintr(c) ==
  /\ Here(c, "clock")
  /\ acquire(c, tickslock)
  /\ Jump(c, "tick")
  /\ UNCHANGED <<cur, holder, saved, pstate, onticks, ticks, until, timer>>
Tick(c) ==
  /\ Here(c, "tick")
  /\ ticks' = (ticks + 1) % TWRAP
  /\ Become(c, Frame("wlock"))
  /\ UNCHANGED <<cpu, cur, spin, holder, saved, pstate, onticks, until, timer, kpanic>>
\* wakeup(&ticks), one process at a time.
WakeLock(c) ==
  /\ Here(c, "wlock")
  /\ acquire(c, Index(c))
  /\ Jump(c, "wake")
  /\ UNCHANGED <<cur, holder, saved, pstate, onticks, ticks, until, timer>>
Wake(c) ==
  /\ Here(c, "wake")
  /\ pstate' = IF pstate[Index(c)] = "SLEEPING" /\ Index(c) \in onticks
               THEN [pstate EXCEPT ![Index(c)] = "RUNNABLE"] ELSE pstate
  /\ release(c, Index(c), cpu[c])
  /\ Become(c, IF Index(c) < NPROC THEN [Top(cur[c]) EXCEPT !.pc = "wlock", !.i = @ + 1]
               ELSE Frame("clockend"))
  /\ UNCHANGED <<cur, spin, saved, onticks, ticks, until, timer>>
ClockEnd(c) ==
  /\ Here(c, "clockend")
  /\ release(c, tickslock, cpu[c])
  /\ Become(c, Frame("ack"))
  /\ UNCHANGED <<cur, spin, saved, pstate, onticks, ticks, until, timer>>
\* Clear SSIP; yield() if a process is running here.
Yields(c) == cpu[c].proc # 0 /\ pstate[cpu[c].proc] = "RUNNING"
Ack(c) ==
  /\ Here(c, "ack")
  /\ timer' = timer \ {c}
  /\ Jump(c, IF Yields(c) THEN "yield" ELSE "iret")
  /\ UNCHANGED <<cpu, cur, spin, holder, saved, pstate, onticks, ticks, until, kpanic>>
Yield(c) ==
  /\ Here(c, "yield")
  /\ acquire(c, cur[c])
  /\ Jump(c, "yielding")
  /\ UNCHANGED <<cur, holder, saved, pstate, onticks, ticks, until, timer>>
Yielding(c) ==
  /\ Here(c, "yielding")
  /\ sched(c, cur[c], "RUNNABLE", cpu[c])
  /\ Jump(c, "yielded")
  /\ UNCHANGED <<cpu, spin, holder, onticks, ticks, until, timer>>
Yielded(c) ==
  /\ Here(c, "yielded")
  /\ release(c, cur[c], Resumed(c))
  /\ Jump(c, "iret")
  /\ UNCHANGED <<cur, spin, saved, pstate, onticks, ticks, until, timer>>
\* Return from the trap, with interrupts as they were: on.
Iret(c) ==
  /\ Here(c, "iret")
  /\ frames' = [frames EXCEPT ![cur[c]] = SubSeq(@, 1, Len(@) - 1)]
  /\ cpu' = [cpu EXCEPT ![c].intr = TRUE]
  /\ UNCHANGED <<cur, spin, holder, saved, pstate, onticks, ticks, until, timer, kpanic>>

ScStep(c) ==
  \/ Take(c) \/ SchedOn(c) \/ SchedOff(c) \/ SchedLock(c) \/ SchedRun(c) \/ SchedNext(c)
  \/ Wfi(c) \/ Forkret(c) \/ LockTicks(c) \/ Since(c) \/ SleepDone(c) \/ SleepLock(c)
  \/ Sleep(c) \/ Woken(c) \/ Trap(c) \/ Clockintr(c) \/ Tick(c) \/ WakeLock(c) \/ Wake(c)
  \/ ClockEnd(c) \/ Ack(c) \/ Yield(c) \/ Yielding(c) \/ Yielded(c) \/ Iret(c)
ScNext == \E c \in CPUs : ScStep(c) \/ Timer(c) \/ \E n \in SleepFor : SysSleep(c, n)
ScSpec == ScInit /\ [][ScNext]_scVars

-----------------------------------------------------------------------------
(* Properties                                                              *)

\* No panic of acquire(), release(), pop_off() or sched() is reachable: no trap
\* handler wants a lock of the thread it interrupted, wherever the timer strikes
\* and to whichever CPU a thread moves while it sleeps or yields.  A CPU's noff
\* counts its locks, interrupts are on only without locks, and no process, hence
\* no kernel stack, is on two CPUs.
IntrsMatchLocks ==
  /\ kpanic = ""
  /\ \A c \in CPUs :
       LET n == Cardinality({l \in Locks : holder[l] = c}) + (IF spin[c] = NoLock THEN 0 ELSE 1) IN
       /\ cpu[c].noff = n
       /\ cpu[c].intr => n = 0
       /\ \A d \in CPUs \ {c} : cur[c] # cur[d]

\* Only idle CPUs wait in wfi: when all of them do, nobody is RUNNABLE, so no
\* process that an interrupt woke during a scan waits for the next interrupt.
\* The scan sees to that with interrupts off (intr_off() and the clearing of
\* c->intena, either of which would do) and by starting over after a process ran.
IdleMeansNoWork ==
  (\A c \in CPUs : Top(cur[c]).pc = "wfi") => \A p \in Kprocs : pstate[p] # "RUNNABLE"
=============================================================================
