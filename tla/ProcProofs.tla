---------------------------- MODULE ProcProofs ----------------------------
(* Invariance proofs for Proc, for every NPROC, MaxPid and KillPids.      *)
(*                                                                        *)
(* The safety properties of Proc are not inductive by themselves: each    *)
(* rests on which locks a thread holds at each point of the code.  IInv   *)
(* is the strengthening: LockInv reads every lock's holder off the pcs,   *)
(* PcInv ties p->state to the pc, ParentInv and OrigInv keep the pointers *)
(* sound, ReparentInv and ScanInv say what a scan has established about   *)
(* the slots it has passed.                                               *)
EXTENDS Proc, ArithFacts, TLAPS

\* p holds the lock of slot s at this point of the code.
HoldsLock(p, s) ==
  \/ /\ s = p
     /\ pc[p] \in {"wait_scan", "wait_child", "wait_sched",
                   "exit_scan", "exit_child", "exit_sched"}
  \/ s = p /\ pc[p] \in {"ret", "wait_asleep"} /\ state[p] = "RUNNING"
  \/ s = orig[p] /\ pc[p] \in Exiting

\* The locks held are those the pcs account for: at most one holder each.
LockInv == \A s, p \in Slots : lock[s] = p <=> HoldsLock(p, s)

\* p->state and p->chan agree with where the thread stands.
PcInv ==
  \A p \in Slots :
    /\ state[p] = "UNUSED" <=> pc[p] = "none"
    /\ state[p] = "ZOMBIE" <=> pc[p] \in {"exit_sched", "zombie"}
    /\ pc[p] \in Unlocked \cup Exiting \cup Waiting => state[p] = "RUNNING"
    /\ pc[p] = "ret" => state[p] \in {"RUNNABLE", "RUNNING"}
    /\ pc[p] = "wait_sched" => state[p] = "SLEEPING"
    /\ state[p] = "SLEEPING" => chan[p] = p

\* init never exits, and has no parent.
InitInv ==
  /\ pc[initproc] \notin {"none", "zombie", "exit_init", "exit_orig",
                          "exit_parent", "exit_sched"} \cup Exiting
  /\ parent[initproc] = NoProc

\* A process other than init has a parent, a free slot has none.
ParentInv ==
  \A c \in Slots :
    /\ state[c] = "UNUSED" => parent[c] = NoProc
    /\ state[c] # "UNUSED" /\ c # initproc => parent[c] \in Slots
    /\ parent[c] # c

\* original_parent is the parent, unless it has given the process to init.
OrigInv ==
  \A p \in Slots : pc[p] \in {"exit_parent"} \cup Exiting =>
    /\ orig[p] \in Slots /\ orig[p] # p
    /\ orig[p] = parent[p] \/ parent[p] = initproc

\* No slot that reparent() has passed is a child.
ReparentInv ==
  \A p, c \in Slots : pc[p] \in {"exit_scan", "exit_child"} /\ c < idx[p]
                        => parent[c] # p

\* The children that wait()'s scan has passed have not exited since, and
\* are counted.
ScanInv ==
  \A p \in Slots \ {initproc}, c \in Slots :
    pc[p] \in Waiting /\ c < idx[p] /\ parent[c] = p
      => state[c] # "ZOMBIE" /\ havekids[p]

IInv == /\ TypeOK /\ LockInv /\ PcInv /\ InitInv /\ ParentInv /\ OrigInv
        /\ ReparentInv /\ ScanInv /\ CheckedParentStable /\ NoMissedExit
        /\ OrphansHaveInit

---------------------------------------------------------------------------
\* Slot numbers: init is a slot, NoProc is not, and an index that has not
\* reached NPROC is one.
LEMMA SlotFacts ==
  /\ initproc \in Slots /\ NoProc \notin Slots
  /\ 0 \in 0 .. NPROC /\ NPROC \notin Slots
  /\ \A s \in Slots : s \in Int /\ 0 <= s /\ s < NPROC /\ s \in 0 .. NPROC
  /\ \A i \in 0 .. NPROC :
       i \in Int /\ (i < NPROC => i \in Slots /\ i + 1 \in 0 .. NPROC)
BY NPROCAssumption DEF Slots, initproc, NoProc

\* main() leaves the table in a state that satisfies the invariant.
LEMMA InitIInv == Init => IInv
<1> SUFFICES ASSUME Init PROVE IInv
  OBVIOUS
<1> USE SlotFacts DEF Init
<1>1. TypeOK
  BY DEF TypeOK, States, PCs
<1>2. LockInv
  BY DEF LockInv, HoldsLock, Exiting
<1>3. PcInv /\ InitInv /\ ParentInv /\ OrigInv
  BY DEF PcInv, InitInv, ParentInv, OrigInv, Unlocked, Exiting, Waiting
<1>4. ReparentInv /\ ScanInv /\ CheckedParentStable /\ NoMissedExit
        /\ OrphansHaveInit
  BY DEF ReparentInv, ScanInv, CheckedParentStable, NoMissedExit,
         SleepsInWait, OrphansHaveInit, Waiting
<1> QED
  BY <1>1, <1>2, <1>3, <1>4 DEF IInv

\* A step of p between two points at which it holds no lock, which writes no
\* state, parent, chan or lock: the calls and scans of fork() and kill(), the
\* entry of exit() and wait().
LEMMA UnlockedStep ==
  ASSUME IInv, TypeOK', NEW p \in Slots, NEW l \in Unlocked,
         pc[p] \in Unlocked, pc' = [pc EXCEPT ![p] = l],
         l # "exit_parent",
         l \in {"exit_init", "exit_orig"} => p # initproc,
         UNCHANGED <<state, parent, chan, lock, orig>>,
         \A q \in Slots \ {p} : idx'[q] = idx[q] /\ havekids'[q] = havekids[q]
  PROVE  IInv'
<1> USE SlotFacts DEF IInv, TypeOK, Unlocked, Exiting, Waiting
<1>1. LockInv' /\ PcInv' /\ InitInv'
  BY DEF LockInv, HoldsLock, PcInv, InitInv
<1>2. ParentInv' /\ OrigInv' /\ OrphansHaveInit'
  BY DEF ParentInv, OrigInv, OrphansHaveInit
<1>3. ReparentInv' /\ ScanInv'
  BY DEF ReparentInv, ScanInv
<1>4. CheckedParentStable' /\ NoMissedExit'
  BY DEF CheckedParentStable, NoMissedExit, SleepsInWait
<1> QED
  BY <1>1, <1>2, <1>3, <1>4

\* The steps of that kind.
LEMMA UnlockedIInv ==
  ASSUME IInv, NEW p \in Slots,
         \/ ForkCall(p) \/ ForkSkip(p) \/ ForkNoSlot(p) \/ ForkNoTrapframe(p)
         \/ KillCall(p) \/ KillSkip(p) \/ KillNone(p)
         \/ ExitCall(p) \/ TrapKilled(p) \/ TrapFault(p) \/ WaitCall(p)
  PROVE  IInv'
<1> USE SlotFacts DEF At, Goto, Return, Free, table, locals
<1>1. CASE ForkCall(p)
  <2>1. TypeOK'
    BY <1>1 DEF ForkCall, IInv, TypeOK, PCs, Unlocked
  <2> QED
    BY <2>1, <1>1, UnlockedStep DEF ForkCall, IInv, TypeOK, Unlocked
<1>2. CASE ForkSkip(p)
  <2>1. TypeOK'
    BY <1>2 DEF ForkSkip, IInv, TypeOK, PCs, Unlocked
  <2> QED
    BY <2>1, <1>2, UnlockedStep DEF ForkSkip, IInv, TypeOK, Unlocked
<1>3. CASE ForkNoSlot(p)
  <2>1. TypeOK'
    BY <1>3 DEF ForkNoSlot, IInv, TypeOK, PCs, Unlocked
  <2> QED
    BY <2>1, <1>3, UnlockedStep, ZenonT(40) DEF ForkNoSlot, IInv, TypeOK, Unlocked
<1>4. CASE ForkNoTrapframe(p)
  <2>1. TypeOK'
    BY <1>4 DEF ForkNoTrapframe, allocproc, IInv, TypeOK, PCs, Unlocked
  <2> QED
    BY <2>1, <1>4, UnlockedStep, ZenonT(40) DEF ForkNoTrapframe, allocproc, IInv, TypeOK, Unlocked
<1>5. CASE KillCall(p)
  <2>1. TypeOK'
    BY <1>5, KillPidsAssumption DEF KillCall, IInv, TypeOK, PCs, Unlocked
  <2> QED
    BY <2>1, <1>5, UnlockedStep DEF KillCall, IInv, TypeOK, Unlocked
<1>6. CASE KillSkip(p)
  <2>1. TypeOK'
    BY <1>6 DEF KillSkip, IInv, TypeOK, PCs, Unlocked
  <2> QED
    BY <2>1, <1>6, UnlockedStep DEF KillSkip, IInv, TypeOK, Unlocked
<1>7. CASE KillNone(p)
  <2>1. TypeOK'
    BY <1>7 DEF KillNone, IInv, TypeOK, PCs, Unlocked
  <2> QED
    BY <2>1, <1>7, UnlockedStep, ZenonT(40) DEF KillNone, IInv, TypeOK, Unlocked
<1>8. CASE ExitCall(p)
  <2>1. TypeOK'
    BY <1>8 DEF ExitCall, IInv, TypeOK, PCs, Unlocked
  <2> QED
    BY <2>1, <1>8, UnlockedStep DEF ExitCall, IInv, TypeOK, Unlocked
<1>9. CASE TrapKilled(p)
  <2>1. TypeOK'
    BY <1>9 DEF TrapKilled, IInv, TypeOK, PCs, Unlocked
  <2> QED
    BY <2>1, <1>9, UnlockedStep DEF TrapKilled, IInv, TypeOK, Unlocked
<1>10. CASE TrapFault(p)
  <2>1. killed' \in [Slots -> BOOLEAN]
    BY <1>10, Zenon DEF TrapFault, IInv, TypeOK
  <2>2. victims' \subseteq Nat
    <3>1. pid[p] \in Nat /\ victims \subseteq Nat /\ victims' = victims \cup {pid[p]}
      BY <1>10 DEF TrapFault, IInv, TypeOK
    <3> QED BY <3>1
  <2>3. pc' \in [Slots -> PCs]
    <3>1. pc \in [Slots -> PCs] /\ pc' = [pc EXCEPT ![p] = "exit_init"]
      BY <1>10 DEF TrapFault, IInv, TypeOK
    <3>2. "exit_init" \in PCs
      BY DEF PCs, Unlocked
    <3> QED BY <3>1, <3>2
  <2>4. TypeOK'
    BY <1>10, <2>1, <2>2, <2>3 DEF TrapFault, IInv, TypeOK
  <2> QED
    BY <2>4, <1>10, UnlockedStep DEF TrapFault, IInv, TypeOK, Unlocked
<1>11. CASE WaitCall(p)
  <2>1. TypeOK'
    BY <1>11 DEF WaitCall, IInv, TypeOK, PCs, Unlocked
  <2> QED
    BY <2>1, <1>11, UnlockedStep DEF WaitCall, IInv, TypeOK, Unlocked
<1> QED
  BY <1>1, <1>2, <1>3, <1>4, <1>5, <1>6, <1>7, <1>8, <1>9, <1>10, <1>11

\* scheduler() hands p->lock to the process it switches to.
LEMMA DispatchIInv ==
  ASSUME IInv, NEW p \in Slots, Dispatch(p) PROVE IInv'
<1> USE SlotFacts
      DEF IInv, TypeOK, Dispatch, At, Goto, Free, table, locals, Unlocked,
          Exiting, Waiting
<1>1. TypeOK'
  BY DEF PCs, States, CheckedParentStable
<1>2. LockInv'
  BY DEF LockInv, HoldsLock, PcInv, OrigInv, PCs
<1>3. PcInv' /\ InitInv'
  BY DEF PcInv, InitInv, LockInv, HoldsLock, OrigInv, CheckedParentStable
<1>4. ParentInv' /\ OrigInv'
  BY DEF ParentInv, OrigInv, InitInv, PcInv, CheckedParentStable
<1>5. ReparentInv' /\ ScanInv'
  BY DEF ReparentInv, ScanInv, PcInv, ParentInv, LockInv, HoldsLock,
         OrigInv, CheckedParentStable
<1>6. CheckedParentStable' /\ NoMissedExit' /\ OrphansHaveInit'
  BY DEF CheckedParentStable, NoMissedExit, SleepsInWait, OrphansHaveInit,
         PcInv, InitInv, ParentInv, OrigInv, ReparentInv, ScanInv, LockInv,
         HoldsLock
<1> QED
  BY <1>1, <1>2, <1>3, <1>4, <1>5, <1>6

\* forkret() releases the lock the scheduler took.
LEMMA ForkretIInv ==
  ASSUME IInv, NEW p \in Slots, Forkret(p) PROVE IInv'
<1> USE SlotFacts
      DEF IInv, TypeOK, Forkret, At, Goto, Free, table, locals, Unlocked,
          Exiting, Waiting
<1>1. TypeOK'
  BY DEF PCs, States, CheckedParentStable
<1>2. LockInv'
  BY DEF LockInv, HoldsLock, PcInv, OrigInv, PCs
<1>3. PcInv' /\ InitInv'
  BY DEF PcInv, InitInv, LockInv, HoldsLock, OrigInv, CheckedParentStable
<1>4. ParentInv' /\ OrigInv'
  BY DEF ParentInv, OrigInv, InitInv, PcInv, CheckedParentStable
<1>5. ReparentInv' /\ ScanInv'
  BY DEF ReparentInv, ScanInv, PcInv, ParentInv, LockInv, HoldsLock,
         OrigInv, CheckedParentStable
<1>6. CheckedParentStable' /\ NoMissedExit' /\ OrphansHaveInit'
  BY DEF CheckedParentStable, NoMissedExit, SleepsInWait, OrphansHaveInit,
         PcInv, InitInv, ParentInv, OrigInv, ReparentInv, ScanInv, LockInv,
         HoldsLock
<1> QED
  BY <1>1, <1>2, <1>3, <1>4, <1>5, <1>6

\* The scheduler thread releases the lock of a process that called sched().
LEMMA SchedIInv ==
  ASSUME IInv, NEW p \in Slots, Sched(p) PROVE IInv'
<1> USE SlotFacts
      DEF IInv, TypeOK, Sched, At, Goto, Free, table, locals, Unlocked, Exiting,
          Waiting
<1>1. TypeOK'
  BY DEF PCs, States, CheckedParentStable
<1>2. LockInv'
  BY DEF LockInv, HoldsLock, PcInv, OrigInv, PCs
<1>3. PcInv' /\ InitInv'
  BY DEF PcInv, InitInv, LockInv, HoldsLock, OrigInv, CheckedParentStable
<1>4. ParentInv' /\ OrigInv'
  BY DEF ParentInv, OrigInv, InitInv, PcInv, CheckedParentStable
<1>5. ReparentInv' /\ ScanInv'
  BY DEF ReparentInv, ScanInv, PcInv, ParentInv, LockInv, HoldsLock,
         OrigInv, CheckedParentStable
<1>6. CheckedParentStable' /\ NoMissedExit' /\ OrphansHaveInit'
  BY DEF CheckedParentStable, NoMissedExit, SleepsInWait, OrphansHaveInit,
         PcInv, InitInv, ParentInv, OrigInv, ReparentInv, ScanInv, LockInv,
         HoldsLock
<1> QED
  BY <1>1, <1>2, <1>3, <1>4, <1>5, <1>6

\* A new process takes an UNUSED slot, which nothing points at.
LEMMA ForkIInv ==
  ASSUME IInv, NEW p \in Slots, Fork(p) PROVE IInv'
<1> USE SlotFacts
      DEF IInv, TypeOK, Fork, allocproc, At, Goto, Free, table, locals,
          Unlocked, Exiting, Waiting
<1>1. TypeOK'
  BY DEF PCs, States, CheckedParentStable
<1>2. LockInv'
  BY DEF LockInv, HoldsLock, PcInv, OrigInv, PCs
<1>3. PcInv' /\ InitInv'
  BY DEF PcInv, InitInv, LockInv, HoldsLock, OrigInv, CheckedParentStable
<1>4. ParentInv' /\ OrigInv'
  BY DEF ParentInv, OrigInv, InitInv, PcInv, CheckedParentStable
<1>5. ReparentInv' /\ ScanInv'
  BY DEF ReparentInv, ScanInv, PcInv, ParentInv, LockInv, HoldsLock,
         OrigInv, CheckedParentStable
<1>6. CheckedParentStable' /\ NoMissedExit' /\ OrphansHaveInit'
  BY DEF CheckedParentStable, NoMissedExit, SleepsInWait, OrphansHaveInit,
         PcInv, InitInv, ParentInv, OrigInv, ReparentInv, ScanInv, LockInv,
         HoldsLock
<1> QED
  BY <1>1, <1>2, <1>3, <1>4, <1>5, <1>6

\* freeproc() of a slot that was UNUSED.
LEMMA ForkNoMemoryIInv ==
  ASSUME IInv, NEW p \in Slots, ForkNoMemory(p) PROVE IInv'
<1> USE SlotFacts
      DEF IInv, TypeOK, ForkNoMemory, allocproc, freeproc, Return, At, Goto,
          Free, table, locals, Unlocked, Exiting, Waiting
<1>1. TypeOK'
  BY DEF PCs, States, CheckedParentStable
<1>2. LockInv'
  BY DEF LockInv, HoldsLock, PcInv, OrigInv, PCs
<1>3. PcInv' /\ InitInv'
  BY DEF PcInv, InitInv, LockInv, HoldsLock, OrigInv, CheckedParentStable
<1>4. ParentInv' /\ OrigInv'
  BY DEF ParentInv, OrigInv, InitInv, PcInv, CheckedParentStable
<1>5. ReparentInv' /\ ScanInv'
  BY DEF ReparentInv, ScanInv, PcInv, ParentInv, LockInv, HoldsLock,
         OrigInv, CheckedParentStable
<1>6. CheckedParentStable' /\ NoMissedExit' /\ OrphansHaveInit'
  BY DEF CheckedParentStable, NoMissedExit, SleepsInWait, OrphansHaveInit,
         PcInv, InitInv, ParentInv, OrigInv, ReparentInv, ScanInv, LockInv,
         HoldsLock
<1> QED
  BY <1>1, <1>2, <1>3, <1>4, <1>5, <1>6

\* A sleeping victim becomes RUNNABLE; its lock is free, so it is past sched().
LEMMA KillIInv ==
  ASSUME IInv, NEW p \in Slots, Kill(p) PROVE IInv'
<1> USE SlotFacts
      DEF IInv, TypeOK, Kill, Return, At, Goto, Free, table, locals, Unlocked,
          Exiting, Waiting
<1>1. TypeOK'
  <2>1. state' \in [Slots -> States] /\ killed' \in [Slots -> BOOLEAN]
    BY DEF States
  <2>2. target[p] \in Nat
    OBVIOUS
  <2>3. victims' \subseteq Nat
    BY <2>2
  <2> QED
    BY <2>1, <2>3 DEF PCs
<1>2. LockInv'
  BY DEF LockInv, HoldsLock, PcInv, OrigInv, PCs
<1>3. PcInv' /\ InitInv'
  BY DEF PcInv, InitInv, LockInv, HoldsLock, OrigInv, CheckedParentStable
<1>4. ParentInv' /\ OrigInv'
  BY DEF ParentInv, OrigInv, InitInv, PcInv, CheckedParentStable
<1>5. ReparentInv' /\ ScanInv'
  BY DEF ReparentInv, ScanInv, PcInv, ParentInv, LockInv, HoldsLock,
         OrigInv, CheckedParentStable
<1>6. CheckedParentStable' /\ NoMissedExit' /\ OrphansHaveInit'
  BY DEF CheckedParentStable, NoMissedExit, SleepsInWait, OrphansHaveInit,
         PcInv, InitInv, ParentInv, OrigInv, ReparentInv, ScanInv, LockInv,
         HoldsLock
<1> QED
  BY <1>1, <1>2, <1>3, <1>4, <1>5, <1>6

\* init is woken if it sleeps in wait(); its lock is free, so it is past sched().
LEMMA ExitWakeInitIInv ==
  ASSUME IInv, NEW p \in Slots, ExitWakeInit(p) PROVE IInv'
<1> USE SlotFacts
      DEF IInv, TypeOK, ExitWakeInit, wakeup1, At, Goto, Free, table, locals,
          Unlocked, Exiting, Waiting
<1>1. TypeOK'
  BY DEF PCs, States, CheckedParentStable
<1>2. LockInv'
  BY DEF LockInv, HoldsLock, PcInv, OrigInv, PCs
<1>3. PcInv' /\ InitInv'
  BY DEF PcInv, InitInv, LockInv, HoldsLock, OrigInv, CheckedParentStable
<1>4. ParentInv' /\ OrigInv'
  BY DEF ParentInv, OrigInv, InitInv, PcInv, CheckedParentStable
<1>5. ReparentInv' /\ ScanInv'
  BY DEF ReparentInv, ScanInv, PcInv, ParentInv, LockInv, HoldsLock,
         OrigInv, CheckedParentStable
<1>6. CheckedParentStable' /\ NoMissedExit' /\ OrphansHaveInit'
  BY DEF CheckedParentStable, NoMissedExit, SleepsInWait, OrphansHaveInit,
         PcInv, InitInv, ParentInv, OrigInv, ReparentInv, ScanInv, LockInv,
         HoldsLock
<1> QED
  BY <1>1, <1>2, <1>3, <1>4, <1>5, <1>6

\* original_parent is read under p->lock.
LEMMA ExitGetParentIInv ==
  ASSUME IInv, NEW p \in Slots, ExitGetParent(p) PROVE IInv'
<1> USE SlotFacts
      DEF IInv, TypeOK, ExitGetParent, At, Goto, Free, table, locals, Unlocked,
          Exiting, Waiting
<1>1. TypeOK'
  BY DEF PCs, States, CheckedParentStable
<1>2. LockInv'
  BY DEF LockInv, HoldsLock, PcInv, OrigInv, PCs
<1>3. PcInv' /\ InitInv'
  BY DEF PcInv, InitInv, LockInv, HoldsLock, OrigInv, CheckedParentStable
<1>4. ParentInv' /\ OrigInv'
  BY DEF ParentInv, OrigInv, InitInv, PcInv, CheckedParentStable
<1>5. ReparentInv' /\ ScanInv'
  BY DEF ReparentInv, ScanInv, PcInv, ParentInv, LockInv, HoldsLock,
         OrigInv, CheckedParentStable
<1>6. CheckedParentStable' /\ NoMissedExit' /\ OrphansHaveInit'
  BY DEF CheckedParentStable, NoMissedExit, SleepsInWait, OrphansHaveInit,
         PcInv, InitInv, ParentInv, OrigInv, ReparentInv, ScanInv, LockInv,
         HoldsLock
<1> QED
  BY <1>1, <1>2, <1>3, <1>4, <1>5, <1>6

\* The parent's lock is taken.
LEMMA ExitLockParentIInv ==
  ASSUME IInv, NEW p \in Slots, ExitLockParent(p) PROVE IInv'
<1> USE SlotFacts
      DEF IInv, TypeOK, ExitLockParent, At, Goto, Free, table, locals, Unlocked,
          Exiting, Waiting
<1>1. TypeOK'
  BY DEF PCs, States, CheckedParentStable
<1>2. LockInv'
  BY DEF LockInv, HoldsLock, PcInv, OrigInv, PCs
<1>3. PcInv' /\ InitInv'
  BY DEF PcInv, InitInv, LockInv, HoldsLock, OrigInv, CheckedParentStable
<1>4. ParentInv' /\ OrigInv'
  BY DEF ParentInv, OrigInv, InitInv, PcInv, CheckedParentStable
<1>5. ReparentInv' /\ ScanInv'
  BY DEF ReparentInv, ScanInv, PcInv, ParentInv, LockInv, HoldsLock,
         OrigInv, CheckedParentStable
<1>6. CheckedParentStable' /\ NoMissedExit' /\ OrphansHaveInit'
  BY DEF CheckedParentStable, NoMissedExit, SleepsInWait, OrphansHaveInit,
         PcInv, InitInv, ParentInv, OrigInv, ReparentInv, ScanInv, LockInv,
         HoldsLock
<1> QED
  BY <1>1, <1>2, <1>3, <1>4, <1>5, <1>6

\* p->lock is taken; reparent() starts.
LEMMA ExitLockSelfIInv ==
  ASSUME IInv, NEW p \in Slots, ExitLockSelf(p) PROVE IInv'
<1> USE SlotFacts
      DEF IInv, TypeOK, ExitLockSelf, At, Goto, Free, table, locals, Unlocked,
          Exiting, Waiting
<1>1. TypeOK'
  BY DEF PCs, States, CheckedParentStable
<1>2. LockInv'
  BY DEF LockInv, HoldsLock, PcInv, OrigInv, PCs
<1>3. PcInv' /\ InitInv'
  BY DEF PcInv, InitInv, LockInv, HoldsLock, OrigInv, CheckedParentStable
<1>4. ParentInv' /\ OrigInv'
  BY DEF ParentInv, OrigInv, InitInv, PcInv, CheckedParentStable
<1>5. ReparentInv' /\ ScanInv'
  BY DEF ReparentInv, ScanInv, PcInv, ParentInv, LockInv, HoldsLock,
         OrigInv, CheckedParentStable
<1>6. CheckedParentStable' /\ NoMissedExit' /\ OrphansHaveInit'
  BY DEF CheckedParentStable, NoMissedExit, SleepsInWait, OrphansHaveInit,
         PcInv, InitInv, ParentInv, OrigInv, ReparentInv, ScanInv, LockInv,
         HoldsLock
<1> QED
  BY <1>1, <1>2, <1>3, <1>4, <1>5, <1>6

\* reparent() reads pp->parent without a lock.
LEMMA ReparentCheckIInv ==
  ASSUME IInv, NEW p \in Slots, ReparentCheck(p) PROVE IInv'
<1> USE SlotFacts
      DEF IInv, TypeOK, ReparentCheck, At, Goto, Free, table, locals, Unlocked,
          Exiting, Waiting
<1>1. TypeOK'
  BY DEF PCs, States, CheckedParentStable
<1>2. LockInv'
  BY DEF LockInv, HoldsLock, PcInv, OrigInv, PCs
<1>3. PcInv' /\ InitInv'
  BY DEF PcInv, InitInv, LockInv, HoldsLock, OrigInv, CheckedParentStable
<1>4. ParentInv' /\ OrigInv'
  BY DEF ParentInv, OrigInv, InitInv, PcInv, CheckedParentStable
<1>5. ReparentInv'
  <2> SUFFICES ASSUME NEW q \in Slots, NEW c \in Slots,
                      pc'[q] \in {"exit_scan", "exit_child"}, c < idx'[q]
               PROVE  parent'[c] # q
    BY DEF ReparentInv
  <2>1. CASE q # p
    BY <2>1 DEF ReparentInv
  <2>2. CASE q = p
    <3>1. c \in Int /\ idx[p] \in Int
      OBVIOUS
    <3>2. idx'[p] = idx[p] \/ idx'[p] = idx[p] + 1
      OBVIOUS
    <3>3. c < idx[p] \/ c = idx[p]
      BY <2>2, <3>1, <3>2
    <3> QED
      BY <2>2, <3>3 DEF ReparentInv, CheckedParentStable, InitInv
  <2> QED
    BY <2>1, <2>2
<1>6. ScanInv'
  BY DEF ScanInv, PcInv
<1>7. CheckedParentStable' /\ NoMissedExit' /\ OrphansHaveInit'
  BY DEF CheckedParentStable, NoMissedExit, SleepsInWait, OrphansHaveInit,
         PcInv, InitInv, ParentInv, OrigInv, ReparentInv, ScanInv, LockInv,
         HoldsLock
<1> QED
  BY <1>1, <1>2, <1>3, <1>4, <1>5, <1>6, <1>7

\* A child is given to init, which is alive.
LEMMA ReparentChildIInv ==
  ASSUME IInv, NEW p \in Slots, ReparentChild(p) PROVE IInv'
<1> USE SlotFacts
      DEF IInv, TypeOK, ReparentChild, At, Goto, Free, table, locals, Unlocked,
          Exiting, Waiting
<1>1. TypeOK'
  BY DEF PCs, States, CheckedParentStable
<1>2. LockInv'
  BY DEF LockInv, HoldsLock, PcInv, OrigInv, PCs
<1>3. PcInv' /\ InitInv'
  BY DEF PcInv, InitInv, LockInv, HoldsLock, OrigInv, CheckedParentStable
<1>4. ParentInv' /\ OrigInv'
  BY DEF ParentInv, OrigInv, InitInv, PcInv, CheckedParentStable
<1>5. ReparentInv'
  <2> SUFFICES ASSUME NEW q \in Slots, NEW c \in Slots,
                      pc'[q] \in {"exit_scan", "exit_child"}, c < idx'[q]
               PROVE  parent'[c] # q
    BY DEF ReparentInv
  <2>1. CASE q # p
    BY <2>1 DEF ReparentInv, InitInv
  <2>2. CASE q = p
    <3>1. c \in Int /\ idx[p] \in Int
      OBVIOUS
    <3>2. idx'[p] = idx[p] \/ idx'[p] = idx[p] + 1
      OBVIOUS
    <3>3. c < idx[p] \/ c = idx[p]
      BY <2>2, <3>1, <3>2
    <3> QED
      BY <2>2, <3>3 DEF ReparentInv, CheckedParentStable, InitInv
  <2> QED
    BY <2>1, <2>2
<1>6. ScanInv'
  BY DEF ScanInv, PcInv
<1>7. CheckedParentStable' /\ NoMissedExit' /\ OrphansHaveInit'
  BY DEF CheckedParentStable, NoMissedExit, SleepsInWait, OrphansHaveInit,
         PcInv, InitInv, ParentInv, OrigInv, ReparentInv, ScanInv, LockInv,
         HoldsLock
<1> QED
  BY <1>1, <1>2, <1>3, <1>4, <1>5, <1>6, <1>7

\* The parent, unless it is init, is original_parent: it is not scanning, since p holds its
\* lock, and if it sleeps it is woken.  No child is left.
LEMMA ExitZombieIInv ==
  ASSUME IInv, NEW p \in Slots, ExitZombie(p) PROVE IInv'
<1> USE SlotFacts
      DEF IInv, TypeOK, ExitZombie, wakeup1, At, Goto, Free, table, locals,
          Unlocked, Exiting, Waiting
<1>1. TypeOK'
  BY DEF PCs, States, CheckedParentStable
<1>2. LockInv'
  BY DEF LockInv, HoldsLock, PcInv, OrigInv, PCs
<1>3. PcInv' /\ InitInv'
  BY DEF PcInv, InitInv, LockInv, HoldsLock, OrigInv, CheckedParentStable
<1>4. ParentInv' /\ OrigInv'
  BY DEF ParentInv, OrigInv, InitInv, PcInv, CheckedParentStable
<1>5. ReparentInv' /\ ScanInv'
  BY DEF ReparentInv, ScanInv, PcInv, ParentInv, LockInv, HoldsLock,
         OrigInv, CheckedParentStable
<1>6. CheckedParentStable' /\ NoMissedExit' /\ OrphansHaveInit'
  BY DEF CheckedParentStable, NoMissedExit, SleepsInWait, OrphansHaveInit,
         PcInv, InitInv, ParentInv, OrigInv, ReparentInv, ScanInv, LockInv,
         HoldsLock
<1> QED
  BY <1>1, <1>2, <1>3, <1>4, <1>5, <1>6

\* wait() takes p->lock.
LEMMA WaitEnterIInv ==
  ASSUME IInv, NEW p \in Slots, WaitEnter(p) PROVE IInv'
<1> USE SlotFacts
      DEF IInv, TypeOK, WaitEnter, ScanFromStart, At, Goto, Free, table, locals,
          Unlocked, Exiting, Waiting
<1>1. TypeOK'
  BY DEF PCs, States, CheckedParentStable
<1>2. LockInv'
  BY DEF LockInv, HoldsLock, PcInv, OrigInv, PCs
<1>3. PcInv' /\ InitInv'
  BY DEF PcInv, InitInv, LockInv, HoldsLock, OrigInv, CheckedParentStable
<1>4. ParentInv' /\ OrigInv'
  BY DEF ParentInv, OrigInv, InitInv, PcInv, CheckedParentStable
<1>5. ReparentInv' /\ ScanInv'
  BY DEF ReparentInv, ScanInv, PcInv, ParentInv, LockInv, HoldsLock,
         OrigInv, CheckedParentStable
<1>6. CheckedParentStable' /\ NoMissedExit' /\ OrphansHaveInit'
  BY DEF CheckedParentStable, NoMissedExit, SleepsInWait, OrphansHaveInit,
         PcInv, InitInv, ParentInv, OrigInv, ReparentInv, ScanInv, LockInv,
         HoldsLock
<1> QED
  BY <1>1, <1>2, <1>3, <1>4, <1>5, <1>6

\* wait() reads np->parent without a lock.
LEMMA WaitCheckIInv ==
  ASSUME IInv, NEW p \in Slots, WaitCheck(p) PROVE IInv'
<1> USE SlotFacts
      DEF IInv, TypeOK, WaitCheck, At, Goto, Free, table, locals, Unlocked,
          Exiting, Waiting
<1>1. TypeOK'
  BY DEF PCs, States, CheckedParentStable
<1>2. LockInv'
  BY DEF LockInv, HoldsLock, PcInv, OrigInv, PCs
<1>3. PcInv' /\ InitInv'
  BY DEF PcInv, InitInv, LockInv, HoldsLock, OrigInv, CheckedParentStable
<1>4. ParentInv' /\ OrigInv'
  BY DEF ParentInv, OrigInv, InitInv, PcInv, CheckedParentStable
<1>5. ScanInv'
  <2> SUFFICES ASSUME NEW q \in Slots \ {initproc}, NEW c \in Slots,
                      pc'[q] \in Waiting, c < idx'[q], parent'[c] = q
               PROVE  state'[c] # "ZOMBIE" /\ havekids'[q]
    BY DEF ScanInv
  <2>1. CASE q # p
    BY <2>1 DEF ScanInv
  <2>2. CASE q = p
    <3>1. c \in Int /\ idx[p] \in Int
      OBVIOUS
    <3>2. idx'[p] = idx[p] \/ idx'[p] = idx[p] + 1
      OBVIOUS
    <3>3. c < idx[p] \/ c = idx[p]
      BY <2>2, <3>1, <3>2
    <3> QED
      BY <2>2, <3>3 DEF ScanInv, CheckedParentStable
  <2> QED
    BY <2>1, <2>2
<1>6. ReparentInv'
  BY DEF ReparentInv
<1>7. CheckedParentStable' /\ NoMissedExit' /\ OrphansHaveInit'
  BY DEF CheckedParentStable, NoMissedExit, SleepsInWait, OrphansHaveInit,
         PcInv, InitInv, ParentInv, OrigInv, ReparentInv, ScanInv, LockInv,
         HoldsLock
<1> QED
  BY <1>1, <1>2, <1>3, <1>4, <1>5, <1>6, <1>7

\* The child is counted and passed.
LEMMA WaitChildAliveIInv ==
  ASSUME IInv, NEW p \in Slots, WaitChildAlive(p) PROVE IInv'
<1> USE SlotFacts
      DEF IInv, TypeOK, WaitChildAlive, At, Goto, Free, table, locals, Unlocked,
          Exiting, Waiting
<1>1. TypeOK'
  BY DEF PCs, States, CheckedParentStable
<1>2. LockInv'
  BY DEF LockInv, HoldsLock, PcInv, OrigInv, PCs
<1>3. PcInv' /\ InitInv'
  BY DEF PcInv, InitInv, LockInv, HoldsLock, OrigInv, CheckedParentStable
<1>4. ParentInv' /\ OrigInv'
  BY DEF ParentInv, OrigInv, InitInv, PcInv, CheckedParentStable
<1>5. ScanInv'
  <2> SUFFICES ASSUME NEW q \in Slots \ {initproc}, NEW c \in Slots,
                      pc'[q] \in Waiting, c < idx'[q], parent'[c] = q
               PROVE  state'[c] # "ZOMBIE" /\ havekids'[q]
    BY DEF ScanInv
  <2>1. CASE q # p
    BY <2>1 DEF ScanInv
  <2>2. CASE q = p
    <3>1. c \in Int /\ idx[p] \in Int
      OBVIOUS
    <3>2. idx'[p] = idx[p] \/ idx'[p] = idx[p] + 1
      OBVIOUS
    <3>3. c < idx[p] \/ c = idx[p]
      BY <2>2, <3>1, <3>2
    <3> QED
      BY <2>2, <3>3 DEF ScanInv, CheckedParentStable
  <2> QED
    BY <2>1, <2>2
<1>6. ReparentInv'
  BY DEF ReparentInv
<1>7. CheckedParentStable' /\ NoMissedExit' /\ OrphansHaveInit'
  BY DEF CheckedParentStable, NoMissedExit, SleepsInWait, OrphansHaveInit,
         PcInv, InitInv, ParentInv, OrigInv, ReparentInv, ScanInv, LockInv,
         HoldsLock
<1> QED
  BY <1>1, <1>2, <1>3, <1>4, <1>5, <1>6, <1>7

\* The zombie child is freed: it has no children of its own.
LEMMA WaitReapIInv ==
  ASSUME IInv, NEW p \in Slots, WaitReap(p) PROVE IInv'
<1> USE SlotFacts
      DEF IInv, TypeOK, WaitReap, freeproc, At, Goto, Free, table, locals,
          Unlocked, Exiting, Waiting
<1>1. TypeOK'
  BY DEF PCs, States, CheckedParentStable
<1>2. LockInv'
  BY DEF LockInv, HoldsLock, PcInv, OrigInv, PCs
<1>3. PcInv' /\ InitInv'
  BY DEF PcInv, InitInv, LockInv, HoldsLock, OrigInv, CheckedParentStable
<1>4. ParentInv' /\ OrigInv'
  BY DEF ParentInv, OrigInv, InitInv, PcInv, CheckedParentStable
<1>5. ReparentInv' /\ ScanInv'
  BY DEF ReparentInv, ScanInv, PcInv, ParentInv, LockInv, HoldsLock,
         OrigInv, CheckedParentStable
<1>6. CheckedParentStable' /\ NoMissedExit' /\ OrphansHaveInit'
  BY DEF CheckedParentStable, NoMissedExit, SleepsInWait, OrphansHaveInit,
         PcInv, InitInv, ParentInv, OrigInv, ReparentInv, ScanInv, LockInv,
         HoldsLock
<1> QED
  BY <1>1, <1>2, <1>3, <1>4, <1>5, <1>6

\* wait() gives up on a bad address.
LEMMA WaitBadAddrIInv ==
  ASSUME IInv, NEW p \in Slots, WaitBadAddr(p) PROVE IInv'
<1> USE SlotFacts
      DEF IInv, TypeOK, WaitBadAddr, Return, At, Goto, Free, table, locals,
          Unlocked, Exiting, Waiting
<1>1. TypeOK'
  BY DEF PCs, States, CheckedParentStable
<1>2. LockInv'
  BY DEF LockInv, HoldsLock, PcInv, OrigInv, PCs
<1>3. PcInv' /\ InitInv'
  BY DEF PcInv, InitInv, LockInv, HoldsLock, OrigInv, CheckedParentStable
<1>4. ParentInv' /\ OrigInv'
  BY DEF ParentInv, OrigInv, InitInv, PcInv, CheckedParentStable
<1>5. ReparentInv' /\ ScanInv'
  BY DEF ReparentInv, ScanInv, PcInv, ParentInv, LockInv, HoldsLock,
         OrigInv, CheckedParentStable
<1>6. CheckedParentStable' /\ NoMissedExit' /\ OrphansHaveInit'
  BY DEF CheckedParentStable, NoMissedExit, SleepsInWait, OrphansHaveInit,
         PcInv, InitInv, ParentInv, OrigInv, ReparentInv, ScanInv, LockInv,
         HoldsLock
<1> QED
  BY <1>1, <1>2, <1>3, <1>4, <1>5, <1>6

\* wait() returns -1.
LEMMA WaitFailIInv ==
  ASSUME IInv, NEW p \in Slots, WaitFail(p) PROVE IInv'
<1> USE SlotFacts
      DEF IInv, TypeOK, WaitFail, Return, At, Goto, Free, table, locals,
          Unlocked, Exiting, Waiting
<1>1. TypeOK'
  BY DEF PCs, States, CheckedParentStable
<1>2. LockInv'
  BY DEF LockInv, HoldsLock, PcInv, OrigInv, PCs
<1>3. PcInv' /\ InitInv'
  BY DEF PcInv, InitInv, LockInv, HoldsLock, OrigInv, CheckedParentStable
<1>4. ParentInv' /\ OrigInv'
  BY DEF ParentInv, OrigInv, InitInv, PcInv, CheckedParentStable
<1>5. ReparentInv' /\ ScanInv'
  BY DEF ReparentInv, ScanInv, PcInv, ParentInv, LockInv, HoldsLock,
         OrigInv, CheckedParentStable
<1>6. CheckedParentStable' /\ NoMissedExit' /\ OrphansHaveInit'
  BY DEF CheckedParentStable, NoMissedExit, SleepsInWait, OrphansHaveInit,
         PcInv, InitInv, ParentInv, OrigInv, ReparentInv, ScanInv, LockInv,
         HoldsLock
<1> QED
  BY <1>1, <1>2, <1>3, <1>4, <1>5, <1>6

\* The scan found no zombie, and no child can have exited while p->lock was held.
LEMMA WaitSleepIInv ==
  ASSUME IInv, NEW p \in Slots, WaitSleep(p) PROVE IInv'
<1> USE SlotFacts
      DEF IInv, TypeOK, WaitSleep, At, Goto, Free, table, locals, Unlocked,
          Exiting, Waiting
<1>1. TypeOK'
  BY DEF PCs, States, CheckedParentStable
<1>2. LockInv'
  BY DEF LockInv, HoldsLock, PcInv, OrigInv, PCs
<1>3. PcInv' /\ InitInv'
  BY DEF PcInv, InitInv, LockInv, HoldsLock, OrigInv, CheckedParentStable
<1>4. ParentInv' /\ OrigInv'
  BY DEF ParentInv, OrigInv, InitInv, PcInv, CheckedParentStable
<1>5. ReparentInv' /\ ScanInv'
  BY DEF ReparentInv, ScanInv, PcInv, ParentInv, LockInv, HoldsLock,
         OrigInv, CheckedParentStable
<1>6. CheckedParentStable' /\ NoMissedExit' /\ OrphansHaveInit'
  BY DEF CheckedParentStable, NoMissedExit, SleepsInWait, OrphansHaveInit,
         PcInv, InitInv, ParentInv, OrigInv, ReparentInv, ScanInv, LockInv,
         HoldsLock
<1> QED
  BY <1>1, <1>2, <1>3, <1>4, <1>5, <1>6

\* wait() starts a new scan.
LEMMA WaitResumeIInv ==
  ASSUME IInv, NEW p \in Slots, WaitResume(p) PROVE IInv'
<1> USE SlotFacts
      DEF IInv, TypeOK, WaitResume, ScanFromStart, At, Goto, Free, table,
          locals, Unlocked, Exiting, Waiting
<1>1. TypeOK'
  BY DEF PCs, States, CheckedParentStable
<1>2. LockInv'
  BY DEF LockInv, HoldsLock, PcInv, OrigInv, PCs
<1>3. PcInv' /\ InitInv'
  BY DEF PcInv, InitInv, LockInv, HoldsLock, OrigInv, CheckedParentStable
<1>4. ParentInv' /\ OrigInv'
  BY DEF ParentInv, OrigInv, InitInv, PcInv, CheckedParentStable
<1>5. ReparentInv' /\ ScanInv'
  BY DEF ReparentInv, ScanInv, PcInv, ParentInv, LockInv, HoldsLock,
         OrigInv, CheckedParentStable
<1>6. CheckedParentStable' /\ NoMissedExit' /\ OrphansHaveInit'
  BY DEF CheckedParentStable, NoMissedExit, SleepsInWait, OrphansHaveInit,
         PcInv, InitInv, ParentInv, OrigInv, ReparentInv, ScanInv, LockInv,
         HoldsLock
<1> QED
  BY <1>1, <1>2, <1>3, <1>4, <1>5, <1>6

\* Every step of the kernel, and every step that changes nothing, preserves
\* the invariant.
LEMMA NextIInv == IInv /\ [Next]_vars => IInv'
<1> SUFFICES ASSUME IInv, [Next]_vars PROVE IInv'
  OBVIOUS
<1>1. CASE UNCHANGED vars
  BY <1>1 DEF IInv, vars, table, locals, TypeOK, LockInv, HoldsLock, PcInv,
         InitInv, ParentInv, OrigInv, ReparentInv, ScanInv,
         CheckedParentStable, NoMissedExit, SleepsInWait, OrphansHaveInit
<1>2. ASSUME NEW p \in Slots,
             Dispatch(p) \/ Forkret(p) \/ Sched(p) \/ UserStep(p)
               \/ ForkStep(p) \/ KillStep(p) \/ ExitStep(p) \/ WaitStep(p)
      PROVE  IInv'
  BY <1>2, UnlockedIInv, DispatchIInv, ForkretIInv, SchedIInv, ForkIInv,
         ForkNoMemoryIInv, KillIInv, ExitWakeInitIInv, ExitGetParentIInv,
         ExitLockParentIInv, ExitLockSelfIInv, ReparentCheckIInv,
         ReparentChildIInv, ExitZombieIInv, WaitEnterIInv, WaitCheckIInv,
         WaitChildAliveIInv, WaitReapIInv, WaitBadAddrIInv, WaitFailIInv,
         WaitSleepIInv, WaitResumeIInv
     DEF UserStep, ForkStep, KillStep, ExitStep, WaitStep
<1> QED
  BY <1>1, <1>2 DEF Next

\* The strengthened invariant holds in every reachable state.
THEOREM Invariance == Spec => []IInv
  BY InitIInv, NextIInv, PTL DEF Spec

\* Type correctness of the process table, the locks and the threads' locals.
THEOREM TypeCorrect == Spec => []TypeOK
<1>1. IInv => TypeOK
  BY DEF IInv
<1> QED
  BY <1>1, Invariance, PTL

\* reparent() and wait() may rely on a parent pointer read without the lock.
THEOREM ParentStable == Spec => []CheckedParentStable
<1>1. IInv => CheckedParentStable
  BY DEF IInv
<1> QED
  BY <1>1, Invariance, PTL

\* No process but init sleeps in wait() with a zombie child, whatever the number
\* of processes and the order in which they fork, exit and wait.
THEOREM NoLostExit == Spec => []NoMissedExit
<1>1. IInv => NoMissedExit
  BY DEF IInv
<1> QED
  BY <1>1, Invariance, PTL

\* A zombie or a free slot is nobody's parent.
THEOREM NoDanglingParent == Spec => []OrphansHaveInit
<1>1. IInv => OrphansHaveInit
  BY DEF IInv
<1> QED
  BY <1>1, Invariance, PTL

\* sched() is only called with p->lock and no other lock held.
THEOREM SchedLocks == Spec => []SchedHoldsOnlyOwnLock
<1>1. IInv => SchedHoldsOnlyOwnLock
  BY SlotFacts DEF IInv, TypeOK, SchedHoldsOnlyOwnLock, LockInv, HoldsLock, Exiting
<1> QED
  BY <1>1, Invariance, PTL

\* Nobody dispatches or frees a process that is still on its kernel stack.
THEOREM StackSafe == Spec => []StackQuiescent
<1>1. IInv => StackQuiescent
  BY SlotFacts DEF IInv, TypeOK, PCs, StackQuiescent, Free, LockInv, HoldsLock,
                   PcInv
<1> QED
  BY <1>1, Invariance, PTL

\* wait() fails for a live process other than init only if it has no children.
THEOREM WaitFails == Spec => WaitFailsOnlyChildless
<1>1. ASSUME IInv, NEW p \in Slots \ {initproc}, WaitFail(p), ~killed[p],
             NEW c \in Slots
      PROVE  parent[c] # p
  BY <1>1, SlotFacts DEF IInv, TypeOK, ScanInv, WaitFail, At, Waiting
<1>2. IInv => [\A p \in Slots \ {initproc} :
                 WaitFail(p) /\ ~killed[p] => \A c \in Slots : parent[c] # p]_vars
  BY <1>1
<1> QED
  BY <1>2, Invariance, PTL DEF WaitFailsOnlyChildless

---------------------------------------------------------------------------
\* A step that neither frees, fills nor ends a slot, and changes no parent and
\* no pid in use, is invisible in the process tree.
LEMMA TreeStutter ==
  ASSUME UNCHANGED <<parent, nextpid>>,
         \A s \in Slots : /\ state'[s] = "UNUSED" <=> state[s] = "UNUSED"
                          /\ state'[s] = "ZOMBIE" <=> state[s] = "ZOMBIE"
                          /\ state[s] # "UNUSED" => pid'[s] = pid[s]
  PROVE  UNCHANGED Tree!vars
BY DEF Tree!vars

\* The steps of the tree that concern two slots.
LEMMA TreeStep ==
  ASSUME NEW p \in Slots, NEW c \in Slots,
         Tree!Fork(p, c) \/ Tree!GiveAway(p, c) \/ Tree!Reap(p, c)
  PROVE  Tree!Next
BY DEF Tree!Next

\* The initial table is the tree that has only init.
LEMMA InitTree == Init => Tree!Init
BY SlotFacts DEF Init, Tree!Init

\* Every step of the kernel is a step of the process tree or invisible in it.
LEMMA NextTree == IInv /\ [Next]_vars => [Tree!Next]_(Tree!vars)
<1> SUFFICES ASSUME IInv, [Next]_vars PROVE [Tree!Next]_(Tree!vars)
  OBVIOUS
<1> USE SlotFacts DEF IInv, TypeOK, At, Goto, Free, Return, table, locals
<1>1. CASE UNCHANGED vars
  BY <1>1, TreeStutter DEF vars
<1>2. ASSUME NEW p \in Slots,
             \/ Dispatch(p) \/ Forkret(p) \/ Sched(p) \/ ForkCall(p)
             \/ ForkSkip(p) \/ ForkNoSlot(p) \/ KillCall(p) \/ KillSkip(p)
             \/ Kill(p) \/ KillNone(p) \/ ExitCall(p) \/ TrapKilled(p)
             \/ TrapFault(p) \/ ExitWakeInit(p) \/ ExitGetParent(p)
             \/ ExitLockParent(p) \/ ExitLockSelf(p) \/ ReparentCheck(p)
             \/ WaitCall(p) \/ WaitEnter(p) \/ WaitCheck(p)
             \/ WaitChildAlive(p) \/ WaitBadAddr(p) \/ WaitFail(p)
             \/ WaitSleep(p) \/ WaitResume(p)
      PROVE  UNCHANGED Tree!vars
  <2>1. UNCHANGED <<parent, nextpid, pid>>
    BY <1>2
     DEF ForkCall, ForkSkip, ForkNoSlot, KillCall, KillSkip, KillNone,
         ExitCall, TrapKilled, TrapFault, WaitCall, Dispatch, Forkret,
         Sched, Kill, ExitWakeInit, ExitGetParent, ExitLockParent,
         ExitLockSelf, ReparentCheck, WaitEnter, WaitCheck, WaitChildAlive,
         WaitBadAddr, WaitFail, WaitSleep, WaitResume, ScanFromStart
  <2>2. \A s \in Slots : /\ state'[s] = "UNUSED" <=> state[s] = "UNUSED"
                         /\ state'[s] = "ZOMBIE" <=> state[s] = "ZOMBIE"
    BY <1>2
     DEF ForkCall, ForkSkip, ForkNoSlot, KillCall, KillSkip, KillNone,
         ExitCall, TrapKilled, TrapFault, WaitCall, Dispatch, Forkret,
         Sched, Kill, ExitWakeInit, ExitGetParent, ExitLockParent,
         ExitLockSelf, ReparentCheck, WaitEnter, WaitCheck, WaitChildAlive,
         WaitBadAddr, WaitFail, WaitSleep, WaitResume, ScanFromStart,
         wakeup1, PcInv, Waiting
  <2> QED
    BY <2>1, <2>2, TreeStutter
<1>3. ASSUME NEW p \in Slots, Fork(p)
      PROVE  \E c \in Slots : Tree!Fork(p, c)
  <2>1. PICK c \in Slots : c = idx[p]
    BY <1>3 DEF Fork, allocproc
  <2> QED
    BY <1>3, <2>1, ZenonT(40) DEF Fork, allocproc, PcInv, Unlocked, Tree!Fork
<1>4. ASSUME NEW p \in Slots, ForkNoTrapframe(p) \/ ForkNoMemory(p)
      PROVE  Tree!FailedFork
  BY <1>4 DEF ForkNoTrapframe, ForkNoMemory, allocproc, freeproc, ParentInv,
              Tree!FailedFork
<1>5. ASSUME NEW p \in Slots, ReparentChild(p)
      PROVE  \E c \in Slots : Tree!GiveAway(p, c)
  <2>1. PICK c \in Slots : c = idx[p] /\ parent[c] = p
    BY <1>5 DEF ReparentChild, CheckedParentStable
  <2> QED
    BY <1>5, <2>1 DEF ReparentChild, InitInv, PcInv, Exiting, Tree!GiveAway
<1>6. ASSUME NEW p \in Slots, ExitZombie(p)
      PROVE  Tree!Exit(p)
  <2>1. p # initproc /\ state[p] = "RUNNING"
    BY <1>6 DEF ExitZombie, InitInv, PcInv, Exiting
  <2>2. \A c \in Slots : parent[c] # p
    BY <1>6 DEF ExitZombie, ReparentInv
  <2>3. \A s \in Slots \ {p} : /\ state'[s] = "UNUSED" <=> state[s] = "UNUSED"
                               /\ state'[s] = "ZOMBIE" <=> state[s] = "ZOMBIE"
    BY <1>6 DEF ExitZombie, wakeup1
  <2>4. state'[p] = "ZOMBIE" /\ UNCHANGED <<parent, pid, nextpid>>
    BY <1>6 DEF ExitZombie, wakeup1
  <2> QED
    BY <2>1, <2>2, <2>3, <2>4 DEF Tree!Exit
<1>7. ASSUME NEW p \in Slots, WaitReap(p)
      PROVE  \E c \in Slots : Tree!Reap(p, c)
  <2>1. PICK c \in Slots : c = idx[p] /\ parent[c] = p
    BY <1>7 DEF WaitReap, CheckedParentStable
  <2>2. c # p /\ state[p] = "RUNNING" /\ state[c] = "ZOMBIE"
    BY <1>7, <2>1 DEF WaitReap, PcInv, Waiting
  <2>3. /\ state' = [state EXCEPT ![c] = "UNUSED"]
        /\ parent' = [parent EXCEPT ![c] = NoProc]
        /\ pid' = [pid EXCEPT ![c] = 0]
        /\ nextpid' = nextpid
    BY <1>7, <2>1 DEF WaitReap, freeproc
  <2> QED
    BY <2>1, <2>2, <2>3 DEF Tree!Reap
<1>8. ASSUME NEW p \in Slots, ForkStep(p)
      PROVE  Tree!Next \/ UNCHANGED Tree!vars
  <2>1. CASE Fork(p)
    BY <2>1, <1>3, TreeStep
  <2>2. CASE ForkNoTrapframe(p) \/ ForkNoMemory(p)
    BY <2>2, <1>4 DEF Tree!Next
  <2> QED
    BY <1>8, <2>1, <2>2, <1>2 DEF ForkStep
<1>9. ASSUME NEW p \in Slots, UserStep(p) \/ KillStep(p)
      PROVE  UNCHANGED Tree!vars
  BY <1>9, <1>2 DEF UserStep, KillStep
<1>10. ASSUME NEW p \in Slots, ExitStep(p) \/ WaitStep(p)
       PROVE  Tree!Next \/ UNCHANGED Tree!vars
  <2>1. CASE ReparentChild(p)
    BY <2>1, <1>5, TreeStep
  <2>2. CASE ExitZombie(p)
    BY <2>2, <1>6 DEF Tree!Next
  <2>3. CASE WaitReap(p)
    BY <2>3, <1>7, TreeStep
  <2> QED
    BY <1>10, <2>1, <2>2, <2>3, <1>2 DEF ExitStep, WaitStep
<1> QED
  BY <1>1, <1>2, <1>8, <1>9, <1>10 DEF Next

\* fork(), exit(), reparent() and wait() implement the process tree.
THEOREM ImplementsTree == Spec => TreeSpec
BY InitTree, NextTree, Invariance, PTL DEF Spec, TreeSpec, Tree!Spec

---------------------------------------------------------------------------
(* Deadlock freedom.  The comments of exit(), reparent() and wait() argue   *)
(* from the order parent, then child.  It is an order because a child has   *)
(* the greater pid.  exit() breaks it in one case only, the one the run     *)
(* proc_reuse shows: the slot of original_parent has been used again.       *)

\* Pids grow from parent to child.
AgeInv ==
  /\ pid[initproc] = 1
  /\ \A s \in Slots : pid[s] < nextpid /\ (state[s] # "UNUSED" => pid[s] >= 1)
  /\ \A c \in Slots : parent[c] \in Slots => pid[parent[c]] < pid[c]
  /\ \A s, t \in Slots : pid[s] = pid[t] /\ pid[s] # 0 => s = t

\* exit() of p has locked the slot of its original_parent, and the slot has been
\* allocated again since: its pid is younger than p's.
OrigReused(p) == pc[p] \in Exiting /\ pid[p] < pid[orig[p]]

\* A step that touches no pid and no parent.
LEMMA AgeFrame ==
  ASSUME IInv, AgeInv, UNCHANGED <<parent, pid, nextpid>>,
         \A s \in Slots : state'[s] # "UNUSED" => state[s] # "UNUSED"
  PROVE  AgeInv'
BY DEF AgeInv

\* freeproc() of a slot that is nobody's parent.
LEMMA AgeFree ==
  ASSUME IInv, AgeInv, NEW s \in Slots, s # initproc, state[s] \in {"UNUSED", "ZOMBIE"},
         freeproc(s), nextpid' \in Nat, nextpid <= nextpid'
  PROVE  AgeInv'
<1> USE SlotFacts
<1>1. /\ pid'[s] = 0 /\ parent'[s] = NoProc /\ state'[s] = "UNUSED"
      /\ \A c \in Slots : c # s => pid'[c] = pid[c] /\ parent'[c] = parent[c] /\ state'[c] = state[c]
      /\ \A c \in Slots : parent[c] # s
      /\ \A c \in Slots : pid[c] \in Nat
      /\ nextpid \in Nat
  BY DEF freeproc, IInv, TypeOK, OrphansHaveInit
<1>2. pid'[initproc] = 1
  BY <1>1 DEF AgeInv
<1>3. \A c \in Slots : pid'[c] < nextpid' /\ (state'[c] # "UNUSED" => pid'[c] >= 1)
  <2> TAKE c \in Slots
  <2>1. pid[c] < nextpid /\ pid[initproc] < nextpid BY DEF AgeInv
  <2>2. CASE c = s BY <1>1, <1>2, <2>1, <2>2 DEF AgeInv
  <2>3. CASE c # s BY <1>1, <2>1, <2>3 DEF AgeInv
  <2> QED BY <2>2, <2>3
<1>4. \A c \in Slots : parent'[c] \in Slots => pid'[parent'[c]] < pid'[c]
  <2> TAKE c \in Slots
  <2> HAVE parent'[c] \in Slots
  <2>1. c # s /\ parent'[c] = parent[c] /\ parent[c] # s BY <1>1
  <2> QED BY <1>1, <2>1 DEF AgeInv
<1>5. \A c, t \in Slots : pid'[c] = pid'[t] /\ pid'[c] # 0 => c = t
  BY <1>1 DEF AgeInv
<1> QED BY <1>2, <1>3, <1>4, <1>5 DEF AgeInv

\* allocproc() gives a slot that is nobody's parent the greatest pid yet.
LEMMA AgeFork ==
  ASSUME IInv, AgeInv, NEW p \in Slots, Fork(p) \/ ForkNoTrapframe(p)
  PROVE  AgeInv'
<1> USE SlotFacts
<1> DEFINE s == idx[p]
<1>1. /\ s \in Slots /\ state[s] = "UNUSED" /\ pc[p] = "fork_scan"
      /\ pid' = [pid EXCEPT ![s] = nextpid] /\ nextpid' = nextpid + 1
      /\ pid \in [Slots -> Nat] /\ nextpid \in Nat /\ parent \in [Slots -> Slots \cup {NoProc}]
  BY DEF Fork, ForkNoTrapframe, allocproc, At, IInv, TypeOK
<1>2. p # s /\ s # initproc /\ parent[s] = NoProc
  BY <1>1 DEF IInv, PcInv, InitInv, ParentInv, Unlocked
<1>3. parent'[s] \in {p, NoProc} /\ \A c \in Slots : c # s => parent'[c] = parent[c]
  BY <1>1, <1>2 DEF Fork, ForkNoTrapframe
<1>4. \A c \in Slots : parent[c] # s
  BY <1>1 DEF IInv, OrphansHaveInit
<1>5. /\ pid'[s] = nextpid /\ \A c \in Slots : c # s => pid'[c] = pid[c]
      /\ \A c \in Slots : pid[c] \in Nat /\ pid[c] < nextpid
  BY <1>1 DEF AgeInv
<1>6. \A c \in Slots : c # s => (state'[c] # "UNUSED" => state[c] # "UNUSED")
  BY <1>1 DEF Fork, ForkNoTrapframe, IInv, TypeOK
<1> HIDE DEF s
<1>7. pid'[initproc] = 1
  BY <1>2, <1>5 DEF AgeInv
<1>8. \A c \in Slots : pid'[c] < nextpid' /\ (state'[c] # "UNUSED" => pid'[c] >= 1)
  <2> TAKE c \in Slots
  <2>1. CASE c = s
    <3>1. pid[initproc] = 1 BY DEF AgeInv
    <3> QED BY <1>1, <1>5, <2>1, <3>1
  <2>2. CASE c # s
    BY <1>1, <1>5, <1>6, <2>2 DEF AgeInv
  <2> QED BY <2>1, <2>2
<1>9. \A c \in Slots : parent'[c] \in Slots => pid'[parent'[c]] < pid'[c]
  <2> TAKE c \in Slots
  <2> HAVE parent'[c] \in Slots
  <2>1. CASE c = s
    <3>1. parent'[c] = p BY <1>3, <2>1
    <3> QED BY <1>2, <1>5, <2>1, <3>1
  <2>2. CASE c # s
    <3>1. parent'[c] = parent[c] /\ parent[c] # s BY <1>3, <1>4, <2>2
    <3> QED BY <1>5, <2>2, <3>1 DEF AgeInv
  <2> QED BY <2>1, <2>2
<1>10. \A c, t \in Slots : pid'[c] = pid'[t] /\ pid'[c] # 0 => c = t
  <2> TAKE c, t \in Slots
  <2>1. \A e \in Slots : e # s => pid'[e] # pid'[s]
    BY <1>1, <1>5
  <2> QED BY <1>5, <2>1 DEF AgeInv
<1> QED BY <1>7, <1>8, <1>9, <1>10 DEF AgeInv

\* reparent() gives a child to init, the oldest process.
LEMMA AgeReparent ==
  ASSUME IInv, AgeInv, NEW p \in Slots, ReparentChild(p)
  PROVE  AgeInv'
<1> USE SlotFacts
<1> DEFINE s == idx[p]
<1>1. /\ s \in Slots /\ parent[s] = p /\ state[p] # "UNUSED"
      /\ parent' = [parent EXCEPT ![s] = initproc] /\ UNCHANGED <<pid, nextpid, state>>
      /\ parent \in [Slots -> Slots \cup {NoProc}] /\ pid \in [Slots -> Nat]
  BY DEF ReparentChild, At, IInv, TypeOK, CheckedParentStable, PcInv, Exiting
<1>2. pid[initproc] < pid[s]
  <2>1. pid[p] >= 1 /\ pid[p] < pid[s] /\ pid[initproc] = 1
    BY <1>1 DEF AgeInv
  <2> QED BY <1>1, <2>1
<1>3. parent'[s] = initproc /\ \A c \in Slots : c # s => parent'[c] = parent[c]
  BY <1>1
<1> HIDE DEF s
<1>4. \A c \in Slots : parent'[c] \in Slots => pid'[parent'[c]] < pid'[c]
  BY <1>1, <1>2, <1>3 DEF AgeInv
<1> QED BY <1>1, <1>4 DEF AgeInv

\* Every step keeps the ages in order.
LEMMA NextAge == IInv /\ AgeInv /\ [Next]_vars => AgeInv'
<1> SUFFICES ASSUME IInv, AgeInv, [Next]_vars PROVE AgeInv'
  OBVIOUS
<1> USE SlotFacts DEF At, Goto, Return, Free, table, locals
<1>1. CASE UNCHANGED vars
  BY <1>1, AgeFrame DEF vars
<1>2. ASSUME NEW p \in Slots, Dispatch(p) \/ Forkret(p) \/ Sched(p) \/ UserStep(p)
      PROVE  AgeInv'
  BY <1>2, AgeFrame DEF Dispatch, Forkret, Sched, UserStep, ForkCall, KillCall, WaitCall,
                        ExitCall, TrapKilled, TrapFault, IInv, TypeOK
<1>3. ASSUME NEW p \in Slots, ForkStep(p) PROVE AgeInv'
  <2>1. CASE ForkSkip(p) \/ ForkNoSlot(p)
    BY <2>1, AgeFrame DEF ForkSkip, ForkNoSlot
  <2>2. CASE Fork(p) \/ ForkNoTrapframe(p)
    BY <2>2, AgeFork
  <2>3. CASE ForkNoMemory(p)
    <3>1. idx[p] \in Slots /\ state[idx[p]] = "UNUSED" /\ freeproc(idx[p]) /\ nextpid' = nextpid + 1
      BY <2>3 DEF ForkNoMemory, allocproc, IInv, TypeOK
    <3>2. idx[p] # initproc
      BY <3>1 DEF IInv, PcInv, InitInv
    <3>3. nextpid' \in Nat /\ nextpid <= nextpid'
      BY <3>1 DEF IInv, TypeOK
    <3> QED BY <3>1, <3>2, <3>3, AgeFree
  <2> QED BY <1>3, <2>1, <2>2, <2>3 DEF ForkStep
<1>4. ASSUME NEW p \in Slots, KillStep(p) PROVE AgeInv'
  BY <1>4, AgeFrame DEF KillStep, KillSkip, Kill, KillNone, IInv, TypeOK
<1>5. ASSUME NEW p \in Slots, ExitStep(p) PROVE AgeInv'
  <2>1. CASE ReparentChild(p)
    BY <2>1, AgeReparent
  <2>2. CASE ExitGetParent(p) \/ ExitLockParent(p) \/ ExitLockSelf(p) \/ ReparentCheck(p)
    BY <2>2, AgeFrame DEF ExitGetParent, ExitLockParent, ExitLockSelf, ReparentCheck
  <2>3. CASE ExitWakeInit(p)
    BY <2>3, AgeFrame DEF ExitWakeInit, wakeup1, IInv, TypeOK
  <2>4. CASE ExitZombie(p)
    <3>1. state[p] # "UNUSED" BY <2>4 DEF ExitZombie, IInv, PcInv
    <3> QED BY <2>4, <3>1, AgeFrame DEF ExitZombie, wakeup1, IInv, TypeOK
  <2> QED BY <1>5, <2>1, <2>2, <2>3, <2>4 DEF ExitStep
<1>6. ASSUME NEW p \in Slots, WaitStep(p) PROVE AgeInv'
  <2>1. CASE WaitReap(p)
    <3>1. idx[p] \in Slots /\ state[idx[p]] = "ZOMBIE" /\ freeproc(idx[p]) /\ nextpid' = nextpid
      BY <2>1 DEF WaitReap, IInv, CheckedParentStable
    <3>2. idx[p] # initproc
      BY <3>1 DEF IInv, PcInv, InitInv
    <3>3. nextpid' \in Nat /\ nextpid <= nextpid'
      BY <3>1 DEF IInv, TypeOK
    <3> QED BY <3>1, <3>2, <3>3, AgeFree
  <2>2. CASE WaitSleep(p)
    <3>1. state[p] # "UNUSED" BY <2>2 DEF WaitSleep, IInv, PcInv
    <3> QED BY <2>2, <3>1, AgeFrame DEF WaitSleep, IInv, TypeOK
  <2>3. CASE WaitEnter(p) \/ WaitCheck(p) \/ WaitChildAlive(p) \/ WaitBadAddr(p)
               \/ WaitFail(p) \/ WaitResume(p)
    BY <2>3, AgeFrame DEF WaitEnter, WaitCheck, WaitChildAlive, WaitBadAddr, WaitFail, WaitResume
  <2> QED BY <1>6, <2>1, <2>2, <2>3 DEF WaitStep
<1> QED BY <1>1, <1>2, <1>3, <1>4, <1>5, <1>6 DEF Next

\* The holder of a lock is its process, or a younger one that exits.
LEMMA HolderYounger ==
  ASSUME IInv, AgeInv, \A p \in Slots : ~OrigReused(p),
         NEW t \in Slots, NEW k \in Slots, lock[t] = k
  PROVE  k = t \/ (pc[k] \in Exiting /\ orig[k] = t /\ pid[t] < pid[k])
<1> USE SlotFacts
<1>1. HoldsLock(k, t)
  BY DEF IInv, LockInv
<1> SUFFICES ASSUME k # t PROVE pc[k] \in Exiting /\ orig[k] = t /\ pid[t] < pid[k]
  OBVIOUS
<1>2. pc[k] \in Exiting /\ orig[k] = t
  BY <1>1 DEF HoldsLock
<1>3. pid[t] \in Nat /\ pid[k] \in Nat
  BY DEF IInv, TypeOK
<1>4. ~(pid[k] < pid[t])
  BY <1>2 DEF OrigReused
<1>5. pid[k] >= 1
  BY <1>2 DEF IInv, PcInv, AgeInv
<1>6. pid[k] # pid[t]
  BY <1>3, <1>5 DEF AgeInv
<1> QED BY <1>2, <1>3, <1>4, <1>6

\* A thread that holds a lock and wants another is in the second half of exit()
\* or in wait(), and what it wants is held by a younger process.
LEMMA WaitsForYounger ==
  ASSUME IInv, AgeInv, \A p \in Slots : ~OrigReused(p),
         NEW h \in Slots, NEW s \in Slots, lock[s] = h,
         Wants(h) # NoProc, lock[Wants(h)] \in Slots
  PROVE  pid[h] < pid[lock[Wants(h)]]
<1> USE SlotFacts
<1>1. HoldsLock(h, s)
  BY DEF IInv, LockInv
<1>2. pc[h] \in {"exit_self", "exit_child", "wait_child"}
  BY <1>1 DEF HoldsLock, Wants, Exiting
<1>3. \A t \in Slots : pid[t] \in Nat
  BY DEF IInv, TypeOK
<1>4. CASE pc[h] = "exit_self"
  <2>1. Wants(h) = h
    BY <1>4 DEF Wants
  <2>2. lock[h] # h
    BY <1>4 DEF IInv, LockInv, HoldsLock, OrigInv, Exiting
  <2>3. PICK k \in Slots : lock[h] = k
    BY <2>1
  <2> QED BY <2>1, <2>2, <2>3, HolderYounger
<1>5. CASE pc[h] \in {"exit_child", "wait_child"}
  <2>1. Wants(h) = idx[h] /\ idx[h] \in Slots /\ parent[idx[h]] = h
    BY <1>5 DEF Wants, IInv, CheckedParentStable
  <2>2. pid[h] < pid[idx[h]]
    BY <2>1 DEF AgeInv
  <2>3. PICK k \in Slots : lock[idx[h]] = k
    BY <2>1
  <2>4. k = idx[h] \/ pid[idx[h]] < pid[k]
    BY <2>1, <2>3, HolderYounger
  <2> QED BY <1>3, <2>1, <2>2, <2>3, <2>4
<1> QED BY <1>2, <1>4, <1>5

\* A lock that is wanted is the lock of a slot.
LEMMA WantsSlot ==
  ASSUME IInv, NEW p \in Slots, Wants(p) # NoProc
  PROVE  Wants(p) \in Slots
BY SlotFacts DEF Wants, IInv, TypeOK, CheckedParentStable, OrigInv

\* Nobody waits in a circle, unless exit() holds the lock of a slot that was
\* used again: follow the holders, which only get younger.
LEMMA NoCircle ==
  ASSUME IInv, AgeInv, \A p \in Slots : ~OrigReused(p)
  PROVE  NoDeadlock
<1> SUFFICES ASSUME NEW S \in SUBSET Slots, S # {},
                    \A p \in S : Wants(p) # NoProc /\ lock[Wants(p)] \in S
             PROVE  FALSE
  BY DEF NoDeadlock
<1> DEFINE f(p) == lock[Wants(p)]
           T == {h \in S : \E p \in S : h = f(p)}
           D == {nextpid - pid[h] : h \in T}
<1>1. T # {}
  OBVIOUS
<1>2. \A h \in T : h \in Slots /\ f(h) \in T /\ pid[h] < pid[f(h)]
  <2> SUFFICES ASSUME NEW h \in T
               PROVE  h \in Slots /\ f(h) \in T /\ pid[h] < pid[f(h)]
    OBVIOUS
  <2>1. PICK p \in S : h = f(p)
    OBVIOUS
  <2>2. Wants(p) \in Slots /\ lock[Wants(p)] = h
    BY <2>1, WantsSlot
  <2>3. h \in Slots /\ Wants(h) # NoProc /\ lock[Wants(h)] \in Slots
    OBVIOUS
  <2> QED BY <2>2, <2>3, WaitsForYounger
<1>3. /\ \A s \in Slots : pid[s] \in Nat /\ nextpid \in Nat /\ pid[s] < nextpid
  BY DEF IInv, TypeOK, AgeInv
<1> HIDE DEF f, T
<1>4. D \subseteq Nat /\ D # {}
  BY <1>1, <1>2, <1>3
<1>5. PICK m \in D : \A j \in D : m <= j
  <2> HIDE DEF D
  <2> QED BY <1>4, LeastMember
<1>6. PICK h \in T : m = nextpid - pid[h]
  OBVIOUS
<1>7. nextpid - pid[f(h)] \in D
  BY <1>2, <1>6
<1>8. m <= nextpid - pid[f(h)]
  BY <1>5, <1>7
<1> QED BY <1>2, <1>3, <1>6, <1>8

\* The kernel deadlocks on p->lock only through the reuse of original_parent's
\* slot: as long as no exiting process has locked a slot that was allocated
\* again, the order parent, then child keeps every set of waiters from waiting
\* for itself.
THEOREM DeadlockNeedsReuse ==
  Spec => []((\A p \in Slots : ~OrigReused(p)) => NoDeadlock)
<1>1. Init => AgeInv
  BY SlotFacts DEF Init, AgeInv
<1>2. IInv /\ AgeInv /\ [Next]_vars => AgeInv'
  BY NextAge
<1>3. IInv /\ AgeInv => ((\A p \in Slots : ~OrigReused(p)) => NoDeadlock)
  BY NoCircle
<1> QED BY <1>1, <1>2, <1>3, Invariance, PTL DEF Spec
=============================================================================
