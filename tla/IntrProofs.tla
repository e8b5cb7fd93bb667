----------------------------- MODULE IntrProofs -----------------------------
(* Invariance and refinement proofs for the parts of the kernel that         *)
(* interrupts drive: the CPUs (Sched), the console (Console) and the disk     *)
(* driver (Virtio).  They share no state; each part has its own invariant.    *)
EXTENDS Sched, Console, Virtio, ArithFacts, SequenceTheorems, FiniteSetTheorems, TLAPS

-----------------------------------------------------------------------------
(* Invariance proofs for Sched, for every number of CPUs and processes.      *)
(*                                                                           *)
(* ScInv reads the state of a CPU off the top frame of the thread it runs:    *)
(* which locks it holds or spins for (Wants), how deep its push_off()s are   *)
(* nested (Depth), and whether interrupts can be on.  For that to survive a  *)
(* swtch(), a thread that is not running must be suspended with the locks of *)
(* the thread that resumes it: RestInv.  OwedInv says that the scan of some  *)
(* scheduler has yet to come by every RUNNABLE process.                      *)

Open == {"off", "user", "enter", "again"}      \* where interrupts may be on
Shut == {"tick", "wlock", "wake", "clockend", "yielding"}   \* the last release() keeps them off
SchedPcs == {"on", "off", "lock", "look", "back", "wfi"}
ProcPcs == {"forkret", "user", "enter", "since", "again", "test", "sleep", "woken"}
IntrPcs == {"clock", "tick", "wlock", "wake", "clockend", "ack", "iret"}
YieldPcs == {"yield", "yielding", "yielded"}
Pcs == SchedPcs \cup ProcPcs \cup IntrPcs \cup YieldPcs

\* Where a thread waits for the swtch() back to it.
Away == {"forkret", "woken", "yielded"}

FrameType == [pc : Pcs, i : Kprocs, found : BOOLEAN]
CpuType == [intr : BOOLEAN, noff : 0..2, intena : BOOLEAN, proc : 0..NPROC]

\* The locks of thread t in frame f: those it holds, and the one it spins for.
Wants(t, f) ==
  IF f.pc \in {"look", "back"} THEN {f.i}
  ELSE IF f.pc \in Away \cup {"yielding"} THEN {t}
  ELSE IF f.pc \in {"since", "test", "tick", "wlock", "clockend"} THEN {tickslock}
  ELSE IF f.pc = "sleep" THEN {tickslock, t}
  ELSE IF f.pc = "wake" THEN {tickslock, f.i}
  ELSE {}

\* How often push_off() was called without pop_off().
Depth(pc) ==
  IF pc \in {"sleep", "wake"} THEN 2
  ELSE IF pc \in {"look", "back", "since", "test", "tick", "wlock", "clockend", "yielding"}
                 \cup Away THEN 1
  ELSE 0

\* What thread t does in its first frame, and in that of a trap.
Own(t) == IF t \in Kprocs THEN ProcPcs ELSE SchedPcs
Trapped(t) == IntrPcs \cup (IF t \in Kprocs THEN YieldPcs ELSE {})

\* Thread t runs its own code in the first frame, and a trap in the second, which
\* interrupted it where interrupts may be on.
StackOK(t, s) ==
  /\ s \in Seq(FrameType)
  /\ \/ Len(s) = 1 /\ s[1].pc \in Own(t)
     \/ Len(s) = 2 /\ s[1].pc \in Open \cap Own(t) /\ s[2].pc \in Trapped(t)
  /\ s[1].pc = "back" => s[1].found

\* State k of a CPU that runs thread t with top frame f.
CpuOK(t, f, k) ==
  /\ k.noff = Depth(f.pc)
  /\ k.intr => f.pc \in Open
  /\ f.pc \in Shut => ~k.intena
  /\ t \in Kprocs => k.proc = t
  /\ t \notin Kprocs /\ f.pc # "back" => k.proc = 0

\* The locks of CPU c, given the holders h and the lock s it spins for.
LocksOK(c, t, f, h, s) ==
  /\ \A l \in Locks : h[l] = c \/ s = l <=> l \in Wants(t, f)
  /\ s \in Locks => h[s] # c

\* The clock, and that no panic has been reached.
ClockType ==
  /\ onticks \subseteq Kprocs
  /\ ticks \in 0..TWRAP - 1
  /\ until \in [Kprocs -> [from : 0..TWRAP - 1, n : SleepFor \cup {0}]]
  /\ timer \subseteq CPUs
  /\ kpanic = ""

ScTypeOK ==
  /\ cpu \in [CPUs -> CpuType]
  /\ cur \in [CPUs -> Threads]
  /\ spin \in [CPUs -> Locks \cup {NoLock}]
  /\ holder \in [Locks -> CPUs \cup {NoCpu}]
  /\ frames \in [Threads -> Seq(FrameType)]
  /\ saved \in [Kprocs -> BOOLEAN]
  /\ pstate \in [Kprocs -> {"RUNNABLE", "RUNNING", "SLEEPING"}]
  /\ ClockType

StackInv == \A t \in Threads : StackOK(t, frames[t])

\* A CPU runs its scheduler or a RUNNING process, which no other CPU runs.
CurInv ==
  /\ \A c \in CPUs : cur[c] \in Kprocs \cup {Scheduler(c)}
  /\ \A c \in CPUs : cur[c] \in Kprocs => pstate[cur[c]] = "RUNNING"
  /\ \A c, d \in CPUs : cur[c] = cur[d] => c = d

CpuInv ==
  \A c \in CPUs : /\ CpuOK(cur[c], Top(cur[c]), cpu[c])
                  /\ LocksOK(c, cur[c], Top(cur[c]), holder, spin[c])

\* A scheduler that is not running waits for the process it runs; a process that
\* is not running waits in sched() or has yet to run.  A process yielded in a
\* trap, with interrupts off.
RestInv ==
  /\ \A c \in CPUs : cur[c] \in Kprocs => /\ Top(Scheduler(c)).pc = "back"
                                          /\ Top(Scheduler(c)).i = cur[c]
  /\ \A p \in Kprocs : (\A c \in CPUs : cur[c] # p) => Top(p).pc \in Away
  /\ \A p \in Kprocs : Top(p).pc = "yielded" => ~saved[p]

\* In frame f, a scheduler looks at process p before it waits in wfi.
LooksAt(f, p) ==
  \/ f.pc \in {"on", "off", "back"}
  \/ f.pc \in {"lock", "look"} /\ (f.found \/ f.i <= p)
Owes(c, p) == LooksAt(frames[Scheduler(c)][1], p)
OwedInv == \A p \in Kprocs : pstate[p] = "RUNNABLE" => \E c \in CPUs : Owes(c, p)

ScInv == ScTypeOK /\ StackInv /\ CurInv /\ CpuInv /\ RestInv /\ OwedInv

-----------------------------------------------------------------------------
(* Lemmas                                                                  *)

\* Threads, locks and CPUs are told apart from each other and from their nulls.
LEMMA Names ==
  /\ \A c \in CPUs : Scheduler(c) \in Threads /\ Scheduler(c) \notin Kprocs
  /\ \A c, d \in CPUs : Scheduler(c) = Scheduler(d) => c = d
  /\ \A p \in Kprocs : p \in Threads /\ p \in Locks /\ p # tickslock
  /\ tickslock \in Locks /\ NoLock \notin Locks /\ NoCpu \notin CPUs
  /\ 1 \in Kprocs
BY SchedAssumption
   DEF CPUs, Kprocs, Locks, Scheduler, Threads, tickslock, NoLock, NoCpu

\* A frame that starts, and the stack whose top frame is replaced by it.
LEMMA FrameStarts ==
  ASSUME NEW pc \in Pcs
  PROVE  /\ Frame(pc) \in FrameType /\ Frame(pc).pc = pc
         /\ Frame(pc).i = 1 /\ Frame(pc).found = FALSE
BY Names DEF Frame, FrameType

\* Stack s with frame f for its top one.
WithTop(s, f) == [s EXCEPT ![Len(s)] = f]

\* Replacing the top frame by one of the same kind keeps a stack well formed.
LEMMA ReplaceTop ==
  ASSUME NEW t \in Threads, NEW s, StackOK(t, s), NEW f \in FrameType,
         f.pc = "back" => f.found,
         \/ s[Len(s)].pc \in Own(t) /\ f.pc \in Own(t)
         \/ s[Len(s)].pc \in Trapped(t) /\ f.pc \in Trapped(t)
  PROVE  /\ StackOK(t, WithTop(s, f)) /\ Len(WithTop(s, f)) = Len(s)
         /\ WithTop(s, f)[Len(WithTop(s, f))] = f
         /\ Len(s) = 2 => WithTop(s, f)[1] = s[1]
<1> DEFINE r == WithTop(s, f)
<1>1. s \in Seq(FrameType) /\ Len(s) \in {1, 2}
  BY DEF StackOK
<1>2. Len(s) \in 1..Len(s) /\ Len(s) \in Nat
  BY <1>1
<1>3. r \in Seq(FrameType) /\ Len(r) = Len(s) /\ r[Len(r)] = f
  BY <1>1, <1>2, ExceptSeq DEF WithTop
<1>4. Len(s) = 2 => r[1] = s[1]
  BY <1>1, <1>2, ExceptSeq DEF WithTop
<1> HIDE DEF r
<1>5. Own(t) \cap Trapped(t) = {}
  BY DEF Own, Trapped, SchedPcs, ProcPcs, IntrPcs, YieldPcs
<1> SUFFICES StackOK(t, r)
  BY <1>1, <1>3, <1>4 DEF r
<1>6. CASE Len(s) = 1
  <2>1. f.pc \in Own(t)
    BY <1>1, <1>5, <1>6 DEF StackOK
  <2> QED
    BY <1>3, <1>4, <1>6, <2>1 DEF StackOK
<1>7. CASE Len(s) = 2
  <2>1. f.pc \in Trapped(t)
    BY <1>1, <1>5, <1>7 DEF StackOK
  <2>2. r[1] = s[1] /\ r[2] = f
    BY <1>3, <1>4, <1>7
  <2> QED
    BY <1>3, <1>4, <1>7, <2>1, <2>2 DEF StackOK
<1> QED
  BY <1>1, <1>6, <1>7

\* The locks that a CPU other than c holds and spins for stay as they are.
OthersKeep(c) ==
  \A d \in CPUs \ {c} : /\ spin'[d] = spin[d]
                        /\ \A l \in Locks : holder'[l] = d <=> holder[l] = d

\* A step of CPU c, which goes on with its thread: the stack becomes s, the CPU k.
Local(c, s, k) ==
  /\ cur' = cur /\ saved' = saved
  /\ cpu' = [cpu EXCEPT ![c] = k]
  /\ frames' = [frames EXCEPT ![cur[c]] = s]

\* Such a step keeps the invariant if the new stack, the new state of the CPU and
\* its locks fit together; what concerns other CPUs and threads is not disturbed.
LEMMA LocalStep ==
  ASSUME ScInv, NEW c \in CPUs, NEW s, NEW k \in CpuType, Local(c, s, k),
         StackOK(cur[c], s), CpuOK(cur[c], s[Len(s)], k),
         LocksOK(c, cur[c], s[Len(s)], holder', spin'[c]),
         s[Len(s)].pc = "yielded" => Top(cur[c]).pc = "yielded",
         spin' \in [CPUs -> Locks \cup {NoLock}],
         holder' \in [Locks -> CPUs \cup {NoCpu}], OthersKeep(c),
         pstate' \in [Kprocs -> {"RUNNABLE", "RUNNING", "SLEEPING"}],
         \A p \in Kprocs : pstate[p] = "RUNNING" => pstate'[p] = "RUNNING",
         ClockType', OwedInv'
  PROVE  ScInv'
<1> DEFINE t == cur[c]
<1>1. t \in Threads /\ frames' \in [Threads -> Seq(FrameType)] /\ s \in Seq(FrameType)
  BY DEF ScInv, ScTypeOK, Local, StackOK
<1>2. /\ frames'[t] = s /\ cpu'[c] = k
      /\ \A u \in Threads \ {t} : frames'[u] = frames[u]
      /\ \A d \in CPUs \ {c} : cpu'[d] = cpu[d]
  BY <1>1 DEF ScInv, ScTypeOK, Local
<1>3. /\ Top(t)' = s[Len(s)]
      /\ \A u \in Threads \ {t} : Top(u)' = Top(u)
  BY <1>2 DEF Top, Local
<1>4. ScTypeOK'
  BY <1>1 DEF ScInv, ScTypeOK, Local
<1>5. StackInv'
  BY <1>2 DEF ScInv, StackInv
<1>6. CurInv'
  BY Zenon DEF ScInv, CurInv, Local
<1>7. CpuInv'
  <2> SUFFICES ASSUME NEW d \in CPUs
               PROVE  /\ CpuOK(cur[d], Top(cur[d])', cpu'[d])
                      /\ LocksOK(d, cur[d], Top(cur[d])', holder', spin'[d])
    BY DEF CpuInv, Local, Top
  <2>1. CASE d = c
    BY <1>2, <1>3, <2>1
  <2>2. CASE d # c
    <3>1. cur[d] \in Threads \ {t}
      BY <2>2 DEF ScInv, ScTypeOK, CurInv
    <3>2. Top(cur[d])' = Top(cur[d]) /\ cpu'[d] = cpu[d] /\ spin'[d] = spin[d]
      BY <1>2, <1>3, <2>2, <3>1 DEF Local, OthersKeep
    <3>3. CpuOK(cur[d], Top(cur[d]), cpu[d])
          /\ LocksOK(d, cur[d], Top(cur[d]), holder, spin[d])
      BY DEF ScInv, CpuInv
    <3>4. \A l \in Locks : holder'[l] = d <=> holder[l] = d
      BY <2>2 DEF OthersKeep
    <3>5. LocksOK(d, cur[d], Top(cur[d]), holder', spin[d])
      BY <3>3, <3>4 DEF LocksOK
    <3> QED
      BY <3>2, <3>3, <3>5
  <2> QED
    BY <2>1, <2>2
<1>8. RestInv'
  <2>1. \A d \in CPUs : cur[d] \in Kprocs => Scheduler(d) \in Threads \ {t}
    BY Names DEF ScInv, CurInv
  <2>2. \A p \in Kprocs : (\A d \in CPUs : cur[d] # p) => p \in Threads \ {t}
    BY Names
  <2>3. \A p \in Kprocs : p # t => p \in Threads \ {t}
    BY Names
  <2>4. \A d \in CPUs : cur[d] \in Kprocs => /\ Top(Scheduler(d))'.pc = "back"
                                             /\ Top(Scheduler(d))'.i = cur[d]
    BY <1>3, <2>1 DEF ScInv, RestInv
  <2>5. \A p \in Kprocs : (\A d \in CPUs : cur[d] # p) => Top(p)'.pc \in Away
    BY <1>3, <2>2 DEF ScInv, RestInv
  <2>6. ASSUME NEW p \in Kprocs, Top(p)'.pc = "yielded"
        PROVE  ~saved[p]
    <3>1. Top(p).pc = "yielded"
      <4>1. CASE p = t
        BY <1>2, <2>6, <4>1 DEF Top
      <4>2. CASE p # t
        BY <1>3, <2>3, <2>6, <4>2
      <4> QED
        BY <4>1, <4>2
    <3> QED
      BY <3>1, Zenon DEF ScInv, RestInv
  <2> QED
    BY <2>4, <2>5, <2>6 DEF RestInv, Local, Top
<1> QED
  BY <1>4, <1>5, <1>6, <1>7, <1>8 DEF ScInv

\* While a CPU runs a process or a trap handler, its scheduler will start a new
\* scan.
LEMMA ScanToCome ==
  ASSUME ScInv, NEW c \in CPUs, Top(cur[c]).pc \notin SchedPcs, NEW p \in Kprocs
  PROVE  Owes(c, p)
<1> DEFINE t == Scheduler(c)
<1>1. t \in Threads /\ t \notin Kprocs /\ StackOK(t, frames[t]) /\ cur[c] \in Kprocs \cup {t}
  BY Names DEF ScInv, StackInv, CurInv
<1>2. CASE cur[c] = t
  <2>1. Len(frames[t]) = 2
    BY <1>1, <1>2 DEF StackOK, Top, Own
  <2> QED
    BY <1>1, <2>1 DEF StackOK, Own, Open, SchedPcs, Owes, LooksAt
<1>3. CASE cur[c] \in Kprocs
  <2>1. Top(t).pc = "back"
    BY <1>3 DEF ScInv, RestInv
  <2>2. "back" \notin Trapped(t)
    BY <1>1 DEF Trapped, IntrPcs
  <2>3. Len(frames[t]) = 1
    BY <1>1, <2>1, <2>2 DEF StackOK, Top
  <2> QED
    BY <2>1, <2>3 DEF Owes, LooksAt, Top
<1> QED
  BY <1>1, <1>2, <1>3

\* CPU c replaces the top frame of its thread by f, of the same kind; a scheduler
\* does not skip a RUNNABLE process.
Goes(c, f) ==
  /\ f \in FrameType /\ f.pc \notin {"back", "yielded"}
  /\ Become(c, f)
  /\ \/ Top(cur[c]).pc \in Own(cur[c]) /\ f.pc \in Own(cur[c])
     \/ Top(cur[c]).pc \in Trapped(cur[c]) /\ f.pc \in Trapped(cur[c])
  /\ Top(cur[c]).pc \in SchedPcs =>
       \A p \in Kprocs : pstate[p] = "RUNNABLE" /\ LooksAt(Top(cur[c]), p) => LooksAt(f, p)

\* Processes stay as they are, or a trap handler wakes some.
MayWake(c) ==
  /\ pstate' \in [Kprocs -> {"RUNNABLE", "RUNNING", "SLEEPING"}]
  /\ \A p \in Kprocs : pstate[p] = "RUNNING" => pstate'[p] = "RUNNING"
  /\ \A p \in Kprocs : pstate'[p] = pstate[p] \/ Top(cur[c]).pc \notin SchedPcs

\* The step of a CPU that replaces the top frame.
LEMMA TopStep ==
  ASSUME ScInv, NEW c \in CPUs, NEW f, NEW k \in CpuType, Goes(c, f),
         cur' = cur, saved' = saved, cpu' = [cpu EXCEPT ![c] = k],
         CpuOK(cur[c], f, k), LocksOK(c, cur[c], f, holder', spin'[c]),
         spin' \in [CPUs -> Locks \cup {NoLock}],
         holder' \in [Locks -> CPUs \cup {NoCpu}], OthersKeep(c),
         MayWake(c), ClockType'
  PROVE  ScInv'
<1> DEFINE t == cur[c]
           s == WithTop(frames[t], f)
           u == Scheduler(c)
<1>1. t \in Threads /\ StackOK(t, frames[t])
  BY DEF ScInv, ScTypeOK, StackInv
<1>2. /\ StackOK(t, s) /\ Len(s) = Len(frames[t]) /\ s[Len(s)] = f
      /\ Len(frames[t]) = 2 => s[1] = frames[t][1]
  <2> DEFINE o == frames[t]
  <2>1. /\ f \in FrameType /\ f.pc # "back" /\ StackOK(t, o) /\ t \in Threads
        /\ \/ o[Len(o)].pc \in Own(t) /\ f.pc \in Own(t)
           \/ o[Len(o)].pc \in Trapped(t) /\ f.pc \in Trapped(t)
    BY <1>1 DEF Goes, Top
  <2> HIDE DEF t, o
  <2> QED
    BY <2>1, ReplaceTop DEF o
<1>3. frames' = [frames EXCEPT ![t] = s]
  BY DEF Goes, Become, WithTop
<1> HIDE DEF s
<1>4. Local(c, s, k)
  BY <1>3 DEF Local
<1>5. frames \in [Threads -> Seq(FrameType)] /\ u \in Threads /\ u \notin Kprocs
      /\ t \in Kprocs \cup {u}
  BY Names DEF ScInv, ScTypeOK, CurInv
<1>6. OwedInv'
  <2> SUFFICES ASSUME NEW p \in Kprocs, pstate'[p] = "RUNNABLE"
               PROVE  \E d \in CPUs : Owes(d, p)'
    BY DEF OwedInv
  <2>1. PICK d \in CPUs : /\ Owes(d, p)
                          /\ pstate[p] = "RUNNABLE" \/ (d = c /\ Top(t).pc \notin SchedPcs)
    BY ScanToCome DEF MayWake, ScInv, OwedInv
  <2>2. CASE Scheduler(d) # t
    <3>1. frames'[Scheduler(d)] = frames[Scheduler(d)]
      BY <1>3, <1>5, <2>2, Names
    <3> QED
      BY <2>1, <3>1 DEF Owes
  <2>3. CASE Scheduler(d) = t
    <3>1. d = c /\ frames'[u] = s /\ t = u
      BY <1>3, <1>5, <2>3, Names
    <3>2. CASE Len(s) = 2
      BY <1>2, <2>1, <3>1, <3>2 DEF Owes
    <3>3. CASE Len(s) = 1
      <4>1. Top(t) = frames[t][1] /\ s[1] = f
        BY <1>2, <3>3 DEF Top
      <4>2. Top(t).pc \in SchedPcs
        BY <1>1, <1>2, <1>5, <3>1, <3>3, <4>1 DEF StackOK, Own
      <4>3. pstate[p] = "RUNNABLE" /\ LooksAt(Top(t), p)
        BY <2>1, <3>1, <4>1, <4>2 DEF Owes
      <4> QED
        BY <3>1, <4>1, <4>2, <4>3 DEF Goes, Owes
    <3> QED
      BY <1>1, <1>2, <3>2, <3>3 DEF StackOK
  <2> QED
    BY <2>2, <2>3
<1>7. s[Len(s)].pc # "yielded"
  BY <1>2 DEF Goes
<1> HIDE DEF t, u
<1> QED
  BY <1>2, <1>4, <1>6, <1>7, LocalStep DEF MayWake, t

\* push_off() and pop_off(), field by field.
LEMMA PushOff ==
  ASSUME NEW k \in CpuType, k.noff \in 0..1
  PROVE  /\ push_off(k) \in CpuType
         /\ push_off(k).intr = FALSE /\ push_off(k).noff = k.noff + 1
         /\ push_off(k).intena = (IF k.noff = 0 THEN k.intr ELSE k.intena)
         /\ push_off(k).proc = k.proc
<1>1. \A b, e \in BOOLEAN, n \in 0..2 :
        [k EXCEPT !.intr = b, !.noff = n, !.intena = e] \in CpuType
  BY DEF CpuType
<1>2. k.noff + 1 \in 0..2 /\ (IF k.noff = 0 THEN k.intr ELSE k.intena) \in BOOLEAN
  BY DEF CpuType
<1>3. push_off(k) = [k EXCEPT !.intr = FALSE, !.noff = k.noff + 1,
                              !.intena = IF k.noff = 0 THEN k.intr ELSE k.intena]
  BY Zenon DEF push_off
<1>4. push_off(k) \in CpuType
  BY <1>1, <1>2, <1>3, ZenonT(40)
<1> QED
  BY <1>4 DEF push_off, CpuType

\* pop_off() undoes a push_off() and restores interrupts at the outermost one.
LEMMA PopOff ==
  ASSUME NEW k \in CpuType, k.noff \in 1..2
  PROVE  /\ pop_off(k) \in CpuType
         /\ pop_off(k).intr = (k.noff = 1 /\ k.intena) /\ pop_off(k).noff = k.noff - 1
         /\ pop_off(k).intena = k.intena /\ pop_off(k).proc = k.proc
<1>1. \A b \in BOOLEAN, n \in 0..2 : [k EXCEPT !.noff = n, !.intr = b] \in CpuType
  BY DEF CpuType
<1>2. k.noff - 1 \in 0..2 /\ (k.noff = 1 /\ k.intena) \in BOOLEAN
  BY DEF CpuType
<1>3. pop_off(k) = [k EXCEPT !.noff = k.noff - 1, !.intr = k.noff = 1 /\ k.intena]
  BY Zenon DEF pop_off
<1>4. pop_off(k) \in CpuType
  BY <1>1, <1>2, <1>3, Zenon
<1> QED
  BY <1>4 DEF pop_off, CpuType

\* What the thread of a CPU and the CPU look like before a step.
LEMMA Running ==
  ASSUME ScInv, NEW c \in CPUs
  PROVE  /\ cur[c] \in Threads /\ Top(cur[c]) \in FrameType /\ cpu[c] \in CpuType
         /\ StackOK(cur[c], frames[cur[c]])
         /\ CpuOK(cur[c], Top(cur[c]), cpu[c])
         /\ LocksOK(c, cur[c], Top(cur[c]), holder, spin[c])
         /\ Top(cur[c]).pc \in Own(cur[c]) \/ Top(cur[c]).pc \in Trapped(cur[c])
         /\ kpanic = ""
<1>1. /\ cur[c] \in Threads /\ cpu[c] \in CpuType /\ StackOK(cur[c], frames[cur[c]])
      /\ CpuOK(cur[c], Top(cur[c]), cpu[c])
      /\ LocksOK(c, cur[c], Top(cur[c]), holder, spin[c])
      /\ kpanic = ""
  BY DEF ScInv, ScTypeOK, ClockType, StackInv, CpuInv
<1>2. /\ Top(cur[c]) \in FrameType
      /\ Top(cur[c]).pc \in Own(cur[c]) \/ Top(cur[c]).pc \in Trapped(cur[c])
  <2> DEFINE o == frames[cur[c]]
  <2>1. o \in Seq(FrameType) /\ (Len(o) = 1 \/ Len(o) = 2)
    BY <1>1 DEF StackOK
  <2>2. o[Len(o)] \in FrameType
    BY <2>1, SMTT(30)
  <2>3. o[Len(o)].pc \in Own(cur[c]) \/ o[Len(o)].pc \in Trapped(cur[c])
    BY <1>1, <2>1 DEF StackOK
  <2> QED
    BY <2>2, <2>3 DEF Top
<1> QED
  BY <1>1, <1>2

\* The CPU after push_off() and pop_off(), at a pc that fits.
LEMMA PushOK ==
  ASSUME ScInv, NEW c \in CPUs, NEW f, Depth(Top(cur[c]).pc) \in 0..1,
         Depth(f.pc) = Depth(Top(cur[c]).pc) + 1, Top(cur[c]).pc # "back",
         f.pc \in Shut => \/ Top(cur[c]).pc \in Shut /\ Depth(Top(cur[c]).pc) = 1
                          \/ Top(cur[c]).pc \notin Open /\ Depth(Top(cur[c]).pc) = 0
  PROVE  push_off(cpu[c]) \in CpuType /\ CpuOK(cur[c], f, push_off(cpu[c]))
<1> DEFINE k == cpu[c]
           n == push_off(k)
<1>1. /\ k \in CpuType /\ k.noff = Depth(Top(cur[c]).pc) /\ k.noff \in 0..1
      /\ k.intr => Top(cur[c]).pc \in Open
      /\ Top(cur[c]).pc \in Shut => ~k.intena
      /\ cur[c] \in Kprocs => k.proc = cur[c]
      /\ cur[c] \notin Kprocs => k.proc = 0
  BY Running DEF CpuOK
<1>2. /\ n \in CpuType /\ n.intr = FALSE /\ n.noff = k.noff + 1 /\ n.proc = k.proc
      /\ n.intena = (IF k.noff = 0 THEN k.intr ELSE k.intena)
  BY <1>1, PushOff
<1> HIDE DEF k, n
<1>3. f.pc \in Shut => ~n.intena
  BY <1>1, <1>2
<1> QED
  BY <1>1, <1>2, <1>3 DEF CpuOK, n, k

\* A CPU state that fits a frame one push_off() deeper fits it after pop_off().
LEMMA PopOK ==
  ASSUME NEW t, NEW f, NEW k \in CpuType, k.noff \in 1..2, k.noff = Depth(f.pc) + 1,
         Depth(f.pc) \in 0..1, k.noff = 1 /\ k.intena => f.pc \in Open,
         f.pc \in Shut => ~k.intena, t \in Kprocs => k.proc = t,
         t \notin Kprocs => k.proc = 0
  PROVE  pop_off(k) \in CpuType /\ CpuOK(t, f, pop_off(k))
<1> DEFINE n == pop_off(k)
<1>1. /\ n \in CpuType /\ n.intr = (k.noff = 1 /\ k.intena) /\ n.noff = k.noff - 1
      /\ n.intena = k.intena /\ n.proc = k.proc
  BY PopOff
<1> HIDE DEF n
<1>2. n.noff = Depth(f.pc)
  BY <1>1
<1> QED
  BY <1>1, <1>2 DEF CpuOK, n

\* A step that leaves the locks alone.
LEMMA KeepStep ==
  ASSUME ScInv, NEW c \in CPUs, NEW f, NEW k \in CpuType, Goes(c, f),
         cur' = cur, saved' = saved, cpu' = [cpu EXCEPT ![c] = k], pstate' = pstate,
         UNCHANGED <<spin, holder>>, ClockType',
         CpuOK(cur[c], f, k), Wants(cur[c], f) = Wants(cur[c], Top(cur[c]))
  PROVE  ScInv'
<1>1. LocksOK(c, cur[c], f, holder', spin'[c])
  BY Running DEF LocksOK
<1>2. OthersKeep(c) /\ MayWake(c)
  BY DEF OthersKeep, MayWake, ScInv, ScTypeOK
<1>3. /\ spin' \in [CPUs -> Locks \cup {NoLock}]
      /\ holder' \in [Locks -> CPUs \cup {NoCpu}]
  BY DEF ScInv, ScTypeOK
<1> QED
  BY <1>1, <1>2, <1>3, TopStep

\* acquire() of a lock the CPU does not have begins: no panic.
LEMMA AcquireStep ==
  ASSUME ScInv, NEW c \in CPUs, NEW l \in Locks, NEW f, Goes(c, f), spin[c] = NoLock,
         acquire(c, l), l \notin Wants(cur[c], Top(cur[c])),
         cur' = cur, saved' = saved, pstate' = pstate, holder' = holder,
         UNCHANGED <<onticks, ticks, until, timer>>,
         CpuOK(cur[c], f, push_off(cpu[c])), Depth(Top(cur[c]).pc) \in 0..1,
         Wants(cur[c], f) = Wants(cur[c], Top(cur[c])) \cup {l}
  PROVE  ScInv'
<1>1. holder[l] # c
  BY Running DEF LocksOK
<1>2. /\ cpu' = [cpu EXCEPT ![c] = push_off(cpu[c])] /\ spin' = [spin EXCEPT ![c] = l]
      /\ kpanic' = ""
  BY <1>1 DEF acquire
<1>3. spin \in [CPUs -> Locks \cup {NoLock}] /\ holder \in [Locks -> CPUs \cup {NoCpu}]
  BY DEF ScInv, ScTypeOK
<1>4. LocksOK(c, cur[c], f, holder', spin'[c])
  <2>1. spin'[c] = l
    BY <1>2, <1>3
  <2>2. \A m \in Locks : holder[m] = c <=> m \in Wants(cur[c], Top(cur[c]))
    BY Running, Names DEF LocksOK
  <2> QED
    BY <1>1, <2>1, <2>2 DEF LocksOK
<1>5. OthersKeep(c) /\ MayWake(c) /\ ClockType'
  BY <1>2, <1>3 DEF OthersKeep, MayWake, ScInv, ScTypeOK, ClockType
<1>6. push_off(cpu[c]) \in CpuType
  BY PushOff, Running DEF CpuOK
<1>7. spin' \in [CPUs -> Locks \cup {NoLock}]
  BY <1>2, <1>3
<1> QED
  BY <1>2, <1>3, <1>4, <1>5, <1>6, <1>7, TopStep

\* A step that gives lock l back; k is the state of the CPU afterwards.
LEMMA ReleaseStep ==
  ASSUME ScInv, NEW c \in CPUs, NEW l \in Locks, NEW f, NEW k \in CpuType, Goes(c, f),
         spin[c] = NoLock, holder' = [holder EXCEPT ![l] = NoCpu], spin' = spin,
         cpu' = [cpu EXCEPT ![c] = k], l \in Wants(cur[c], Top(cur[c])),
         cur' = cur, saved' = saved, MayWake(c), ClockType', CpuOK(cur[c], f, k),
         Wants(cur[c], f) = Wants(cur[c], Top(cur[c])) \ {l}
  PROVE  ScInv'
<1>1. spin \in [CPUs -> Locks \cup {NoLock}] /\ holder \in [Locks -> CPUs \cup {NoCpu}]
  BY DEF ScInv, ScTypeOK
<1>2. \A m \in Locks : holder[m] = c <=> m \in Wants(cur[c], Top(cur[c]))
  BY Running, Names DEF LocksOK
<1>3. \A m \in Locks : holder'[m] = IF m = l THEN NoCpu ELSE holder[m]
  BY <1>1
<1>4. LocksOK(c, cur[c], f, holder', spin'[c])
  BY <1>2, <1>3, Names DEF LocksOK
<1>5. OthersKeep(c)
  BY <1>2, <1>3, Names DEF OthersKeep
<1>6. holder' \in [Locks -> CPUs \cup {NoCpu}]
  BY <1>1
<1> QED
  BY <1>1, <1>4, <1>5, <1>6, TopStep

\* The top frame at another pc.
At(c, pc) == [Top(cur[c]) EXCEPT !.pc = pc]

\* Jump() replaces the top frame by the same frame at another pc.
LEMMA JumpTop ==
  ASSUME ScInv, NEW c \in CPUs, NEW pc \in Pcs, Jump(c, pc)
  PROVE  /\ Become(c, At(c, pc)) /\ At(c, pc) \in FrameType
         /\ At(c, pc).pc = pc /\ At(c, pc).i = Index(c)
         /\ At(c, pc).found = Top(cur[c]).found
<1>1. Top(cur[c]) \in FrameType
  BY Running
<1>2. At(c, pc) \in FrameType /\ At(c, pc).pc = pc /\ At(c, pc).i = Index(c)
      /\ At(c, pc).found = Top(cur[c]).found
  BY <1>1 DEF At, FrameType, Index
<1>3. Become(c, At(c, pc))
  BY DEF Jump, Become, At, Top
<1> QED
  BY <1>2, <1>3

\* The pc tells what kind of thread a CPU runs.
LEMMA Kinds ==
  ASSUME ScInv, NEW c \in CPUs
  PROVE  /\ Top(cur[c]).pc \in SchedPcs =>
              cur[c] \notin Kprocs /\ cur[c] = Scheduler(c) /\ Own(cur[c]) = SchedPcs
         /\ Top(cur[c]).pc \in ProcPcs => cur[c] \in Kprocs /\ Own(cur[c]) = ProcPcs
         /\ Top(cur[c]).pc \in YieldPcs => cur[c] \in Kprocs
         /\ IntrPcs \subseteq Trapped(cur[c])
         /\ cur[c] \in Kprocs => YieldPcs \subseteq Trapped(cur[c])
<1>1. Top(cur[c]).pc \in Own(cur[c]) \/ Top(cur[c]).pc \in Trapped(cur[c])
  BY Running
<1>2. cur[c] \in Kprocs \cup {Scheduler(c)} /\ Scheduler(c) \notin Kprocs
  BY Names DEF ScInv, CurInv
<1> QED
  BY <1>1, <1>2 DEF Own, Trapped, SchedPcs, ProcPcs, IntrPcs, YieldPcs

-----------------------------------------------------------------------------
(* Steps that leave the locks alone                                        *)

\* intr_on() at the head of the scheduler loop.
LEMMA SchedOnInv ==
  ASSUME ScInv, NEW c \in CPUs, SchedOn(c) PROVE ScInv'
<1> DEFINE f == At(c, "off")
           k == [cpu[c] EXCEPT !.intr = TRUE]
<1>1. Top(cur[c]).pc = "on" /\ Jump(c, "off")
  BY DEF SchedOn, Here
<1>2. f \in FrameType /\ f.pc = "off" /\ Become(c, f)
  BY <1>1, JumpTop DEF Pcs, SchedPcs
<1>3. Goes(c, f)
  BY <1>1, <1>2, Kinds DEF Goes, SchedPcs, LooksAt
<1>4. k \in CpuType /\ CpuOK(cur[c], f, k)
  BY <1>1, <1>2, Running DEF CpuType, CpuOK, Depth, Open, Shut, Away
<1>5. Wants(cur[c], f) = Wants(cur[c], Top(cur[c]))
  BY <1>1, <1>2 DEF Wants, Away
<1>6. /\ cpu' = [cpu EXCEPT ![c] = k] /\ ClockType'
      /\ UNCHANGED <<cur, saved, pstate, spin, holder>>
  BY DEF SchedOn, ScInv, ScTypeOK, ClockType
<1> HIDE DEF f, k
<1> QED
  BY <1>3, <1>4, <1>5, <1>6, KeepStep

\* intr_off() of the scheduler, before it starts its scan.
LEMMA SchedOffInv ==
  ASSUME ScInv, NEW c \in CPUs, SchedOff(c) PROVE ScInv'
<1> DEFINE f == Frame("lock")
           k == [cpu[c] EXCEPT !.intr = FALSE]
<1>1. Top(cur[c]).pc = "off" /\ Become(c, f)
  BY DEF SchedOff, Here
<1>2. f \in FrameType /\ f.pc = "lock" /\ f.i = 1
  BY FrameStarts DEF Pcs, SchedPcs
<1>3. Goes(c, f)
  BY <1>1, <1>2, Kinds DEF Goes, SchedPcs, LooksAt, Kprocs
<1>4. k \in CpuType /\ CpuOK(cur[c], f, k)
  BY <1>1, <1>2, Running DEF CpuType, CpuOK, Depth, Open, Shut, Away
<1>5. Wants(cur[c], f) = Wants(cur[c], Top(cur[c]))
  BY <1>1, <1>2 DEF Wants, Away
<1>6. /\ cpu' = [cpu EXCEPT ![c] = k] /\ ClockType'
      /\ UNCHANGED <<cur, saved, pstate, spin, holder>>
  BY DEF SchedOff, ScInv, ScTypeOK, ClockType
<1> HIDE DEF f, k
<1> QED
  BY <1>3, <1>4, <1>5, <1>6, KeepStep

\* An interrupt ends wfi.
LEMMA WfiInv ==
  ASSUME ScInv, NEW c \in CPUs, Wfi(c) PROVE ScInv'
<1> DEFINE f == At(c, "on")
           k == cpu[c]
<1>1. Top(cur[c]).pc = "wfi" /\ Jump(c, "on")
  BY DEF Wfi, Here
<1>2. f \in FrameType /\ f.pc = "on" /\ Become(c, f)
  BY <1>1, JumpTop DEF Pcs, SchedPcs
<1>3. Goes(c, f)
  BY <1>1, <1>2, Kinds DEF Goes, SchedPcs, LooksAt
<1>4. k \in CpuType /\ CpuOK(cur[c], f, k)
  BY <1>1, <1>2, Running DEF CpuOK, Depth, Open, Shut, Away
<1>5. Wants(cur[c], f) = Wants(cur[c], Top(cur[c]))
  BY <1>1, <1>2 DEF Wants, Away
<1>6. /\ cpu' = [cpu EXCEPT ![c] = k] /\ ClockType'
      /\ UNCHANGED <<cur, saved, pstate, spin, holder>>
  BY DEF Wfi, ScInv, ScTypeOK, ClockType
<1> HIDE DEF f, k
<1> QED
  BY <1>3, <1>4, <1>5, <1>6, KeepStep

\* A process enters sys_sleep().
LEMMA SysSleepInv ==
  ASSUME ScInv, NEW c \in CPUs, NEW n \in SleepFor, SysSleep(c, n) PROVE ScInv'
<1> DEFINE f == At(c, "enter")
           k == cpu[c]
<1>1. Top(cur[c]).pc = "user" /\ Jump(c, "enter")
  BY DEF SysSleep, Here
<1>2. f \in FrameType /\ f.pc = "enter" /\ Become(c, f)
  BY <1>1, JumpTop DEF Pcs, ProcPcs
<1>3. Goes(c, f)
  BY <1>1, <1>2, Kinds DEF Goes, SchedPcs, ProcPcs
<1>4. k \in CpuType /\ CpuOK(cur[c], f, k)
  BY <1>1, <1>2, Running DEF CpuOK, Depth, Open, Shut, Away
<1>5. Wants(cur[c], f) = Wants(cur[c], Top(cur[c]))
  BY <1>1, <1>2 DEF Wants, Away
<1>6. cpu' = [cpu EXCEPT ![c] = k] /\ UNCHANGED <<cur, saved, pstate, spin, holder>>
  BY DEF SysSleep, ScInv, ScTypeOK
<1>7. ClockType'
  <2>1. cur[c] \in Kprocs
    BY <1>1, Kinds DEF ProcPcs
  <2>2. [from |-> 0, n |-> n] \in [from : 0..TWRAP - 1, n : SleepFor \cup {0}]
    BY SchedAssumption
  <2> QED
    BY <2>1, <2>2 DEF SysSleep, ScInv, ScTypeOK, ClockType
<1> HIDE DEF f, k
<1> QED
  BY <1>3, <1>4, <1>5, <1>6, <1>7, KeepStep

\* sys_sleep() reads ticks under tickslock.
LEMMA SinceInv ==
  ASSUME ScInv, NEW c \in CPUs, Since(c) PROVE ScInv'
<1> DEFINE f == At(c, "test")
           k == cpu[c]
<1>1. Top(cur[c]).pc = "since" /\ Jump(c, "test")
  BY DEF Since, Here
<1>2. f \in FrameType /\ f.pc = "test" /\ Become(c, f)
  BY <1>1, JumpTop DEF Pcs, ProcPcs
<1>3. Goes(c, f)
  BY <1>1, <1>2, Kinds DEF Goes, SchedPcs, ProcPcs
<1>4. k \in CpuType /\ CpuOK(cur[c], f, k)
  BY <1>1, <1>2, Running DEF CpuOK, Depth, Open, Shut, Away
<1>5. Wants(cur[c], f) = Wants(cur[c], Top(cur[c]))
  BY <1>1, <1>2 DEF Wants, Away
<1>6. cpu' = [cpu EXCEPT ![c] = k] /\ UNCHANGED <<cur, saved, pstate, spin, holder>>
  BY DEF Since, ScInv, ScTypeOK
<1>7. ClockType'
  <2>1. cur[c] \in Kprocs
    BY <1>1, Kinds DEF ProcPcs
  <2>2. until' \in [Kprocs -> [from : 0..TWRAP - 1, n : SleepFor \cup {0}]]
    BY <2>1 DEF Since, ScInv, ScTypeOK, ClockType
  <2> QED
    BY <2>2 DEF Since, ScInv, ScTypeOK, ClockType
<1> HIDE DEF f, k
<1> QED
  BY <1>3, <1>4, <1>5, <1>6, <1>7, KeepStep

\* clockintr() advances ticks.
LEMMA TickInv ==
  ASSUME ScInv, NEW c \in CPUs, Tick(c) PROVE ScInv'
<1> DEFINE f == Frame("wlock")
           k == cpu[c]
<1>1. Top(cur[c]).pc = "tick" /\ Become(c, f)
  BY DEF Tick, Here
<1>2. f \in FrameType /\ f.pc = "wlock"
  BY FrameStarts DEF Pcs, IntrPcs
<1>3. Goes(c, f)
  BY <1>1, <1>2, Kinds DEF Goes, SchedPcs, IntrPcs
<1>4. k \in CpuType /\ CpuOK(cur[c], f, k)
  BY <1>1, <1>2, Running DEF CpuOK, Depth, Open, Shut, Away
<1>5. Wants(cur[c], f) = Wants(cur[c], Top(cur[c]))
  BY <1>1, <1>2 DEF Wants, Away
<1>6. cpu' = [cpu EXCEPT ![c] = k] /\ UNCHANGED <<cur, saved, pstate, spin, holder>>
  BY DEF Tick, ScInv, ScTypeOK
<1>7. ClockType'
  <2>1. (ticks + 1) % TWRAP \in 0..TWRAP - 1
    <3>1. ticks \in 0..TWRAP - 1
      BY DEF ScInv, ScTypeOK, ClockType
    <3>2. ticks + 1 \in Int
      BY <3>1
    <3> QED
      BY <3>2, SchedAssumption, ModDef
  <2> QED
    BY <2>1 DEF Tick, ScInv, ScTypeOK, ClockType
<1> HIDE DEF f, k
<1> QED
  BY <1>3, <1>4, <1>5, <1>6, <1>7, KeepStep

\* devintr() acknowledges the interrupt.
LEMMA AckInv ==
  ASSUME ScInv, NEW c \in CPUs, Ack(c) PROVE ScInv'
<1> DEFINE to == IF Yields(c) THEN "yield" ELSE "iret"
           f == At(c, to)
           k == cpu[c]
<1>1. Top(cur[c]).pc = "ack" /\ Jump(c, to)
  BY DEF Ack, Here
<1>2. f \in FrameType /\ f.pc = to /\ Become(c, f)
  BY <1>1, JumpTop DEF Pcs, IntrPcs, YieldPcs
<1>3. Yields(c) => cur[c] \in Kprocs
  BY <1>1, Running DEF Yields, CpuOK
<1>4. Goes(c, f)
  BY <1>1, <1>2, <1>3, Kinds DEF Goes, SchedPcs, IntrPcs, YieldPcs
<1>5. k \in CpuType /\ CpuOK(cur[c], f, k)
  BY <1>1, <1>2, Running DEF CpuOK, Depth, Open, Shut, Away
<1>6. Wants(cur[c], f) = Wants(cur[c], Top(cur[c]))
  BY <1>1, <1>2 DEF Wants, Away
<1>7. /\ cpu' = [cpu EXCEPT ![c] = k] /\ ClockType'
      /\ UNCHANGED <<cur, saved, pstate, spin, holder>>
  BY DEF Ack, ScInv, ScTypeOK, ClockType
<1> HIDE DEF f, k
<1> QED
  BY <1>4, <1>5, <1>6, <1>7, KeepStep

-----------------------------------------------------------------------------
(* Steps that call acquire()                                               *)

\* The scheduler calls acquire() for the next process of its scan.
LEMMA SchedLockInv ==
  ASSUME ScInv, NEW c \in CPUs, SchedLock(c) PROVE ScInv'
<1> DEFINE f == At(c, "look")
           l == Index(c)
<1>1. Top(cur[c]).pc = "lock" /\ spin[c] = NoLock /\ Jump(c, "look")
  BY DEF SchedLock, Here
<1>2. f \in FrameType /\ f.pc = "look" /\ f.i = Index(c) /\ Become(c, f)
      /\ f.found = Top(cur[c]).found
  BY <1>1, JumpTop DEF Pcs, SchedPcs
<1>3. Goes(c, f)
  BY <1>1, <1>2, Kinds DEF Goes, SchedPcs, SchedPcs, LooksAt, Index
<1>4. l \in Locks /\ l # tickslock
  BY Running, Names DEF Index, FrameType
<1>5. CpuOK(cur[c], f, push_off(cpu[c])) /\ Depth(Top(cur[c]).pc) \in 0..1
  BY <1>1, <1>2, PushOK DEF Depth, Open, Away, Shut
<1>6. /\ l \notin Wants(cur[c], Top(cur[c]))
      /\ Wants(cur[c], f) = Wants(cur[c], Top(cur[c])) \cup {l}
  BY <1>1, <1>2, <1>4 DEF Wants, Away
<1>7. acquire(c, l) /\ UNCHANGED <<cur, holder, saved, pstate, onticks, ticks, until, timer>>
  BY DEF SchedLock
<1> HIDE DEF f, l
<1> QED
  BY <1>1, <1>3, <1>4, <1>5, <1>6, <1>7, AcquireStep

\* sleep() calls acquire() for p->lock with tickslock held.
LEMMA SleepLockInv ==
  ASSUME ScInv, NEW c \in CPUs, SleepLock(c) PROVE ScInv'
<1> DEFINE f == At(c, "sleep")
           l == cur[c]
<1>1. Top(cur[c]).pc = "test" /\ spin[c] = NoLock /\ Jump(c, "sleep")
  BY DEF SleepLock, Here
<1>2. f \in FrameType /\ f.pc = "sleep" /\ f.i = Index(c) /\ Become(c, f)
      /\ f.found = Top(cur[c]).found
  BY <1>1, JumpTop DEF Pcs, ProcPcs
<1>3. Goes(c, f)
  BY <1>1, <1>2, Kinds DEF Goes, SchedPcs, ProcPcs
<1>4. l \in Locks /\ l # tickslock
  BY <1>1, Kinds, Names DEF ProcPcs, YieldPcs
<1>5. CpuOK(cur[c], f, push_off(cpu[c])) /\ Depth(Top(cur[c]).pc) \in 0..1
  BY <1>1, <1>2, PushOK DEF Depth, Open, Away, Shut
<1>6. /\ l \notin Wants(cur[c], Top(cur[c]))
      /\ Wants(cur[c], f) = Wants(cur[c], Top(cur[c])) \cup {l}
  BY <1>1, <1>2, <1>4 DEF Wants, Away
<1>7. acquire(c, l) /\ UNCHANGED <<cur, holder, saved, pstate, onticks, ticks, until, timer>>
  BY DEF SleepLock
<1> HIDE DEF f, l
<1> QED
  BY <1>1, <1>3, <1>4, <1>5, <1>6, <1>7, AcquireStep

\* wakeup() calls acquire() for the next process of its scan.
LEMMA WakeLockInv ==
  ASSUME ScInv, NEW c \in CPUs, WakeLock(c) PROVE ScInv'
<1> DEFINE f == At(c, "wake")
           l == Index(c)
<1>1. Top(cur[c]).pc = "wlock" /\ spin[c] = NoLock /\ Jump(c, "wake")
  BY DEF WakeLock, Here
<1>2. f \in FrameType /\ f.pc = "wake" /\ f.i = Index(c) /\ Become(c, f)
      /\ f.found = Top(cur[c]).found
  BY <1>1, JumpTop DEF Pcs, IntrPcs
<1>3. Goes(c, f)
  BY <1>1, <1>2, Kinds DEF Goes, SchedPcs, IntrPcs
<1>4. l \in Locks /\ l # tickslock
  BY Running, Names DEF Index, FrameType
<1>5. CpuOK(cur[c], f, push_off(cpu[c])) /\ Depth(Top(cur[c]).pc) \in 0..1
  BY <1>1, <1>2, PushOK DEF Depth, Open, Away, Shut
<1>6. /\ l \notin Wants(cur[c], Top(cur[c]))
      /\ Wants(cur[c], f) = Wants(cur[c], Top(cur[c])) \cup {l}
  BY <1>1, <1>2, <1>4 DEF Wants, Away
<1>7. acquire(c, l) /\ UNCHANGED <<cur, holder, saved, pstate, onticks, ticks, until, timer>>
  BY DEF WakeLock
<1> HIDE DEF f, l
<1> QED
  BY <1>1, <1>3, <1>4, <1>5, <1>6, <1>7, AcquireStep

\* yield() calls acquire() for p->lock.
LEMMA YieldInv ==
  ASSUME ScInv, NEW c \in CPUs, Yield(c) PROVE ScInv'
<1> DEFINE f == At(c, "yielding")
           l == cur[c]
<1>1. Top(cur[c]).pc = "yield" /\ spin[c] = NoLock /\ Jump(c, "yielding")
  BY DEF Yield, Here
<1>2. f \in FrameType /\ f.pc = "yielding" /\ f.i = Index(c) /\ Become(c, f)
      /\ f.found = Top(cur[c]).found
  BY <1>1, JumpTop DEF Pcs, YieldPcs
<1>3. Goes(c, f)
  BY <1>1, <1>2, Kinds DEF Goes, SchedPcs, YieldPcs
<1>4. l \in Locks /\ l # tickslock
  BY <1>1, Kinds, Names DEF ProcPcs, YieldPcs
<1>5. CpuOK(cur[c], f, push_off(cpu[c])) /\ Depth(Top(cur[c]).pc) \in 0..1
  BY <1>1, <1>2, PushOK DEF Depth, Open, Away, Shut
<1>6. /\ l \notin Wants(cur[c], Top(cur[c]))
      /\ Wants(cur[c], f) = Wants(cur[c], Top(cur[c])) \cup {l}
  BY <1>1, <1>2, <1>4 DEF Wants, Away
<1>7. acquire(c, l) /\ UNCHANGED <<cur, holder, saved, pstate, onticks, ticks, until, timer>>
  BY DEF Yield
<1> HIDE DEF f, l
<1> QED
  BY <1>1, <1>3, <1>4, <1>5, <1>6, <1>7, AcquireStep

\* clockintr() calls acquire() for tickslock.
LEMMA ClockintrInv ==
  ASSUME ScInv, NEW c \in CPUs, Clockintr(c) PROVE ScInv'
<1> DEFINE f == At(c, "tick")
           l == tickslock
<1>1. Top(cur[c]).pc = "clock" /\ spin[c] = NoLock /\ Jump(c, "tick")
  BY DEF Clockintr, Here
<1>2. f \in FrameType /\ f.pc = "tick" /\ f.i = Index(c) /\ Become(c, f)
      /\ f.found = Top(cur[c]).found
  BY <1>1, JumpTop DEF Pcs, IntrPcs
<1>3. Goes(c, f)
  BY <1>1, <1>2, Kinds DEF Goes, SchedPcs, IntrPcs
<1>4. l \in Locks
  BY Names
<1>5. CpuOK(cur[c], f, push_off(cpu[c])) /\ Depth(Top(cur[c]).pc) \in 0..1
  BY <1>1, <1>2, PushOK DEF Depth, Open, Away, Shut
<1>6. /\ l \notin Wants(cur[c], Top(cur[c]))
      /\ Wants(cur[c], f) = Wants(cur[c], Top(cur[c])) \cup {l}
  BY <1>1, <1>2, <1>4 DEF Wants, Away
<1>7. acquire(c, l) /\ UNCHANGED <<cur, holder, saved, pstate, onticks, ticks, until, timer>>
  BY DEF Clockintr
<1> HIDE DEF f, l
<1> QED
  BY <1>1, <1>3, <1>4, <1>5, <1>6, <1>7, AcquireStep

\* sys_sleep() calls acquire() for tickslock.
LEMMA LockTicksInv ==
  ASSUME ScInv, NEW c \in CPUs, LockTicks(c) PROVE ScInv'
<1> DEFINE to == IF Here(c, "enter") THEN "since" ELSE "test"
           f == At(c, to)
           l == tickslock
<1>1. Top(cur[c]).pc \in {"enter", "again"} /\ spin[c] = NoLock /\ Jump(c, to)
  BY DEF LockTicks, Here
<1>2. f \in FrameType /\ f.pc = to /\ f.i = Index(c) /\ Become(c, f)
      /\ f.found = Top(cur[c]).found
  BY <1>1, JumpTop DEF Pcs, ProcPcs
<1>3. Goes(c, f)
  BY <1>1, <1>2, Kinds DEF Goes, SchedPcs, ProcPcs
<1>4. l \in Locks
  BY Names
<1>5. CpuOK(cur[c], f, push_off(cpu[c])) /\ Depth(Top(cur[c]).pc) \in 0..1
  BY <1>1, <1>2, PushOK DEF Depth, Open, Away, Shut
<1>6. /\ l \notin Wants(cur[c], Top(cur[c]))
      /\ Wants(cur[c], f) = Wants(cur[c], Top(cur[c])) \cup {l}
  BY <1>1, <1>2, <1>4 DEF Wants, Away
<1>7. acquire(c, l) /\ UNCHANGED <<cur, holder, saved, pstate, onticks, ticks, until, timer>>
  BY DEF LockTicks
<1> HIDE DEF f, l
<1> QED
  BY <1>1, <1>3, <1>4, <1>5, <1>6, <1>7, AcquireStep

-----------------------------------------------------------------------------
(* Steps that call release()                                               *)

\* A CPU that does not spin holds what its thread has.
LEMMA Holds ==
  ASSUME ScInv, NEW c \in CPUs, NEW l \in Locks, l \in Wants(cur[c], Top(cur[c])),
         spin[c] = NoLock
  PROVE  holder[l] = c
BY Running, Names DEF LocksOK

\* release() of a lock that is held, with interrupts off, does not panic.
LEMMA Releases ==
  ASSUME NEW c, NEW l, NEW k, release(c, l, k), holder[l] = c, ~k.intr, k.noff \in 1..2
  PROVE  kpanic' = ""
<1>1. k.intr = FALSE /\ ~(k.noff < 1)
  OBVIOUS
<1> QED
  BY <1>1 DEF release

\* sys_sleep() has slept long enough and releases tickslock.
LEMMA SleepDoneInv ==
  ASSUME ScInv, NEW c \in CPUs, SleepDone(c) PROVE ScInv'
<1> DEFINE f == At(c, "user")
           l == tickslock
           k == cpu[c]
           n == pop_off(k)
<1>1. Top(cur[c]).pc = "test" /\ spin[c] = NoLock /\ Jump(c, "user")
  BY DEF SleepDone, Here
<1>2. f \in FrameType /\ f.pc = "user" /\ Become(c, f)
  BY <1>1, JumpTop DEF Pcs, ProcPcs
<1>3. Goes(c, f)
  BY <1>1, <1>2, Kinds DEF Goes, SchedPcs, ProcPcs
<1>4. l \in Locks
  BY Names
<1>5. /\ l \in Wants(cur[c], Top(cur[c]))
      /\ Wants(cur[c], f) = Wants(cur[c], Top(cur[c])) \ {l}
  BY <1>1, <1>2, <1>4 DEF Wants, Away, Index
<1>6. holder[l] = c
  BY <1>1, <1>4, <1>5, Holds
<1>7. k \in CpuType /\ k.noff = Depth(Top(cur[c]).pc) /\ k.intr = FALSE
      /\ (f.pc \notin Open => ~k.intena)
      /\ (cur[c] \in Kprocs => k.proc = cur[c]) /\ (cur[c] \notin Kprocs => k.proc = 0)
  <2>1. k \in CpuType /\ CpuOK(cur[c], Top(cur[c]), k)
    BY Running
  <2> QED
    BY <1>1, <1>2, <2>1 DEF CpuOK, CpuType, Open, Shut
<1>8. k.noff \in 1..2 /\ k.noff = Depth(f.pc) + 1 /\ Depth(f.pc) \in 0..1 
      /\ (f.pc \in Shut => f.pc \notin Open) /\ ~(k.intr)
  BY <1>1, <1>2, <1>7 DEF Depth, Away, Shut, Open
<1>9. n \in CpuType /\ CpuOK(cur[c], f, n)
  <2> HIDE DEF f, k
  <2> QED
    BY <1>7, <1>8, PopOK
<1>10. /\ holder' = [holder EXCEPT ![l] = NoCpu] /\ spin' = spin
       /\ cpu' = [cpu EXCEPT ![c] = n] /\ cur' = cur /\ saved' = saved
  BY DEF SleepDone, release
<1>11. MayWake(c)
  BY DEF SleepDone, MayWake, ScInv, ScTypeOK
<1>12. ClockType'
  <2>1. kpanic' = ""
    <3>1. release(c, l, k)
      BY DEF SleepDone
    <3> HIDE DEF l, k
    <3> QED
      BY <1>6, <1>8, <3>1, Releases
  <2>2. cur[c] \in Kprocs
    BY <1>1, Kinds DEF ProcPcs
  <2>3. [from |-> 0, n |-> 0] \in [from : 0..TWRAP - 1, n : SleepFor \cup {0}]
    BY SchedAssumption
  <2>4. until' \in [Kprocs -> [from : 0..TWRAP - 1, n : SleepFor \cup {0}]]
    BY <2>2, <2>3 DEF SleepDone, ScInv, ScTypeOK, ClockType
  <2> QED
    BY <2>1, <2>4 DEF SleepDone, ScInv, ScTypeOK, ClockType
<1> HIDE DEF f, l, k, n
<1> QED
  BY <1>1, <1>3, <1>4, <1>5, <1>9, <1>10, <1>11, <1>12, ReleaseStep

\* sleep() releases p->lock after the swtch() back to it.
LEMMA WokenInv ==
  ASSUME ScInv, NEW c \in CPUs, Woken(c) PROVE ScInv'
<1> DEFINE f == At(c, "again")
           l == cur[c]
           k == Resumed(c)
           n == pop_off(k)
<1>1. Top(cur[c]).pc = "woken" /\ spin[c] = NoLock /\ Jump(c, "again")
  BY DEF Woken, Here
<1>2. f \in FrameType /\ f.pc = "again" /\ Become(c, f)
  BY <1>1, JumpTop DEF Pcs, ProcPcs
<1>3. Goes(c, f)
  BY <1>1, <1>2, Kinds DEF Goes, SchedPcs, ProcPcs
<1>4. l \in Locks /\ l # tickslock
  BY <1>1, Kinds, Names DEF ProcPcs, YieldPcs
<1>5. /\ l \in Wants(cur[c], Top(cur[c]))
      /\ Wants(cur[c], f) = Wants(cur[c], Top(cur[c])) \ {l}
  BY <1>1, <1>2, <1>4 DEF Wants, Away, Index
<1>6. holder[l] = c
  BY <1>1, <1>4, <1>5, Holds
<1>7. k \in CpuType /\ k.noff = Depth(Top(cur[c]).pc) /\ k.intr = FALSE
      /\ (f.pc \notin Open => ~k.intena)
      /\ (cur[c] \in Kprocs => k.proc = cur[c]) /\ (cur[c] \notin Kprocs => k.proc = 0)
  <2> DEFINE o == cpu[c]
             b == saved[cur[c]]
  <2>1. o \in CpuType /\ CpuOK(cur[c], Top(cur[c]), o) /\ cur[c] \in Kprocs
    BY <1>1, Running, Kinds DEF ProcPcs, YieldPcs
  <2>2. b \in BOOLEAN /\ (Top(cur[c]).pc = "yielded" => ~b)
    <3>1. cur[c] \in Kprocs
      BY <2>1
    <3> QED
      BY <3>1, Zenon DEF ScInv, ScTypeOK, RestInv
  <2>3. o.noff = Depth(Top(cur[c]).pc) /\ o.intr = FALSE /\ o.proc = cur[c]
    BY <1>1, <2>1 DEF CpuOK, CpuType, Open
  <2>4. k = [o EXCEPT !.intena = b]
    BY DEF Resumed
  <2> HIDE DEF o, b, k
  <2>5. k \in CpuType /\ k.noff = o.noff /\ k.intr = o.intr /\ k.proc = o.proc /\ k.intena = b
    BY <2>1, <2>2, <2>4 DEF CpuType
  <2> QED
    BY <1>1, <1>2, <2>1, <2>2, <2>3, <2>5 DEF Open
<1>8. k.noff \in 1..2 /\ k.noff = Depth(f.pc) + 1 /\ Depth(f.pc) \in 0..1 
      /\ (f.pc \in Shut => f.pc \notin Open) /\ ~(k.intr)
  BY <1>1, <1>2, <1>7 DEF Depth, Away, Shut, Open
<1>9. n \in CpuType /\ CpuOK(cur[c], f, n)
  <2> HIDE DEF f, k
  <2> QED
    BY <1>7, <1>8, PopOK
<1>10. /\ holder' = [holder EXCEPT ![l] = NoCpu] /\ spin' = spin
       /\ cpu' = [cpu EXCEPT ![c] = n] /\ cur' = cur /\ saved' = saved
  BY DEF Woken, release
<1>11. MayWake(c)
  BY DEF Woken, MayWake, ScInv, ScTypeOK
<1>12. ClockType'
  <2>1. kpanic' = ""
    <3>1. release(c, l, k)
      BY DEF Woken
    <3> HIDE DEF l, k
    <3> QED
      BY <1>6, <1>8, <3>1, Releases
  <2> QED
    BY <2>1 DEF Woken, ScInv, ScTypeOK, ClockType
<1> HIDE DEF f, l, k, n
<1> QED
  BY <1>1, <1>3, <1>4, <1>5, <1>9, <1>10, <1>11, <1>12, ReleaseStep

\* clockintr() releases tickslock after its wakeup().
LEMMA ClockEndInv ==
  ASSUME ScInv, NEW c \in CPUs, ClockEnd(c) PROVE ScInv'
<1> DEFINE f == Frame("ack")
           l == tickslock
           k == cpu[c]
           n == pop_off(k)
<1>1. Top(cur[c]).pc = "clockend" /\ spin[c] = NoLock /\ Become(c, f)
  BY DEF ClockEnd, Here
<1>2. f \in FrameType /\ f.pc = "ack"
  BY FrameStarts DEF Pcs, IntrPcs
<1>3. Goes(c, f)
  BY <1>1, <1>2, Kinds DEF Goes, SchedPcs, IntrPcs
<1>4. l \in Locks
  BY Names
<1>5. /\ l \in Wants(cur[c], Top(cur[c]))
      /\ Wants(cur[c], f) = Wants(cur[c], Top(cur[c])) \ {l}
  BY <1>1, <1>2, <1>4 DEF Wants, Away, Index
<1>6. holder[l] = c
  BY <1>1, <1>4, <1>5, Holds
<1>7. k \in CpuType /\ k.noff = Depth(Top(cur[c]).pc) /\ k.intr = FALSE
      /\ (f.pc \notin Open => ~k.intena)
      /\ (cur[c] \in Kprocs => k.proc = cur[c]) /\ (cur[c] \notin Kprocs => k.proc = 0)
  <2>1. k \in CpuType /\ CpuOK(cur[c], Top(cur[c]), k)
    BY Running
  <2> QED
    BY <1>1, <1>2, <2>1 DEF CpuOK, CpuType, Open, Shut
<1>8. k.noff \in 1..2 /\ k.noff = Depth(f.pc) + 1 /\ Depth(f.pc) \in 0..1 
      /\ (f.pc \in Shut => f.pc \notin Open) /\ ~(k.intr)
  BY <1>1, <1>2, <1>7 DEF Depth, Away, Shut, Open
<1>9. n \in CpuType /\ CpuOK(cur[c], f, n)
  <2> HIDE DEF f, k
  <2> QED
    BY <1>7, <1>8, PopOK
<1>10. /\ holder' = [holder EXCEPT ![l] = NoCpu] /\ spin' = spin
       /\ cpu' = [cpu EXCEPT ![c] = n] /\ cur' = cur /\ saved' = saved
  BY DEF ClockEnd, release
<1>11. MayWake(c)
  BY DEF ClockEnd, MayWake, ScInv, ScTypeOK
<1>12. ClockType'
  <2>1. kpanic' = ""
    <3>1. release(c, l, k)
      BY DEF ClockEnd
    <3> HIDE DEF l, k
    <3> QED
      BY <1>6, <1>8, <3>1, Releases
  <2> QED
    BY <2>1 DEF ClockEnd, ScInv, ScTypeOK, ClockType
<1> HIDE DEF f, l, k, n
<1> QED
  BY <1>1, <1>3, <1>4, <1>5, <1>9, <1>10, <1>11, <1>12, ReleaseStep

\* yield() releases p->lock after the swtch() back to it.
LEMMA YieldedInv ==
  ASSUME ScInv, NEW c \in CPUs, Yielded(c) PROVE ScInv'
<1> DEFINE f == At(c, "iret")
           l == cur[c]
           k == Resumed(c)
           n == pop_off(k)
<1>1. Top(cur[c]).pc = "yielded" /\ spin[c] = NoLock /\ Jump(c, "iret")
  BY DEF Yielded, Here
<1>2. f \in FrameType /\ f.pc = "iret" /\ Become(c, f)
  BY <1>1, JumpTop DEF Pcs, YieldPcs, IntrPcs
<1>3. Goes(c, f)
  BY <1>1, <1>2, Kinds DEF Goes, SchedPcs, YieldPcs, IntrPcs
<1>4. l \in Locks /\ l # tickslock
  BY <1>1, Kinds, Names DEF ProcPcs, YieldPcs
<1>5. /\ l \in Wants(cur[c], Top(cur[c]))
      /\ Wants(cur[c], f) = Wants(cur[c], Top(cur[c])) \ {l}
  BY <1>1, <1>2, <1>4 DEF Wants, Away, Index
<1>6. holder[l] = c
  BY <1>1, <1>4, <1>5, Holds
<1>7. k \in CpuType /\ k.noff = Depth(Top(cur[c]).pc) /\ k.intr = FALSE
      /\ (f.pc \notin Open => ~k.intena)
      /\ (cur[c] \in Kprocs => k.proc = cur[c]) /\ (cur[c] \notin Kprocs => k.proc = 0)
  <2> DEFINE o == cpu[c]
             b == saved[cur[c]]
  <2>1. o \in CpuType /\ CpuOK(cur[c], Top(cur[c]), o) /\ cur[c] \in Kprocs
    BY <1>1, Running, Kinds DEF ProcPcs, YieldPcs
  <2>2. b \in BOOLEAN /\ (Top(cur[c]).pc = "yielded" => ~b)
    <3>1. cur[c] \in Kprocs
      BY <2>1
    <3> QED
      BY <3>1, Zenon DEF ScInv, ScTypeOK, RestInv
  <2>3. o.noff = Depth(Top(cur[c]).pc) /\ o.intr = FALSE /\ o.proc = cur[c]
    BY <1>1, <2>1 DEF CpuOK, CpuType, Open
  <2>4. k = [o EXCEPT !.intena = b]
    BY DEF Resumed
  <2> HIDE DEF o, b, k
  <2>5. k \in CpuType /\ k.noff = o.noff /\ k.intr = o.intr /\ k.proc = o.proc /\ k.intena = b
    BY <2>1, <2>2, <2>4 DEF CpuType
  <2> QED
    BY <1>1, <1>2, <2>1, <2>2, <2>3, <2>5 DEF Open
<1>8. k.noff \in 1..2 /\ k.noff = Depth(f.pc) + 1 /\ Depth(f.pc) \in 0..1 
      /\ (f.pc \in Shut => f.pc \notin Open) /\ ~(k.intr)
  BY <1>1, <1>2, <1>7 DEF Depth, Away, Shut, Open
<1>9. n \in CpuType /\ CpuOK(cur[c], f, n)
  <2> HIDE DEF f, k
  <2> QED
    BY <1>7, <1>8, PopOK
<1>10. /\ holder' = [holder EXCEPT ![l] = NoCpu] /\ spin' = spin
       /\ cpu' = [cpu EXCEPT ![c] = n] /\ cur' = cur /\ saved' = saved
  BY DEF Yielded, release
<1>11. MayWake(c)
  BY DEF Yielded, MayWake, ScInv, ScTypeOK
<1>12. ClockType'
  <2>1. kpanic' = ""
    <3>1. release(c, l, k)
      BY DEF Yielded
    <3> HIDE DEF l, k
    <3> QED
      BY <1>6, <1>8, <3>1, Releases
  <2> QED
    BY <2>1 DEF Yielded, ScInv, ScTypeOK, ClockType
<1> HIDE DEF f, l, k, n
<1> QED
  BY <1>1, <1>3, <1>4, <1>5, <1>9, <1>10, <1>11, <1>12, ReleaseStep

\* forkret() releases the p->lock that the scheduler took.
LEMMA ForkretInv ==
  ASSUME ScInv, NEW c \in CPUs, Forkret(c) PROVE ScInv'
<1> DEFINE f == At(c, "user")
           l == cur[c]
           k == cpu[c]
           n == usertrapret(pop_off(k))
<1>1. Top(cur[c]).pc = "forkret" /\ spin[c] = NoLock /\ Jump(c, "user")
  BY DEF Forkret, Here
<1>2. f \in FrameType /\ f.pc = "user" /\ Become(c, f)
  BY <1>1, JumpTop DEF Pcs, ProcPcs
<1>3. Goes(c, f)
  BY <1>1, <1>2, Kinds DEF Goes, SchedPcs, ProcPcs
<1>4. l \in Locks /\ l # tickslock
  BY <1>1, Kinds, Names DEF ProcPcs, YieldPcs
<1>5. /\ l \in Wants(cur[c], Top(cur[c]))
      /\ Wants(cur[c], f) = Wants(cur[c], Top(cur[c])) \ {l}
  BY <1>1, <1>2, <1>4 DEF Wants, Away, Index
<1>6. holder[l] = c
  BY <1>1, <1>4, <1>5, Holds
<1>7. k \in CpuType /\ k.noff = Depth(Top(cur[c]).pc) /\ k.intr = FALSE
      /\ (f.pc \notin Open => ~k.intena)
      /\ (cur[c] \in Kprocs => k.proc = cur[c]) /\ (cur[c] \notin Kprocs => k.proc = 0)
  <2>1. k \in CpuType /\ CpuOK(cur[c], Top(cur[c]), k)
    BY Running
  <2> QED
    BY <1>1, <1>2, <2>1 DEF CpuOK, CpuType, Open, Shut
<1>8. k.noff \in 1..2 /\ k.noff = Depth(f.pc) + 1 /\ Depth(f.pc) \in 0..1 
      /\ (f.pc \in Shut => f.pc \notin Open) /\ ~(k.intr)
  BY <1>1, <1>2, <1>7 DEF Depth, Away, Shut, Open
<1>9. n \in CpuType /\ CpuOK(cur[c], f, n)
  <2> DEFINE m == pop_off(k)
  <2> HIDE DEF f, k, m
  <2>1. m \in CpuType /\ CpuOK(cur[c], f, m)
    BY <1>7, <1>8, PopOK DEF m
  <2>2. n = [m EXCEPT !.intr = TRUE]
    BY DEF n, usertrapret, m
  <2> HIDE DEF n
  <2>3. /\ n \in CpuType /\ n.intr = TRUE
        /\ n.noff = m.noff /\ n.intena = m.intena /\ n.proc = m.proc
    BY <2>1, <2>2 DEF CpuType
  <2> QED
    BY <1>2, <2>1, <2>3 DEF CpuOK, Open
<1>10. /\ holder' = [holder EXCEPT ![l] = NoCpu] /\ spin' = spin
       /\ cpu' = [cpu EXCEPT ![c] = n] /\ cur' = cur /\ saved' = saved
  BY DEF Forkret
<1>11. MayWake(c)
  BY DEF Forkret, MayWake, ScInv, ScTypeOK
<1>12. ClockType'
  BY <1>6 DEF Forkret, ScInv, ScTypeOK, ClockType
<1> HIDE DEF f, l, k, n
<1> QED
  BY <1>1, <1>3, <1>4, <1>5, <1>9, <1>10, <1>11, <1>12, ReleaseStep

\* The scheduler is done with process i: the lock goes back, and the scan goes on
\* to the next process or ends.
LEMMA SchedNextInv ==
  ASSUME ScInv, NEW c \in CPUs, SchedNext(c) PROVE ScInv'
<1> DEFINE o == Top(cur[c])
           l == Index(c)
           f == IF l < NPROC THEN [o EXCEPT !.pc = "lock", !.i = @ + 1]
                ELSE Frame(IF o.found THEN "on" ELSE "wfi")
           k == AfterRun(c)
           n == pop_off(k)
<1>1. /\ o.pc \in {"back", "look"} /\ spin[c] = NoLock /\ Become(c, f)
      /\ o.pc = "look" => pstate[l] # "RUNNABLE"
  BY DEF SchedNext, Here
<1>2. o \in FrameType /\ l = o.i /\ l \in Kprocs /\ o.found \in BOOLEAN
  BY Running DEF FrameType, Index
<1>3. o.pc = "back" => o.found
  <2>1. StackOK(cur[c], frames[cur[c]]) /\ "back" \notin Trapped(cur[c])
    BY Running DEF Trapped, IntrPcs, YieldPcs
  <2>2. CASE Len(frames[cur[c]]) = 1
    BY <2>1, <2>2 DEF StackOK, Top
  <2>3. CASE Len(frames[cur[c]]) = 2
    BY <2>1, <2>3 DEF StackOK, Top
  <2> QED
    BY <2>1, <2>2, <2>3 DEF StackOK
<1>4. /\ f \in FrameType /\ f.pc \in {"lock", "on", "wfi"}
      /\ \A p \in Kprocs : pstate[p] = "RUNNABLE" /\ LooksAt(o, p) => LooksAt(f, p)
  <2>1. CASE l < NPROC
    <3>0. l + 1 \in Kprocs
      BY <1>2, <2>1, SchedAssumption DEF Kprocs
    <3>1. f = [o EXCEPT !.pc = "lock", !.i = l + 1]
      BY <1>2, <2>1
    <3> HIDE DEF f, o, l
    <3>2. f \in FrameType /\ f.pc = "lock" /\ f.i = l + 1 /\ f.found = o.found
      BY <1>2, <3>0, <3>1 DEF FrameType, Pcs, SchedPcs
    <3>3. \A p \in Kprocs : l <= p /\ p # l => l + 1 <= p
      BY <1>2 DEF Kprocs
    <3> QED
      BY <1>1, <1>2, <1>3, <3>2, <3>3 DEF LooksAt
  <2>2. CASE ~(l < NPROC)
    <3>1. l = NPROC /\ \A p \in Kprocs : l <= p => p = l
      BY <1>2, <2>2, SchedAssumption DEF Kprocs
    <3>2. f = Frame(IF o.found THEN "on" ELSE "wfi")
      BY <2>2
    <3>3. f \in FrameType /\ f.pc = IF o.found THEN "on" ELSE "wfi"
      <4>1. CASE o.found
        BY <3>2, <4>1, FrameStarts DEF Pcs, SchedPcs
      <4>2. CASE ~o.found
        BY <3>2, <4>2, FrameStarts DEF Pcs, SchedPcs
      <4> QED
        BY <4>1, <4>2
    <3> HIDE DEF f, o, l
    <3> QED
      BY <1>1, <1>2, <1>3, <3>1, <3>3 DEF LooksAt
  <2> QED
    BY <2>1, <2>2
<1> HIDE DEF f
<1>5. Goes(c, f)
  BY <1>1, <1>4, Kinds DEF Goes, SchedPcs
<1>6. /\ l \in Locks /\ l \in Wants(cur[c], o)
      /\ Wants(cur[c], f) = Wants(cur[c], o) \ {l}
  BY <1>1, <1>2, <1>4, Names DEF Wants, Away
<1>7. holder[l] = c
  BY <1>1, <1>6, Holds
<1>8. /\ k \in CpuType /\ k.noff = 1 /\ k.intr = FALSE /\ k.intena = FALSE /\ k.proc = 0
      /\ cur[c] \notin Kprocs /\ Depth(f.pc) = 0
  <2>1. /\ cpu[c] \in CpuType /\ cpu[c].noff = Depth(o.pc)
        /\ cpu[c].intr = FALSE
    BY <1>1, Running DEF CpuOK, CpuType, Open
  <2>2. k = [cpu[c] EXCEPT !.proc = 0, !.intena = FALSE]
    BY DEF AfterRun
  <2>3. k \in CpuType /\ k.noff = cpu[c].noff /\ k.intr = cpu[c].intr
        /\ k.proc = 0 /\ k.intena = FALSE
    <3>1. 0 \in 0..NPROC
      BY SchedAssumption
    <3> DEFINE m == cpu[c]
    <3> HIDE DEF k, m
    <3> QED
      BY <2>1, <2>2, <3>1 DEF CpuType, m
  <2>4. Depth(o.pc) = 1 /\ Depth(f.pc) = 0
    BY <1>1, <1>4 DEF Depth, Away
  <2>5. cur[c] \notin Kprocs
    BY <1>1, Kinds DEF SchedPcs
  <2> QED
    BY <2>1, <2>3, <2>4, <2>5
<1>9. n \in CpuType /\ CpuOK(cur[c], f, n)
  <2> HIDE DEF k
  <2>1. k.noff \in 1..2 /\ k.noff = Depth(f.pc) + 1 /\ Depth(f.pc) \in 0..1
        /\ ~k.intena /\ f.pc \notin Shut
    BY <1>4, <1>8 DEF Shut
  <2> QED
    BY <1>8, <2>1, PopOK
<1>10. /\ holder' = [holder EXCEPT ![l] = NoCpu] /\ spin' = spin
       /\ cpu' = [cpu EXCEPT ![c] = n] /\ cur' = cur /\ saved' = saved
  BY DEF SchedNext, release
<1>11. MayWake(c)
  BY DEF SchedNext, MayWake, ScInv, ScTypeOK
<1>12. ClockType'
  <2>1. kpanic' = ""
    <3>1. release(c, l, k)
      BY DEF SchedNext
    <3>2. k.noff \in 1..2 /\ ~k.intr
      BY <1>8
    <3> HIDE DEF l, k
    <3> QED
      BY <1>7, <3>1, <3>2, Releases
  <2> QED
    BY <2>1 DEF SchedNext, ScInv, ScTypeOK, ClockType
<1> HIDE DEF l, k, n
<1> QED
  BY <1>1, <1>5, <1>6, <1>9, <1>10, <1>11, <1>12, ReleaseStep DEF o

\* wakeup() of process i by a trap handler.
LEMMA WakeInv ==
  ASSUME ScInv, NEW c \in CPUs, Wake(c) PROVE ScInv'
<1> DEFINE o == Top(cur[c])
           l == Index(c)
           f == IF l < NPROC THEN [o EXCEPT !.pc = "wlock", !.i = @ + 1]
                ELSE Frame("clockend")
           k == cpu[c]
           n == pop_off(k)
<1>1. o.pc = "wake" /\ spin[c] = NoLock /\ Become(c, f)
  BY DEF Wake, Here
<1>2. o \in FrameType /\ l = o.i /\ l \in Kprocs
  BY Running DEF FrameType, Index
<1>3. f \in FrameType /\ f.pc \in {"wlock", "clockend"}
  <2>1. CASE l < NPROC
    <3>0. l + 1 \in Kprocs
      BY <1>2, <2>1, SchedAssumption DEF Kprocs
    <3>1. f = [o EXCEPT !.pc = "wlock", !.i = l + 1]
      BY <1>2, <2>1
    <3> HIDE DEF f, o, l
    <3> QED
      BY <1>2, <3>0, <3>1 DEF FrameType, Pcs, IntrPcs
  <2>2. CASE ~(l < NPROC)
    BY <2>2, FrameStarts DEF Pcs, IntrPcs
  <2> QED
    BY <2>1, <2>2
<1> HIDE DEF f
<1>4. Goes(c, f)
  BY <1>1, <1>3, Kinds DEF Goes, SchedPcs, IntrPcs
<1>5. l \in Locks /\ l # tickslock
  BY <1>2, Names
<1>6. /\ l \in Wants(cur[c], o)
      /\ Wants(cur[c], f) = Wants(cur[c], o) \ {l}
  BY <1>1, <1>2, <1>3, <1>5 DEF Wants, Away
<1>7. holder[l] = c
  BY <1>1, <1>5, <1>6, Holds
<1>8. k \in CpuType /\ k.noff = 2 /\ k.intr = FALSE /\ ~k.intena /\ Depth(f.pc) = 1
      /\ (cur[c] \in Kprocs => k.proc = cur[c]) /\ (cur[c] \notin Kprocs => k.proc = 0)
  <2>1. k \in CpuType /\ CpuOK(cur[c], o, k)
    BY Running
  <2>2. Depth(o.pc) = 2 /\ Depth(f.pc) = 1
    BY <1>1, <1>3 DEF Depth, Away
  <2> QED
    BY <1>1, <2>1, <2>2 DEF CpuOK, CpuType, Open, Shut
<1>9. n \in CpuType /\ CpuOK(cur[c], f, n)
  <2> HIDE DEF k
  <2>1. k.noff \in 1..2 /\ k.noff = Depth(f.pc) + 1 /\ Depth(f.pc) \in 0..1
    BY <1>8
  <2> QED
    BY <1>8, <2>1, PopOK
<1>10. /\ holder' = [holder EXCEPT ![l] = NoCpu] /\ spin' = spin
       /\ cpu' = [cpu EXCEPT ![c] = n] /\ cur' = cur /\ saved' = saved
  BY DEF Wake, release
<1>11. MayWake(c)
  <2>1. \A p \in Kprocs : pstate'[p] = pstate[p]
                            \/ (pstate[p] = "SLEEPING" /\ pstate'[p] = "RUNNABLE")
    BY <1>2 DEF Wake, ScInv, ScTypeOK
  <2>2. pstate' \in [Kprocs -> {"RUNNABLE", "RUNNING", "SLEEPING"}]
    BY <1>2 DEF Wake, ScInv, ScTypeOK
  <2> QED
    BY <1>1, <2>1, <2>2 DEF MayWake, SchedPcs
<1>12. ClockType'
  <2>1. kpanic' = ""
    <3>1. release(c, l, k)
      BY DEF Wake
    <3>2. k.noff \in 1..2
      BY <1>8
    <3> HIDE DEF l, k
    <3> QED
      BY <1>7, <1>8, <3>1, <3>2, Releases
  <2> QED
    BY <2>1 DEF Wake, ScInv, ScTypeOK, ClockType
<1> HIDE DEF l, k, n
<1> QED
  BY <1>1, <1>4, <1>5, <1>6, <1>9, <1>10, <1>11, <1>12, ReleaseStep DEF o

-----------------------------------------------------------------------------
(* The lock is taken; traps and the return from them                       *)

\* Schedulers stay where they are in their scan.
LEMMA OwedKept ==
  ASSUME ScInv, NEW t \in Threads, NEW s, frames' = [frames EXCEPT ![t] = s],
         s[1] = frames[t][1], pstate' = pstate
  PROVE  OwedInv'
<1>1. \A u \in Threads : frames'[u][1] = frames[u][1]
  BY DEF ScInv, ScTypeOK
<1>2. \A c \in CPUs, p \in Kprocs : Owes(c, p)' <=> Owes(c, p)
  BY <1>1, Names DEF Owes
<1> QED
  BY <1>2 DEF ScInv, OwedInv

\* A spinning acquire() gets its lock: the locks wanted stay the same.
LEMMA TakeInv ==
  ASSUME ScInv, NEW c \in CPUs, Take(c) PROVE ScInv'
<1> DEFINE s == frames[cur[c]]
           k == cpu[c]
           l == spin[c]
<1>1. /\ spin \in [CPUs -> Locks \cup {NoLock}] /\ holder \in [Locks -> CPUs \cup {NoCpu}]
      /\ l \in Locks /\ holder[l] = NoCpu
  BY DEF Take, ScInv, ScTypeOK
<1>2. /\ \A m \in Locks : holder'[m] = IF m = l THEN c ELSE holder[m]
      /\ \A d \in CPUs : spin'[d] = IF d = c THEN NoLock ELSE spin[d]
      /\ holder' \in [Locks -> CPUs \cup {NoCpu}]
      /\ spin' \in [CPUs -> Locks \cup {NoLock}]
  BY <1>1 DEF Take
<1>3. s[Len(s)] = Top(cur[c])
  BY DEF Top
<1>4. LocksOK(c, cur[c], s[Len(s)], holder', spin'[c])
  <2> DEFINE W == Wants(cur[c], Top(cur[c]))
  <2>1. \A m \in Locks : holder[m] = c \/ l = m <=> m \in W
    BY Running DEF LocksOK
  <2> HIDE DEF W, l
  <2>2. \A m \in Locks : holder'[m] = c <=> m \in W
    BY <1>1, <1>2, <2>1, Names
  <2>3. spin'[c] = NoLock
    BY <1>2
  <2> QED
    BY <1>3, <2>2, <2>3, Names DEF LocksOK, W
<1>5. OthersKeep(c)
  BY <1>1, <1>2, Names DEF OthersKeep
<1>6. Local(c, s, k) /\ ClockType' /\ pstate' = pstate
  BY DEF Take, Local, ScInv, ScTypeOK, ClockType
<1>7. OwedInv'
  BY <1>6, Running, OwedKept DEF Local
<1>8. k \in CpuType /\ StackOK(cur[c], s) /\ CpuOK(cur[c], s[Len(s)], k)
  BY <1>3, Running
<1>9. pstate' \in [Kprocs -> {"RUNNABLE", "RUNNING", "SLEEPING"}]
  BY <1>6 DEF ScInv, ScTypeOK
<1> HIDE DEF s, k, l
<1> QED
  BY <1>2, <1>3, <1>4, <1>5, <1>6, <1>7, <1>8, <1>9, LocalStep

\* A trap pushes a frame.
LEMMA PushFrame ==
  ASSUME NEW F, NEW o \in Seq(F), Len(o) = 1, NEW f \in F
  PROVE  /\ Append(o, f) \in Seq(F) /\ Len(Append(o, f)) = 2
         /\ Append(o, f)[1] = o[1] /\ Append(o, f)[2] = f
<1>1. Append(o, f) \in Seq(F)
  OBVIOUS
<1>2. Len(Append(o, f)) = 2
  OBVIOUS
<1>3. Append(o, f)[1] = o[1]
  OBVIOUS
<1>4. Append(o, f)[Len(o) + 1] = f
  BY AppendProperties, Zenon
<1> QED
  BY <1>1, <1>2, <1>3, <1>4

\* An interrupt pushes a frame; it needs interrupts on, so no lock is held.
LEMMA TrapInv ==
  ASSUME ScInv, NEW c \in CPUs, Trap(c) PROVE ScInv'
<1> DEFINE t == cur[c]
           f == Frame(IF c = 0 THEN "clock" ELSE "ack")
           s == Append(frames[t], f)
           k == [cpu[c] EXCEPT !.intr = FALSE]
<1>1. /\ t \in Threads /\ StackOK(t, frames[t]) /\ cpu[c] \in CpuType
      /\ CpuOK(t, Top(t), cpu[c]) /\ LocksOK(c, t, Top(t), holder, spin[c])
  BY Running
<1>2. Top(t).pc \in Open
  BY <1>1 DEF Trap, CpuOK
<1>3. f \in FrameType /\ f.pc \in {"clock", "ack"}
  <2>1. CASE c = 0
    BY <2>1, FrameStarts DEF Pcs, IntrPcs
  <2>2. CASE c # 0
    BY <2>2, FrameStarts DEF Pcs, IntrPcs
  <2> QED
    BY <2>1, <2>2
<1> HIDE DEF f
<1>4. frames[t] \in Seq(FrameType) /\ Len(frames[t]) = 1 /\ frames[t][1].pc \in Own(t)
      /\ frames[t][1] = Top(t)
  <2>1. Open \cap Trapped(t) = {}
    BY DEF Open, Trapped, IntrPcs, YieldPcs
  <2>2. CASE Len(frames[t]) = 2
    BY <1>1, <1>2, <2>1, <2>2 DEF StackOK, Top
  <2>3. CASE Len(frames[t]) = 1
    BY <1>1, <2>3 DEF StackOK, Top
  <2> QED
    BY <1>1, <2>2, <2>3 DEF StackOK
<1>5. s \in Seq(FrameType) /\ Len(s) = 2 /\ s[1] = Top(t) /\ s[2] = f
  BY <1>3, <1>4, PushFrame
<1>6. StackOK(t, s)
  BY <1>2, <1>3, <1>4, <1>5 DEF StackOK, Trapped, IntrPcs, Open
<1>7. k \in CpuType /\ CpuOK(t, f, k)
  BY <1>1, <1>2, <1>3 DEF CpuType, CpuOK, Depth, Open, Shut, Away
<1>8. UNCHANGED <<cur, spin, holder, saved, pstate, onticks, ticks, until, timer, kpanic>>
  BY DEF Trap
<1>9. LocksOK(c, t, f, holder', spin'[c])
  <2>1. Wants(t, f) = {} /\ Wants(t, Top(t)) = {}
    BY <1>2, <1>3 DEF Wants, Open, Away
  <2> QED
    BY <1>1, <1>8, <2>1 DEF LocksOK
<1>10. Local(c, s, k)
  BY Zenon DEF Trap, Local, f
<1>11. OwedInv'
  BY <1>1, <1>4, <1>5, <1>8, <1>10, OwedKept DEF Local
<1>12. /\ OthersKeep(c) /\ ClockType'
       /\ pstate' \in [Kprocs -> {"RUNNABLE", "RUNNING", "SLEEPING"}]
       /\ spin' \in [CPUs -> Locks \cup {NoLock}]
       /\ holder' \in [Locks -> CPUs \cup {NoCpu}]
  BY <1>8 DEF OthersKeep, ScInv, ScTypeOK, ClockType
<1> HIDE DEF s, k
<1> QED
  BY <1>3, <1>5, <1>6, <1>7, <1>8, <1>9, <1>10, <1>11, <1>12, LocalStep

\* The return from an interrupt pops its frame.
LEMMA IretInv ==
  ASSUME ScInv, NEW c \in CPUs, Iret(c) PROVE ScInv'
<1> DEFINE t == cur[c]
           f == frames[t][1]
           s == SubSeq(frames[t], 1, Len(frames[t]) - 1)
           k == [cpu[c] EXCEPT !.intr = TRUE]
<1>1. /\ t \in Threads /\ StackOK(t, frames[t]) /\ cpu[c] \in CpuType
      /\ CpuOK(t, Top(t), cpu[c]) /\ LocksOK(c, t, Top(t), holder, spin[c])
  BY Running
<1>2. Top(t).pc = "iret"
  BY DEF Iret, Here
<1>3. /\ frames[t] \in Seq(FrameType) /\ Len(frames[t]) = 2
      /\ f.pc \in Open /\ f.pc \in Own(t)
  <2>1. "iret" \notin Own(t)
    BY DEF Own, SchedPcs, ProcPcs
  <2>2. CASE Len(frames[t]) = 1
    BY <1>1, <1>2, <2>1, <2>2 DEF StackOK, Top
  <2>3. CASE Len(frames[t]) = 2
    BY <1>1, <2>3 DEF StackOK
  <2> QED
    BY <1>1, <2>2, <2>3 DEF StackOK
<1>4. s \in Seq(FrameType) /\ Len(s) = 1 /\ s[1] = f
  BY <1>3
<1>5. StackOK(t, s)
  BY <1>3, <1>4 DEF StackOK, Open
<1>6. k \in CpuType /\ CpuOK(t, f, k)
  BY <1>1, <1>2, <1>3 DEF CpuType, CpuOK, Depth, Open, Shut, Away
<1>7. UNCHANGED <<cur, spin, holder, saved, pstate, onticks, ticks, until, timer, kpanic>>
  BY DEF Iret
<1>8. LocksOK(c, t, f, holder', spin'[c])
  <2>1. Wants(t, f) = {} /\ Wants(t, Top(t)) = {}
    BY <1>2, <1>3 DEF Wants, Open, Away
  <2> QED
    BY <1>1, <1>7, <2>1 DEF LocksOK
<1>9. Local(c, s, k)
  BY DEF Iret, Local
<1>10. OwedInv'
  BY <1>1, <1>4, <1>7, <1>9, OwedKept DEF Local
<1>11. /\ OthersKeep(c) /\ ClockType'
       /\ pstate' \in [Kprocs -> {"RUNNABLE", "RUNNING", "SLEEPING"}]
       /\ spin' \in [CPUs -> Locks \cup {NoLock}]
       /\ holder' \in [Locks -> CPUs \cup {NoCpu}]
  BY <1>7 DEF OthersKeep, ScInv, ScTypeOK, ClockType
<1>12. f.pc # "yielded"
  BY <1>3 DEF Open
<1> HIDE DEF s, k, f
<1> QED
  BY <1>4, <1>5, <1>6, <1>7, <1>8, <1>9, <1>10, <1>11, <1>12, LocalStep

\* Without effect on anything but the set of pending interrupts.
LEMMA TimerInv ==
  ASSUME ScInv, NEW c \in CPUs, Timer(c) PROVE ScInv'
<1>1. UNCHANGED <<cpu, cur, spin, holder, frames, saved, pstate>>
  BY DEF Timer
<1>2. ScTypeOK'
  BY DEF Timer, ScInv, ScTypeOK, ClockType
<1> QED
  BY <1>1, <1>2 DEF ScInv, StackInv, CurInv, CpuInv, RestInv, OwedInv, Owes, Top

-----------------------------------------------------------------------------
(* swtch()                                                                 *)

\* The stack of CPU c's thread when its top frame becomes f.
LEMMA BecomeStack ==
  ASSUME ScInv, NEW c \in CPUs, NEW f \in FrameType, Become(c, f), f.pc = "back" => f.found,
         \/ Top(cur[c]).pc \in Own(cur[c]) /\ f.pc \in Own(cur[c])
         \/ Top(cur[c]).pc \in Trapped(cur[c]) /\ f.pc \in Trapped(cur[c])
  PROVE  /\ StackInv' /\ frames' \in [Threads -> Seq(FrameType)]
         /\ \A u \in Threads : frames'[u][Len(frames'[u])] =
                                 IF u = cur[c] THEN f ELSE Top(u)
         /\ Len(frames[cur[c]]) = 1 => frames'[cur[c]][1] = f
         /\ \A u \in Threads \ {cur[c]} : frames'[u] = frames[u]
<1> DEFINE t == cur[c]
           o == frames[t]
           s == WithTop(o, f)
<1>1. t \in Threads /\ StackOK(t, o) /\ frames \in [Threads -> Seq(FrameType)]
  BY DEF ScInv, ScTypeOK, StackInv
<1>2. \/ o[Len(o)].pc \in Own(t) /\ f.pc \in Own(t)
      \/ o[Len(o)].pc \in Trapped(t) /\ f.pc \in Trapped(t)
  BY DEF Top
<1>3. frames' = [frames EXCEPT ![t] = s]
  BY DEF Become, WithTop
<1>4. StackOK(t, s) /\ Len(s) = Len(o) /\ s[Len(s)] = f
  <2> HIDE DEF t, o
  <2> QED
    BY <1>1, <1>2, ReplaceTop
<1> HIDE DEF s
<1>5. frames'[t] = s /\ \A u \in Threads \ {t} : frames'[u] = frames[u]
  BY <1>1, <1>3
<1>6. StackInv'
  BY <1>4, <1>5 DEF ScInv, StackInv
<1>7. s \in Seq(FrameType)
  BY <1>4 DEF StackOK
<1>8. frames' \in [Threads -> Seq(FrameType)]
  BY <1>1, <1>3, <1>7
<1>9. \A u \in Threads : frames'[u][Len(frames'[u])] = IF u = t THEN f ELSE Top(u)
  BY <1>4, <1>5 DEF Top
<1>10. Len(o) = 1 => frames'[t][1] = f
  BY <1>4, <1>5
<1> QED
  BY <1>5, <1>6, <1>8, <1>9, <1>10

\* What CPU d and its thread have in common is not disturbed by a switch of CPU c.
LEMMA OthersRun ==
  ASSUME ScInv, NEW c \in CPUs, NEW d \in CPUs \ {c}, NEW f,
         cur'[d] = cur[d], cpu'[d] = cpu[d], OthersKeep(c),
         f = Top(cur[d])
  PROVE  /\ CpuOK(cur'[d], f, cpu'[d])
         /\ LocksOK(d, cur'[d], f, holder', spin'[d])
<1>1. CpuOK(cur[d], f, cpu[d]) /\ LocksOK(d, cur[d], f, holder, spin[d])
  BY Running
<1>2. spin'[d] = spin[d] /\ \A l \in Locks : holder'[l] = d <=> holder[l] = d
  BY DEF OthersKeep
<1>3. LocksOK(d, cur[d], f, holder', spin'[d])
  BY <1>1, <1>2 DEF LocksOK
<1> QED
  BY <1>1, <1>3

\* sched(): from the process back to the scheduler of the CPU.
LEMMA SwitchBack ==
  ASSUME ScInv, NEW c \in CPUs, NEW p \in Kprocs, p = cur[c], NEW k \in CpuType,
         k.noff = 1, k.intr = FALSE, NEW f \in FrameType, f.pc \in {"woken", "yielded"},
         \/ Top(p).pc \in Own(p) /\ f.pc \in Own(p)
         \/ Top(p).pc \in Trapped(p) /\ f.pc \in Trapped(p),
         Become(c, f), cur' = [cur EXCEPT ![c] = Scheduler(c)],
         cpu' = [cpu EXCEPT ![c] = k], spin' = spin, spin[c] = NoLock,
         holder' \in [Locks -> CPUs \cup {NoCpu}], OthersKeep(c),
         \A l \in Locks : holder'[l] = c <=> l = p,
         saved' \in [Kprocs -> BOOLEAN], \A q \in Kprocs \ {p} : saved'[q] = saved[q],
         f.pc = "yielded" => ~saved'[p],
         NEW st \in {"RUNNABLE", "SLEEPING"}, pstate' = [pstate EXCEPT ![p] = st], ClockType'
  PROVE  ScInv'
<1> DEFINE u == Scheduler(c)
<1>1. /\ u \in Threads /\ u \notin Kprocs /\ p \in Threads
      /\ cur \in [CPUs -> Threads] /\ cpu \in [CPUs -> CpuType]
      /\ pstate \in [Kprocs -> {"RUNNABLE", "RUNNING", "SLEEPING"}]
      /\ spin \in [CPUs -> Locks \cup {NoLock}]
  BY Names DEF ScInv, ScTypeOK
<1>2. /\ StackInv' /\ frames' \in [Threads -> Seq(FrameType)]
      /\ \A v \in Threads : Top(v)' = IF v = p THEN f ELSE Top(v)
      /\ \A v \in Threads \ {p} : frames'[v] = frames[v]
  <2>1. f.pc = "back" => f.found
    OBVIOUS
  <2>2. \/ Top(cur[c]).pc \in Own(cur[c]) /\ f.pc \in Own(cur[c])
        \/ Top(cur[c]).pc \in Trapped(cur[c]) /\ f.pc \in Trapped(cur[c])
    OBVIOUS
  <2> QED
    BY <2>1, <2>2, BecomeStack DEF Top
<1>3. /\ cur'[c] = u /\ cpu'[c] = k
      /\ \A d \in CPUs \ {c} : cur'[d] = cur[d] /\ cpu'[d] = cpu[d]
      /\ \A q \in Kprocs : pstate'[q] = IF q = p THEN st ELSE pstate[q]
  BY <1>1
<1>4. ScTypeOK'
  BY <1>1, <1>2 DEF ScTypeOK
<1>5. CurInv'
  <2>1. \A d \in CPUs : cur[d] \in Kprocs \cup {Scheduler(d)}
    BY DEF ScInv, CurInv
  <2>2. \A d \in CPUs \ {c} : cur'[d] # p /\ cur'[d] # u
    BY <1>1, <1>3, <2>1, Names DEF ScInv, CurInv
  <2>3. \A d \in CPUs : cur'[d] \in Kprocs \cup {Scheduler(d)}
    BY <1>3, <2>1
  <2>4. \A d \in CPUs : cur'[d] \in Kprocs => pstate'[cur'[d]] = "RUNNING"
    BY <1>1, <1>3, <2>2 DEF ScInv, CurInv
  <2>5. \A d, e \in CPUs : cur'[d] = cur'[e] => d = e
    BY <1>3, <2>2 DEF ScInv, CurInv
  <2> QED
    BY <2>3, <2>4, <2>5 DEF CurInv
<1>6. Top(u).pc = "back" /\ Top(u).i = p /\ Top(u)' = Top(u)
  BY <1>1, <1>2 DEF ScInv, RestInv
<1>7. CpuInv'
  <2>1. CpuOK(u, Top(u), k) /\ LocksOK(c, u, Top(u), holder', NoLock)
    <3>1. Wants(u, Top(u)) = {p}
      BY <1>6 DEF Wants
    <3>2. LocksOK(c, u, Top(u), holder', NoLock)
      BY <3>1, Names DEF LocksOK
    <3>3. CpuOK(u, Top(u), k)
      BY <1>1, <1>6 DEF CpuOK, Depth, Shut
    <3> QED
      BY <3>2, <3>3
  <2>2. ASSUME NEW d \in CPUs
        PROVE  /\ CpuOK(cur'[d], Top(cur[d])', cpu'[d])
               /\ LocksOK(d, cur'[d], Top(cur[d])', holder', spin'[d])
    <3>1. CASE d = c
      <4>1. Top(cur[d])' = Top(u) /\ spin'[d] = NoLock
        BY <1>1, <1>2, <1>3, <3>1 DEF Top
      <4> QED
        BY <1>3, <2>1, <3>1, <4>1
    <3>2. CASE d # c
      <4>1. cur[d] \in Threads \ {p}
        BY <1>1, <3>2 DEF ScInv, CurInv
      <4>2. Top(cur[d])' = Top(cur[d])
        BY <1>2, <1>3, <3>2, <4>1 DEF Top
      <4> QED
        BY <1>3, <3>2, <4>2, OthersRun
    <3> QED
      BY <3>1, <3>2
  <2> QED
    BY <2>2 DEF CpuInv
<1>8. RestInv'
  <2>1. \A d \in CPUs : cur'[d] \in Kprocs => d # c /\ cur[d] = cur'[d]
    BY <1>1, <1>3
  <2>2. \A d \in CPUs : Scheduler(d) \in Threads \ {p}
    BY Names
  <2>3. \A d \in CPUs : cur'[d] \in Kprocs => /\ Top(Scheduler(d))'.pc = "back"
                                              /\ Top(Scheduler(d))'.i = cur'[d]
    BY <1>2, <2>1, <2>2 DEF ScInv, RestInv
  <2>4. ASSUME NEW q \in Kprocs, \A d \in CPUs : cur'[d] # q
        PROVE  Top(q)'.pc \in Away
    <3>1. CASE q = p
      BY <1>1, <1>2, <3>1 DEF Away
    <3>2. CASE q # p
      <4>1. \A d \in CPUs : cur[d] # q
        BY <1>3, <2>4, <3>2
      <4> QED
        BY <1>2, <3>2, <4>1, Names DEF ScInv, RestInv
    <3> QED
      BY <3>1, <3>2
  <2>5. ASSUME NEW q \in Kprocs, Top(q)'.pc = "yielded"
        PROVE  ~saved'[q]
    <3>1. CASE q = p
      BY <1>1, <1>2, <2>5, <3>1
    <3>2. CASE q # p
      <4>1. Top(q).pc = "yielded" /\ saved'[q] = saved[q]
        BY <1>2, <2>5, <3>2, Names
      <4> QED
        BY <4>1, Zenon DEF ScInv, RestInv
    <3> QED
      BY <3>1, <3>2
  <2> QED
    BY <2>3, <2>4, <2>5 DEF RestInv
<1>9. OwedInv'
  <2>1. Len(frames[u]) = 1
    <3>1. StackOK(u, frames[u]) /\ "back" \notin Trapped(u)
      BY <1>1 DEF ScInv, StackInv, Trapped, IntrPcs, YieldPcs
    <3> QED
      BY <1>6, <3>1 DEF StackOK, Top
  <2>2. frames'[u][1].pc = "back"
    BY <1>1, <1>2, <1>6, <2>1 DEF Top
  <2> QED
    BY <2>2 DEF OwedInv, Owes, LooksAt
<1> QED
  BY <1>2, <1>4, <1>5, <1>7, <1>8, <1>9 DEF ScInv

\* The checks of sched() succeed when only p->lock is held, with interrupts off.
LEMMA SchedChecks ==
  ASSUME NEW c, NEW p, NEW s \in {"RUNNABLE", "SLEEPING"}, NEW k, sched(c, p, s, k),
         holder[p] = c, k.noff = 1, ~k.intr
  PROVE  kpanic' = ""
<1>1. k.intr = FALSE
  OBVIOUS
<1> QED
  BY <1>1 DEF sched

\* sleep() marks the process, releases tickslock and switches to the scheduler.
LEMMA SleepInv ==
  ASSUME ScInv, NEW c \in CPUs, Sleep(c) PROVE ScInv'
<1> DEFINE p == cur[c]
           f == At(c, "woken")
           o == cpu[c]
           k == pop_off(o)
<1>1. Top(p).pc = "sleep" /\ spin[c] = NoLock /\ Jump(c, "woken")
  BY DEF Sleep, Here
<1>2. p \in Kprocs /\ Own(p) = ProcPcs /\ p \in Locks /\ p # tickslock /\ tickslock \in Locks
  BY <1>1, Kinds, Names DEF ProcPcs
<1>3. f \in FrameType /\ f.pc = "woken" /\ Become(c, f)
  BY <1>1, JumpTop DEF Pcs, ProcPcs
<1>4. \A l \in Locks : holder[l] = c <=> l \in {tickslock, p}
  <2>1. Wants(p, Top(p)) = {tickslock, p}
    BY <1>1 DEF Wants, Away
  <2> QED
    BY <1>1, <2>1, Running, Names DEF LocksOK
<1>5. holder \in [Locks -> CPUs \cup {NoCpu}] /\ holder' = [holder EXCEPT ![tickslock] = NoCpu]
  BY DEF Sleep, ScInv, ScTypeOK
<1>6. \A l \in Locks : holder'[l] = IF l = tickslock THEN NoCpu ELSE holder[l]
  BY <1>5
<1>7. holder' \in [Locks -> CPUs \cup {NoCpu}]
  BY <1>5
<1>8. OthersKeep(c) /\ \A l \in Locks : holder'[l] = c <=> l = p
  <2>1. \A l \in Locks : holder'[l] = c <=> l = p
    BY <1>2, <1>4, <1>6, Names
  <2>2. spin' = spin
    BY DEF Sleep
  <2>3. \A d \in CPUs \ {c} : \A l \in Locks : holder'[l] = d <=> holder[l] = d
    BY <1>2, <1>4, <1>6, Names
  <2> QED
    BY <2>1, <2>2, <2>3 DEF OthersKeep
<1>9. k \in CpuType /\ k.noff = 1 /\ k.intr = FALSE /\ k.intena \in BOOLEAN
  <2>1. o \in CpuType /\ o.noff = 2
    BY <1>1, Running DEF CpuOK, Depth
  <2> HIDE DEF o
  <2>2. k \in CpuType /\ k.noff = o.noff - 1 /\ k.intr = (o.noff = 1 /\ o.intena)
    BY <2>1, PopOff
  <2> QED
    BY <2>1, <2>2 DEF CpuType
<1>10. sched(c, p, "SLEEPING", k)
  BY DEF Sleep
<1>11. /\ cpu' = [cpu EXCEPT ![c] = k] /\ cur' = [cur EXCEPT ![c] = Scheduler(c)]
       /\ pstate' = [pstate EXCEPT ![p] = "SLEEPING"] /\ spin' = spin
       /\ saved' = [saved EXCEPT ![p] = k.intena] /\ onticks' = onticks \cup {p}
       /\ UNCHANGED <<ticks, until, timer>>
  BY DEF Sleep, sched
<1> HIDE DEF k, f
<1>12. kpanic' = ""
  <2>1. holder[p] = c /\ ~k.intr /\ k.noff = 1
    BY <1>2, <1>4, <1>9
  <2> HIDE DEF p
  <2> QED
    BY <1>10, <2>1, SchedChecks
<1>13. ClockType'
  BY <1>2, <1>11, <1>12 DEF ScInv, ScTypeOK, ClockType
<1>14. saved' \in [Kprocs -> BOOLEAN] /\ \A q \in Kprocs \ {p} : saved'[q] = saved[q]
  BY <1>2, <1>9, <1>11 DEF ScInv, ScTypeOK
<1>15. Top(p).pc \in Own(p) /\ f.pc \in Own(p)
  BY <1>1, <1>2, <1>3 DEF ProcPcs
<1> HIDE DEF p
<1>16. p = cur[c] /\ f.pc # "yielded" /\ f.pc \in {"woken", "yielded"}
  BY <1>3 DEF p
<1> QED
  BY <1>1, <1>2, <1>3, <1>7, <1>8, <1>9, <1>11, <1>13, <1>14, <1>15, <1>16, SwitchBack

\* yield() makes the process RUNNABLE and switches to the scheduler.
LEMMA YieldingInv ==
  ASSUME ScInv, NEW c \in CPUs, Yielding(c) PROVE ScInv'
<1> DEFINE p == cur[c]
           f == At(c, "yielded")
           k == cpu[c]
<1>1. Top(p).pc = "yielding" /\ spin[c] = NoLock /\ Jump(c, "yielded")
  BY DEF Yielding, Here
<1>2. p \in Kprocs /\ YieldPcs \subseteq Trapped(p) /\ p \in Locks
  BY <1>1, Kinds, Names DEF YieldPcs
<1>3. f \in FrameType /\ f.pc = "yielded" /\ Become(c, f)
  BY <1>1, JumpTop DEF Pcs, YieldPcs
<1>4. \A l \in Locks : holder[l] = c <=> l = p
  <2>1. Wants(p, Top(p)) = {p}
    BY <1>1 DEF Wants, Away
  <2> QED
    BY <1>1, <2>1, Running, Names DEF LocksOK
<1>5. k \in CpuType /\ k.noff = 1 /\ k.intr = FALSE /\ k.intena = FALSE
  BY <1>1, Running DEF CpuOK, CpuType, Depth, Open, Shut
<1>6. sched(c, p, "RUNNABLE", k) /\ UNCHANGED <<cpu, spin, holder, onticks, ticks, until, timer>>
  BY DEF Yielding
<1>7. /\ cpu' = [cpu EXCEPT ![c] = k] /\ cur' = [cur EXCEPT ![c] = Scheduler(c)]
      /\ pstate' = [pstate EXCEPT ![p] = "RUNNABLE"] /\ spin' = spin /\ holder' = holder
      /\ saved' = [saved EXCEPT ![p] = k.intena]
  BY <1>6 DEF sched, ScInv, ScTypeOK
<1> HIDE DEF k, f
<1>8. kpanic' = ""
  <2>1. holder[p] = c /\ ~k.intr /\ k.noff = 1
    BY <1>2, <1>4, <1>5
  <2> HIDE DEF p
  <2> QED
    BY <1>6, <2>1, SchedChecks
<1>9. ClockType' /\ OthersKeep(c) /\ holder' \in [Locks -> CPUs \cup {NoCpu}]
  BY <1>6, <1>8 DEF ScInv, ScTypeOK, ClockType, OthersKeep
<1>10. /\ saved' \in [Kprocs -> BOOLEAN] /\ \A q \in Kprocs \ {p} : saved'[q] = saved[q]
       /\ saved'[p] = FALSE
  BY <1>2, <1>5, <1>7 DEF ScInv, ScTypeOK
<1>11. Top(p).pc \in Trapped(p) /\ f.pc \in Trapped(p)
  BY <1>1, <1>2, <1>3 DEF YieldPcs
<1> HIDE DEF p
<1>12. p = cur[c] /\ ~saved'[p] /\ f.pc \in {"woken", "yielded"}
       /\ \A l \in Locks : holder'[l] = c <=> l = p
  BY <1>3, <1>4, <1>7, <1>10 DEF p
<1> QED
  BY <1>1, <1>2, <1>3, <1>5, <1>7, <1>9, <1>10, <1>11, <1>12, SwitchBack

\* swtch() from the scheduler to the process it has found.
LEMMA SchedRunInv ==
  ASSUME ScInv, NEW c \in CPUs, SchedRun(c) PROVE ScInv'
<1> DEFINE u == cur[c]
           o == Top(u)
           p == Index(c)
           f == Ran(o)
<1>1. /\ o.pc = "look" /\ spin[c] = NoLock /\ pstate[p] = "RUNNABLE" /\ Become(c, f)
      /\ pstate' = [pstate EXCEPT ![p] = "RUNNING"]
      /\ cpu' = [cpu EXCEPT ![c].proc = p] /\ cur' = [cur EXCEPT ![c] = p]
      /\ UNCHANGED <<spin, holder, saved, onticks, ticks, until, timer, kpanic>>
  BY DEF SchedRun, Here
<1>2. /\ u \in Threads /\ o \in FrameType /\ p = o.i /\ p \in Kprocs /\ p \in Threads
      /\ u \notin Kprocs /\ u = Scheduler(c) /\ Own(u) = SchedPcs
  BY <1>1, Running, Kinds, Names DEF FrameType, Index, SchedPcs
<1>3. f \in FrameType /\ f.pc = "back" /\ f.found /\ f.i = p
  <2> HIDE DEF o
  <2> QED
    BY <1>2 DEF Ran, FrameType, Pcs, SchedPcs
<1> HIDE DEF f
<1>4. Len(frames[u]) = 1
  <2>1. StackOK(u, frames[u]) /\ "look" \notin Trapped(u)
    BY Running DEF Trapped, IntrPcs, YieldPcs
  <2> QED
    BY <1>1, <2>1 DEF StackOK, Top
<1>5. /\ StackInv' /\ frames' \in [Threads -> Seq(FrameType)]
      /\ \A v \in Threads : frames'[v][Len(frames'[v])] = IF v = u THEN f ELSE Top(v)
      /\ frames'[u][1] = f
  BY <1>1, <1>2, <1>3, <1>4, BecomeStack DEF SchedPcs
<1>6. /\ cur \in [CPUs -> Threads] /\ cpu \in [CPUs -> CpuType]
      /\ pstate \in [Kprocs -> {"RUNNABLE", "RUNNING", "SLEEPING"}]
      /\ spin \in [CPUs -> Locks \cup {NoLock}] /\ holder \in [Locks -> CPUs \cup {NoCpu}]
  BY DEF ScInv, ScTypeOK
<1> DEFINE k == [cpu[c] EXCEPT !.proc = p]
<1>7. cpu' = [cpu EXCEPT ![c] = k]
  BY <1>1
<1> HIDE DEF p
<1>8. k \in CpuType /\ k.noff = 1 /\ k.intr = FALSE /\ k.proc = p
  <2>1. cpu[c] \in CpuType /\ cpu[c].noff = 1 /\ cpu[c].intr = FALSE
    BY <1>1, Running DEF CpuOK, CpuType, Depth, Open
  <2>2. p \in 0..NPROC
    BY <1>2 DEF Kprocs
  <2> QED
    BY <2>1, <2>2 DEF CpuType
<1> HIDE DEF k
<1>9. /\ cur'[c] = p /\ cpu'[c] = k
      /\ \A d \in CPUs \ {c} : cur'[d] = cur[d] /\ cpu'[d] = cpu[d]
      /\ \A q \in Kprocs : pstate'[q] = IF q = p THEN "RUNNING" ELSE pstate[q]
  BY <1>1, <1>2, <1>6, <1>7
<1>10. ScTypeOK'
  BY <1>1, <1>2, <1>5, <1>6, <1>7, <1>8, ZenonT(40) DEF ScInv, ScTypeOK, ClockType
<1>11. \A d \in CPUs : cur[d] # p
  BY <1>1, <1>2 DEF ScInv, CurInv
<1>12. CurInv'
  <2>1. \A d \in CPUs : cur'[d] \in Kprocs \cup {Scheduler(d)}
    BY <1>2, <1>9 DEF ScInv, CurInv
  <2>2. \A d \in CPUs : cur'[d] \in Kprocs => pstate'[cur'[d]] = "RUNNING"
    BY <1>2, <1>9 DEF ScInv, CurInv
  <2>3. \A d, e \in CPUs : cur'[d] = cur'[e] => d = e
    BY <1>9, <1>11 DEF ScInv, CurInv
  <2> QED
    BY <2>1, <2>2, <2>3 DEF CurInv
<1>13. CpuInv'
  <2>1. CpuOK(p, Top(p), k) /\ LocksOK(c, p, Top(p), holder, NoLock)
    <3>1. Top(p).pc \in Away
      BY <1>2, <1>11 DEF ScInv, RestInv
    <3>2. Wants(p, Top(p)) = {p} /\ Wants(u, o) = {p}
      BY <1>1, <1>2, <3>1 DEF Wants, Away
    <3>3. LocksOK(c, p, Top(p), holder, NoLock)
      BY <1>1, <3>2, Running, Names DEF LocksOK
    <3>4. CpuOK(p, Top(p), k)
      BY <1>2, <1>8, <3>1 DEF CpuOK, Depth, Shut, Away
    <3> QED
      BY <3>3, <3>4
  <2>2. ASSUME NEW d \in CPUs
        PROVE  /\ CpuOK(cur'[d], Top(cur[d])', cpu'[d])
               /\ LocksOK(d, cur'[d], Top(cur[d])', holder', spin'[d])
    <3>1. CASE d = c
      <4>1. Top(cur[d])' = Top(p) /\ spin'[d] = NoLock /\ holder' = holder
        BY <1>1, <1>2, <1>5, <1>9, <3>1 DEF Top
      <4> QED
        BY <1>9, <2>1, <3>1, <4>1
    <3>2. CASE d # c
      <4>1. cur[d] \in Threads \ {u}
        BY <1>6, <3>2 DEF ScInv, CurInv
      <4>2. Top(cur[d])' = Top(cur[d])
        BY <1>5, <1>9, <3>2, <4>1 DEF Top
      <4>3. OthersKeep(c)
        BY <1>1 DEF OthersKeep
      <4> QED
        BY <1>9, <3>2, <4>2, <4>3, OthersRun
    <3> QED
      BY <3>1, <3>2
  <2> QED
    BY <2>2 DEF CpuInv
<1>14. RestInv'
  <2>1. \A v \in Threads : Top(v)' = IF v = u THEN f ELSE Top(v)
    BY <1>5 DEF Top
  <2>2. ASSUME NEW d \in CPUs, cur'[d] \in Kprocs
        PROVE  Top(Scheduler(d))'.pc = "back" /\ Top(Scheduler(d))'.i = cur'[d]
    <3>1. CASE d = c
      BY <1>2, <1>3, <1>9, <2>1, <3>1
    <3>2. CASE d # c
      <4>1. Scheduler(d) \in Threads /\ Scheduler(d) # u /\ cur'[d] = cur[d]
        BY <1>2, <1>9, <3>2, Names
      <4> QED
        BY <2>1, <2>2, <4>1 DEF ScInv, RestInv
    <3> QED
      BY <3>1, <3>2
  <2>3. ASSUME NEW q \in Kprocs, \A d \in CPUs : cur'[d] # q
        PROVE  Top(q)'.pc \in Away
    <3>1. \A d \in CPUs : cur[d] # q
      BY <1>2, <1>9, <2>3
    <3> QED
      BY <1>2, <2>1, <3>1, Names DEF ScInv, RestInv
  <2>4. ASSUME NEW q \in Kprocs, Top(q)'.pc = "yielded"
        PROVE  ~saved'[q]
    <3>1. Top(q).pc = "yielded" /\ saved' = saved
      BY <1>1, <1>2, <2>1, <2>4, Names
    <3> QED
      BY <3>1, Zenon DEF ScInv, RestInv
  <2> QED
    BY <2>2, <2>3, <2>4 DEF RestInv
<1>15. OwedInv'
  <2>1. frames'[Scheduler(c)][1].pc = "back"
    BY <1>2, <1>3, <1>5
  <2> QED
    BY <2>1 DEF OwedInv, Owes, LooksAt
<1> QED
  BY <1>5, <1>10, <1>12, <1>13, <1>14, <1>15 DEF ScInv

-----------------------------------------------------------------------------
(* Theorems                                                                *)

\* The initial states satisfy the invariant.
LEMMA ScInitInv ==
  ASSUME ScInit PROVE ScInv
<1>1. \A t \in Threads : frames[t] = <<Frame(IF t \in Kprocs THEN "forkret" ELSE "on")>>
  BY DEF ScInit
<1>2. /\ Frame("forkret") \in FrameType /\ Frame("forkret").pc = "forkret"
      /\ Frame("on") \in FrameType /\ Frame("on").pc = "on"
  BY FrameStarts DEF Pcs, SchedPcs, ProcPcs
<1>3. /\ \A p \in Kprocs : frames[p] = <<Frame("forkret")>> /\ Top(p) = Frame("forkret")
      /\ \A c \in CPUs : /\ cur[c] = Scheduler(c) /\ frames[cur[c]] = <<Frame("on")>>
                         /\ Top(cur[c]) = Frame("on") /\ frames[cur[c]][1] = Frame("on")
  BY <1>1, Names DEF Top, ScInit
<1>4. StackInv
  <2> SUFFICES ASSUME NEW t \in Threads PROVE StackOK(t, frames[t])
    BY DEF StackInv
  <2>1. CASE t \in Kprocs
    <3>1. frames[t] = <<Frame("forkret")>>
      BY <1>1, <2>1
    <3> QED
      BY <1>2, <2>1, <3>1 DEF StackOK, Own, ProcPcs
  <2>2. CASE t \notin Kprocs
    <3>1. frames[t] = <<Frame("on")>>
      BY <1>1, <2>2
    <3> QED
      BY <1>2, <2>2, <3>1 DEF StackOK, Own, SchedPcs
  <2> QED
    BY <2>1, <2>2
<1>5. ScTypeOK
  <2>1. frames \in [Threads -> Seq(FrameType)]
    <3>1. \A t \in Threads : frames[t] \in Seq(FrameType)
      BY <1>4 DEF StackInv, StackOK
    <3> QED
      BY <3>1 DEF ScInit
  <2>2. cur \in [CPUs -> Threads]
    BY Names DEF ScInit
  <2>3. [intr |-> FALSE, noff |-> 0, intena |-> FALSE, proc |-> 0] \in CpuType
    BY SchedAssumption DEF CpuType
  <2>4. cpu \in [CPUs -> CpuType]
    BY <2>3 DEF ScInit
  <2>5. [from |-> 0, n |-> 0] \in [from : 0..TWRAP - 1, n : SleepFor \cup {0}]
    BY SchedAssumption
  <2>6. until \in [Kprocs -> [from : 0..TWRAP - 1, n : SleepFor \cup {0}]]
    BY <2>5 DEF ScInit
  <2>7. ticks \in 0..TWRAP - 1
    <3>1. 0 \in 0..TWRAP - 1
      BY SchedAssumption
    <3> QED
      BY <3>1, Zenon DEF ScInit
  <2> QED
    BY <2>1, <2>2, <2>4, <2>6, <2>7 DEF ScInit, ScTypeOK, ClockType
<1>6. CurInv
  BY <1>3, Names DEF CurInv
<1>7. CpuInv
  <2> SUFFICES ASSUME NEW c \in CPUs
               PROVE  /\ CpuOK(cur[c], Top(cur[c]), cpu[c])
                      /\ LocksOK(c, cur[c], Top(cur[c]), holder, spin[c])
    BY DEF CpuInv
  <2>1. CpuOK(cur[c], Top(cur[c]), cpu[c])
    BY <1>2, <1>3, Names DEF ScInit, CpuOK, Depth, Away, Shut
  <2>2. Wants(cur[c], Top(cur[c])) = {}
    BY <1>2, <1>3 DEF Wants, Away
  <2>3. spin[c] = NoLock /\ \A l \in Locks : holder[l] # c
    BY Names DEF ScInit
  <2> QED
    BY <2>1, <2>2, <2>3, Names DEF LocksOK
<1>8. RestInv
  BY <1>2, <1>3, Names DEF RestInv, Away
<1>9. OwedInv
  <2>1. \A c \in CPUs, p \in Kprocs : Owes(c, p)
    BY <1>2, <1>3 DEF Owes, LooksAt
  <2>2. CPUs # {}
    BY SchedAssumption DEF CPUs
  <2> QED
    BY <2>1, <2>2 DEF OwedInv
<1> QED
  BY <1>4, <1>5, <1>6, <1>7, <1>8, <1>9 DEF ScInv

\* Every step of the CPUs keeps ScInv.
THEOREM SchedInvariant == ScSpec => []ScInv
<1>1. ScInit => ScInv
  BY ScInitInv
<1>2. ScInv /\ [ScNext]_scVars => ScInv'
  <2> SUFFICES ASSUME ScInv, [ScNext]_scVars PROVE ScInv'
    OBVIOUS
  <2>1. CASE UNCHANGED scVars
    BY <2>1 DEF scVars, ScInv, ScTypeOK, ClockType, StackInv, CurInv, CpuInv, RestInv,
                OwedInv, Owes, Top
  <2>2. ASSUME NEW c \in CPUs, ScStep(c) PROVE ScInv'
    BY <2>2, TakeInv, SchedOnInv, SchedOffInv, SchedLockInv, SchedRunInv, SchedNextInv,
       WfiInv, ForkretInv, LockTicksInv, SinceInv, SleepDoneInv, SleepLockInv, SleepInv,
       WokenInv, TrapInv, ClockintrInv, TickInv, WakeLockInv, WakeInv, ClockEndInv,
       AckInv, YieldInv, YieldingInv, YieldedInv, IretInv, Zenon
    DEF ScStep
  <2>3. ASSUME NEW c \in CPUs, Timer(c) PROVE ScInv'
    BY <2>3, TimerInv
  <2>4. ASSUME NEW c \in CPUs, NEW n \in SleepFor, SysSleep(c, n) PROVE ScInv'
    BY <2>4, SysSleepInv
  <2> QED
    BY <2>1, <2>2, <2>3, <2>4 DEF ScNext
<1> QED
  BY <1>1, <1>2, PTL DEF ScSpec

\* The state of the CPUs, locks, stacks, processes and the clock is well typed.
THEOREM SchedTypeCorrect == ScSpec => []ScTypeOK
<1>1. ScInv => ScTypeOK
  BY DEF ScInv
<1> QED
  BY <1>1, SchedInvariant, PTL

\* noff is the number of the locks of a CPU: those it holds, and the one it spins
\* for.
LEMMA LocksCounted ==
  ASSUME ScInv, NEW c \in CPUs
  PROVE  Cardinality({l \in Locks : holder[l] = c}) + (IF spin[c] = NoLock THEN 0 ELSE 1)
           = Depth(Top(cur[c]).pc)
<1> DEFINE t == cur[c]
           f == Top(t)
           W == Wants(t, f)
           H == {l \in Locks : holder[l] = c}
<1>1. /\ \A l \in Locks : holder[l] = c \/ spin[c] = l <=> l \in W
      /\ spin[c] \in Locks => holder[spin[c]] # c
      /\ spin[c] \in Locks \cup {NoLock}
  BY Running DEF LocksOK, ScInv, ScTypeOK
<1>2. \/ W = {} /\ Depth(f.pc) = 0
      \/ Depth(f.pc) = 1 /\ \E a \in Locks : W = {a}
      \/ Depth(f.pc) = 2 /\ \E a, b \in Locks : a # b /\ W = {a, b}
  <2>1. f \in FrameType /\ f.i \in Kprocs /\ f.i \in Locks /\ f.i # tickslock
    BY Running, Names DEF FrameType
  <2>2. f.pc \in Away \cup {"yielding", "sleep"} => t \in Locks /\ t # tickslock
    BY Kinds, Names DEF ProcPcs, YieldPcs, Away
  <2> HIDE DEF f, t
  <2> QED
    BY <2>1, <2>2, Names DEF Wants, Depth, Away, W
<1> HIDE DEF W
<1>3. H = IF spin[c] = NoLock THEN W \cap Locks ELSE (W \cap Locks) \ {spin[c]}
  BY <1>1, Names
<1>4. spin[c] # NoLock => spin[c] \in W
  BY <1>1
<1> HIDE DEF H
<1>5. /\ Cardinality({}) = 0
      /\ \A a : Cardinality({a}) = 1
      /\ \A a, b : a # b => Cardinality({a, b}) = 2
  <2>1. Cardinality({}) = 0
    BY FS_EmptySet
  <2>2. \A a : Cardinality({a}) = 1 /\ IsFiniteSet({a})
    BY FS_Singleton
  <2>3. ASSUME NEW a, NEW b, a # b PROVE Cardinality({a, b}) = 2
    <3>1. IsFiniteSet({a}) /\ Cardinality({a}) = 1 /\ b \notin {a} /\ {a, b} = {a} \cup {b}
      BY <2>2, <2>3
    <3>2. Cardinality({a} \cup {b}) = Cardinality({a}) + 1
      BY <3>1, FS_AddElement
    <3> QED
      BY <3>1, <3>2
  <2> QED
    BY <2>1, <2>2, <2>3
<1>6. CASE W = {} /\ Depth(f.pc) = 0
  <2>1. spin[c] = NoLock /\ H = {}
    BY <1>3, <1>4, <1>6
  <2> QED
    BY <1>5, <1>6, <2>1 DEF H
<1>7. CASE Depth(f.pc) = 1 /\ \E a \in Locks : W = {a}
  <2>1. PICK a \in Locks : W = {a}
    BY <1>7
  <2>2. H = (IF spin[c] = NoLock THEN {a} ELSE {})
    BY <1>3, <1>4, <2>1
  <2>3. Cardinality(H) = IF spin[c] = NoLock THEN 1 ELSE 0
    BY <1>5, <2>2
  <2> QED
    BY <1>7, <2>3 DEF H
<1>8. CASE Depth(f.pc) = 2 /\ \E a, b \in Locks : a # b /\ W = {a, b}
  <2>1. PICK a \in Locks, b \in Locks : a # b /\ W = {a, b}
    BY <1>8
  <2>2. CASE spin[c] = NoLock
    <3>1. H = {a, b}
      BY <1>3, <2>1, <2>2
    <3>2. Cardinality(H) = 2
      BY <1>5, <2>1, <3>1
    <3> QED
      BY <1>8, <2>2, <3>2 DEF H
  <2>3. CASE spin[c] # NoLock
    <3>1. H = {a} \/ H = {b}
      BY <1>3, <1>4, <2>1, <2>3
    <3>2. Cardinality(H) = 1
      BY <1>5, <3>1
    <3> QED
      BY <1>8, <2>3, <3>2 DEF H
  <2> QED
    BY <2>2, <2>3
<1> QED
  BY <1>2, <1>6, <1>7, <1>8

\* acquire(), release(), pop_off() and sched() never panic, whatever the timer
\* interrupts; push_off() nesting and the locks of a CPU agree, interrupts are on
\* only without locks, and no two CPUs run one process.
THEOREM LocksMatchIntrs == ScSpec => []IntrsMatchLocks
<1>1. ScInv => IntrsMatchLocks
  <2> SUFFICES ASSUME ScInv PROVE IntrsMatchLocks
    OBVIOUS
  <2>1. kpanic = ""
    BY DEF ScInv, ScTypeOK, ClockType
  <2>2. ASSUME NEW c \in CPUs
        PROVE  /\ cpu[c].noff = Depth(Top(cur[c]).pc)
               /\ cpu[c].intr => Depth(Top(cur[c]).pc) = 0
               /\ \A d \in CPUs \ {c} : cur[c] # cur[d]
    <3>1. CpuOK(cur[c], Top(cur[c]), cpu[c])
      BY Running
    <3>2. \A d \in CPUs \ {c} : cur[c] # cur[d]
      BY DEF ScInv, CurInv
    <3> QED
      BY <3>1, <3>2 DEF CpuOK, Depth, Open, Away
  <2> QED
    BY <2>1, <2>2, LocksCounted DEF IntrsMatchLocks
<1> QED
  BY <1>1, SchedInvariant, PTL

\* When every CPU waits in wfi no process is RUNNABLE: no wakeup() is lost to a
\* scan that had already passed the process.
THEOREM NoWorkWhenIdle == ScSpec => []IdleMeansNoWork
<1>1. ScInv => IdleMeansNoWork
  <2> SUFFICES ASSUME ScInv, \A c \in CPUs : Top(cur[c]).pc = "wfi",
                      NEW p \in Kprocs, pstate[p] = "RUNNABLE"
               PROVE  FALSE
    BY DEF IdleMeansNoWork
  <2>1. PICK c \in CPUs : Owes(c, p)
    BY DEF ScInv, OwedInv
  <2>2. cur[c] = Scheduler(c) /\ StackOK(cur[c], frames[cur[c]]) /\ Top(cur[c]).pc = "wfi"
    BY Kinds, Running DEF SchedPcs
  <2>3. Len(frames[cur[c]]) = 1
    <3>1. "wfi" \notin Trapped(cur[c])
      BY DEF Trapped, IntrPcs, YieldPcs
    <3> QED
      BY <2>2, <3>1 DEF StackOK, Top
  <2> QED
    BY <2>1, <2>2, <2>3 DEF Owes, LooksAt, Top
<1> QED
  BY <1>1, SchedInvariant, PTL

-----------------------------------------------------------------------------
(* Invariance and refinement proofs for Console, for every size of the         *)
(* buffer, every wrap of the indices that is a multiple of it, every set of    *)
(* readers and every length of a read.                                         *)
(*                                                                             *)
(* The argument: r, w and e are read as r, r + a and r + a + b, with a         *)
(* finished and b unfinished characters and a + b <= INPUT_BUF (IndexInv), so  *)
(* that no two characters held share a slot; who is asleep found r = w under   *)
(* cons.lock (LockInv, WaitInv); and the unfinished line has no newline in     *)
(* it (LineInv), which is what lets ^U and backspace stop at w.                *)

Chars == {"x", "nl", "eof", "nul"}

TypeInv ==
  /\ cbuf \in [0..INPUT_BUF - 1 -> Chars]
  /\ rpc \in [Readers -> {"idle", "call", "loop", "wait", "sleep", "done"}]
  /\ rn \in [Readers -> Nat] /\ got \in [Readers -> Seq(Chars)]

\* cons.r, cons.w and cons.e in this order on the circle, at most INPUT_BUF apart.
Indices(r, w, e) ==
  /\ r \in 0..CWRAP - 1 /\ w \in 0..CWRAP - 1 /\ e \in 0..CWRAP - 1
  /\ U(w - r) + U(e - w) = U(e - r) /\ U(e - r) <= INPUT_BUF
IndexInv == Indices(cr, cw, ce)

\* cons.lock is held between steps exactly by the reader inside its section.
LockInv == \A p \in Readers : clock = p <=> rpc[p] \in {"loop", "wait"}

\* Who is about to sleep, or sleeps, found no finished character.
WaitInv == \A p \in Readers : rpc[p] \in {"wait", "sleep"} => cr = cw

\* A read under way has not passed its newline; one that has not begun has nothing.
GotInv ==
  \A p \in Readers :
    /\ rpc[p] \notin {"done"} => got[p] = <<>> \/ got[p][Len(got[p])] # "nl"
    /\ rpc[p] = "idle" => got[p] = <<>>

\* n characters of the ring d, from index x on.
CsSlot(x) == x % INPUT_BUF
Seg(d, x, n) == [k \in 1..n |-> d[CsSlot(x + k - 1)]]
Store(d, x, c) == [d EXCEPT ![CsSlot(x)] = c]

\* The line being typed has no newline.
LineInv == \A k \in 1..U(ce - cw) : Seg(cbuf, cw, U(ce - cw))[k] # "nl"

CsInv == TypeInv /\ IndexInv /\ LockInv /\ WaitInv /\ GotInv /\ LineInv

-----------------------------------------------------------------------------
(* Indices that wrap                                                          *)

\* The sizes are positive numbers, the wrap beyond the size of the buffer.
LEMMA Sizes ==
  /\ INPUT_BUF \in Nat \ {0} /\ CWRAP \in Nat \ {0} /\ CWRAP > INPUT_BUF
BY ConsoleAssumption

USE Sizes

\* Near the circle, wrapping is at most one addition or subtraction.
LEMMA UIs ==
  ASSUME NEW x \in Int, 0 - CWRAP <= x, x < 2 * CWRAP
  PROVE  U(x) = IF x < 0 THEN x + CWRAP ELSE IF x < CWRAP THEN x ELSE x - CWRAP
<1>1. CASE x < 0
  <2>1. x = CWRAP * (-1) + (x + CWRAP) /\ x + CWRAP \in 0..CWRAP - 1 BY <1>1
  <2> QED BY <1>1, <2>1, ModUnique DEF U
<1>2. CASE 0 <= x /\ x < CWRAP
  <2>1. x = CWRAP * 0 + x /\ x \in 0..CWRAP - 1 BY <1>2
  <2> QED BY <1>2, <2>1, ModUnique DEF U
<1>3. CASE CWRAP <= x
  <2>1. x = CWRAP * 1 + (x - CWRAP) /\ x - CWRAP \in 0..CWRAP - 1 BY <1>3
  <2> QED BY <1>3, <2>1, ModUnique DEF U
<1> QED BY <1>1, <1>2, <1>3

\* The distances between the indices are numbers.
LEMMA Distances ==
  ASSUME NEW r, NEW w, NEW e, Indices(r, w, e)
  PROVE  /\ r \in Int /\ w \in Int /\ e \in Int
         /\ U(w - r) = IF r <= w THEN w - r ELSE w - r + CWRAP
         /\ U(e - w) = IF w <= e THEN e - w ELSE e - w + CWRAP
         /\ U(e - r) = IF r <= e THEN e - r ELSE e - r + CWRAP
         /\ U(w - r) \in Nat /\ U(e - w) \in Nat
         /\ U(w - r) + U(e - w) <= INPUT_BUF
<1> USE DEF Indices
<1>1. U(w - r) = IF r <= w THEN w - r ELSE w - r + CWRAP BY UIs
<1>2. U(e - w) = IF w <= e THEN e - w ELSE e - w + CWRAP BY UIs
<1>3. U(e - r) = IF r <= e THEN e - r ELSE e - r + CWRAP BY UIs
<1> QED BY <1>1, <1>2, <1>3

\* Typing a character into a buffer that has room.
LEMMA PutIndices ==
  ASSUME NEW r, NEW w, NEW e, Indices(r, w, e), U(e - r) < INPUT_BUF
  PROVE  /\ Indices(r, w, U(e + 1)) /\ U(U(e + 1) - w) = U(e - w) + 1
         /\ Indices(r, U(e + 1), U(e + 1)) /\ U(U(e + 1) - r) = U(e - r) + 1
         /\ U(U(e + 1) - U(e + 1)) = 0
         /\ U(e + 1) = U(r + INPUT_BUF) <=> U(e - r) + 1 = INPUT_BUF
<1> DEFINE v == U(e + 1)
           f == U(r + INPUT_BUF)
<1>9. /\ r \in Int /\ w \in Int /\ e \in Int
      /\ U(w - r) = (IF r <= w THEN w - r ELSE w - r + CWRAP)
      /\ U(e - w) = (IF w <= e THEN e - w ELSE e - w + CWRAP)
      /\ U(e - r) = (IF r <= e THEN e - r ELSE e - r + CWRAP)
      /\ U(w - r) \in Nat /\ U(e - w) \in Nat
      /\ U(w - r) + U(e - w) <= INPUT_BUF
  BY Distances
<1>1. v = IF e + 1 < CWRAP THEN e + 1 ELSE e + 1 - CWRAP BY UIs DEF Indices
<1>2. f = IF r + INPUT_BUF < CWRAP THEN r + INPUT_BUF ELSE r + INPUT_BUF - CWRAP
  BY UIs DEF Indices
<1>3. v \in 0..CWRAP - 1 BY <1>1 DEF Indices
<1> HIDE DEF v, f
<1>4. /\ U(v - w) = (IF w <= v THEN v - w ELSE v - w + CWRAP)
      /\ U(v - r) = (IF r <= v THEN v - r ELSE v - r + CWRAP)
      /\ U(v - v) = 0
  BY <1>3, UIs DEF Indices
<1>5. U(v - w) = U(e - w) + 1 /\ U(v - r) = U(e - r) + 1
  BY <1>1, <1>4, <1>9 DEF Indices
<1>6. Indices(r, w, v) /\ Indices(r, v, v)
  BY <1>3, <1>4, <1>5, <1>9 DEF Indices
<1>7. v = f <=> U(e - r) + 1 = INPUT_BUF
  BY <1>1, <1>2, <1>9 DEF Indices
<1> QED BY <1>4, <1>5, <1>6, <1>7 DEF v, f

\* Reading a character.
LEMMA TakeIndices ==
  ASSUME NEW r, NEW w, NEW e, Indices(r, w, e), r # w
  PROVE  /\ Indices(U(r + 1), w, e)
         /\ U(w - r) > 0 /\ U(w - U(r + 1)) = U(w - r) - 1
<1> DEFINE v == U(r + 1)
<1>9. /\ r \in Int /\ w \in Int /\ e \in Int
      /\ U(w - r) = (IF r <= w THEN w - r ELSE w - r + CWRAP)
      /\ U(e - w) = (IF w <= e THEN e - w ELSE e - w + CWRAP)
      /\ U(e - r) = (IF r <= e THEN e - r ELSE e - r + CWRAP)
      /\ U(w - r) \in Nat /\ U(e - w) \in Nat
      /\ U(w - r) + U(e - w) <= INPUT_BUF
  BY Distances
<1>1. v = IF r + 1 < CWRAP THEN r + 1 ELSE r + 1 - CWRAP BY UIs DEF Indices
<1>2. v \in 0..CWRAP - 1 BY <1>1 DEF Indices
<1> HIDE DEF v
<1>3. /\ U(w - v) = (IF v <= w THEN w - v ELSE w - v + CWRAP)
      /\ U(e - v) = (IF v <= e THEN e - v ELSE e - v + CWRAP)
  BY <1>2, UIs DEF Indices
<1>4. U(w - r) > 0 /\ U(w - v) = U(w - r) - 1 /\ U(e - v) = U(e - r) - 1
  BY <1>1, <1>3, <1>9 DEF Indices
<1>5. Indices(v, w, e) BY <1>2, <1>4, <1>9 DEF Indices
<1> QED BY <1>4, <1>5 DEF v

\* Erasing i characters of the line being typed.
LEMMA EraseIndices ==
  ASSUME NEW r, NEW w, NEW e, Indices(r, w, e), NEW i \in Nat, i <= U(e - w)
  PROVE  Indices(r, w, U(e - i)) /\ U(U(e - i) - w) = U(e - w) - i
<1> DEFINE v == U(e - i)
<1>0. i <= INPUT_BUF BY Distances
<1>9. /\ r \in Int /\ w \in Int /\ e \in Int
      /\ U(w - r) = (IF r <= w THEN w - r ELSE w - r + CWRAP)
      /\ U(e - w) = (IF w <= e THEN e - w ELSE e - w + CWRAP)
      /\ U(e - r) = (IF r <= e THEN e - r ELSE e - r + CWRAP)
      /\ U(w - r) \in Nat /\ U(e - w) \in Nat
      /\ U(w - r) + U(e - w) <= INPUT_BUF
  BY Distances
<1>1. v = IF e - i < 0 THEN e - i + CWRAP ELSE e - i BY <1>0, UIs DEF Indices
<1>2. v \in 0..CWRAP - 1 BY <1>0, <1>1 DEF Indices
<1> HIDE DEF v
<1>3. /\ U(v - w) = (IF w <= v THEN v - w ELSE v - w + CWRAP)
      /\ U(v - r) = (IF r <= v THEN v - r ELSE v - r + CWRAP)
  BY <1>2, UIs DEF Indices
<1>4. U(v - w) = U(e - w) - i /\ U(v - r) = U(e - r) - i
  BY <1>1, <1>3, <1>9 DEF Indices
<1>5. Indices(r, w, v) BY <1>2, <1>4, <1>9 DEF Indices
<1> QED BY <1>4, <1>5 DEF v

-----------------------------------------------------------------------------
(* The ring as a sequence                                                     *)

\* Wrapping an index does not change its slot.
LEMMA SlotWrap ==
  ASSUME NEW x \in Int, NEW j \in Int
  PROVE  CsSlot(U(x) + j) = CsSlot(x + j)
<1> DEFINE q == x \div CWRAP
           t == CWRAP \div INPUT_BUF
           m == U(x) + j
<1>1. q \in Int /\ x = CWRAP * q + U(x) /\ U(x) \in Int BY ModDef DEF U
<1>2. t \in Int /\ CWRAP = INPUT_BUF * t + 0 BY ModDef, ConsoleAssumption
<1>3. CWRAP * q \in Int /\ x + j = CWRAP * q + m /\ m \in Int
  BY <1>1
<1>4. (CWRAP * q) % INPUT_BUF = 0
  <2> HIDE DEF q, t
  <2>1. CWRAP * q = INPUT_BUF * (t * q) + 0 BY <1>1, <1>2
  <2>2. t * q \in Int /\ 0 \in 0..INPUT_BUF - 1 BY <1>1, <1>2
  <2> QED BY <1>3, <2>1, <2>2, ModUnique
<1> HIDE DEF q, m
<1>5. (CWRAP * q + m) % INPUT_BUF = m % INPUT_BUF BY <1>3, <1>4, ModAdd
<1> QED BY <1>3, <1>5 DEF m, CsSlot

\* Slots of the ring are in it.
LEMMA SlotIn ==
  ASSUME NEW x \in Int
  PROVE  CsSlot(x) \in 0..INPUT_BUF - 1
BY ModDef DEF CsSlot

\* A segment is a sequence of characters.
LEMMA SegIs ==
  ASSUME NEW d \in [0..INPUT_BUF - 1 -> Chars], NEW x \in Int, NEW n \in Nat
  PROVE  /\ Seg(d, x, n) \in Seq(Chars) /\ Len(Seg(d, x, n)) = n
         /\ \A k \in 1..n : Seg(d, x, n)[k] = d[CsSlot(x + k - 1)]
<1>1. \A k \in 1..n : d[CsSlot(x + k - 1)] \in Chars BY SlotIn
<1> QED BY <1>1 DEF Seg

\* The same segment from a wrapped index.
LEMMA SegWrap ==
  ASSUME NEW d, NEW x \in Int, NEW n \in Nat
  PROVE  Seg(d, U(x), n) = Seg(d, x, n)
<1>1. U(x) \in Int BY ModDef DEF U
<1>2. ASSUME NEW k \in 1..n
      PROVE  CsSlot(U(x) + k - 1) = CsSlot(x + k - 1)
  <2>1. U(x) + k - 1 = U(x) + (k - 1) /\ x + k - 1 = x + (k - 1) BY <1>1
  <2> QED BY <2>1, SlotWrap
<1> QED BY <1>2 DEF Seg

\* Storing behind a segment that leaves room appends to it.
LEMMA SegStore ==
  ASSUME NEW d \in [0..INPUT_BUF - 1 -> Chars], NEW x \in Int, NEW n \in Nat,
         n < INPUT_BUF, NEW c \in Chars
  PROVE  /\ Store(d, x + n, c) \in [0..INPUT_BUF - 1 -> Chars]
         /\ Seg(Store(d, x + n, c), x, n + 1) = Append(Seg(d, x, n), c)
<1> DEFINE e == [d EXCEPT ![CsSlot(x + n)] = c]
           s == Seg(d, x, n)
           t == Seg(e, x, n + 1)
<1>1. CsSlot(x + n) \in 0..INPUT_BUF - 1 BY SlotIn, x + n \in Int
<1>2. e \in [0..INPUT_BUF - 1 -> Chars] BY <1>1
<1>3. /\ s \in Seq(Chars) /\ Len(s) = n
      /\ \A k \in 1..n : s[k] = d[CsSlot(x + k - 1)] BY SegIs
<1>4. /\ t \in Seq(Chars) /\ Len(t) = n + 1
      /\ \A k \in 1..n + 1 : t[k] = e[CsSlot(x + k - 1)]
  <2> HIDE DEF e
  <2> QED BY <1>2, SegIs, n + 1 \in Nat
<1>5. ASSUME NEW k \in 1..n PROVE t[k] = s[k]
  <2>1. CsSlot(x + k - 1) # CsSlot(x + n)
    <3>1. x + k - 1 < x + n /\ x + n < (x + k - 1) + INPUT_BUF
          /\ x + k - 1 \in Int /\ x + n \in Int
      OBVIOUS
    <3> QED BY <3>1, ModDistinct DEF CsSlot
  <2>2. CsSlot(x + k - 1) \in 0..INPUT_BUF - 1 BY SlotIn
  <2>3. e[CsSlot(x + k - 1)] = d[CsSlot(x + k - 1)]
    BY <2>1, <2>2
  <2> HIDE DEF e, s, t
  <2> QED BY <1>3, <1>4, <2>3
<1>6. t[n + 1] = c
  <2>1. x + (n + 1) - 1 = x + n OBVIOUS
  <2>2. e[CsSlot(x + n)] = c BY <1>1
  <2> HIDE DEF e, s, t
  <2> QED BY <1>4, <2>1, <2>2
<1> HIDE DEF e, s, t
<1>7. t = Append(s, c)
  <2>1. /\ Append(s, c) \in Seq(Chars) /\ Len(Append(s, c)) = n + 1
        /\ \A k \in 1..n : Append(s, c)[k] = s[k]
        /\ Append(s, c)[n + 1] = c
    BY <1>3, AppendProperties
  <2>2. \A k \in 1..Len(t) : t[k] = Append(s, c)[k]
    <3> TAKE k \in 1..Len(t)
    <3>1. k \in 1..n \/ k = n + 1 BY <1>4
    <3> QED BY <1>5, <1>6, <2>1, <3>1
  <2> QED BY <1>4, <2>1, <2>2, SeqEqual
<1> QED BY <1>2, <1>7 DEF e, s, t, Store

\* Two adjacent segments are one.
LEMMA SegConcat ==
  ASSUME NEW d \in [0..INPUT_BUF - 1 -> Chars], NEW x \in Int,
         NEW m \in Nat, NEW n \in Nat
  PROVE  Seg(d, x, m + n) = Seg(d, x, m) \o Seg(d, x + m, n)
<1> DEFINE s == Seg(d, x, m)
           t == Seg(d, x + m, n)
           u == Seg(d, x, m + n)
<1>1. /\ s \in Seq(Chars) /\ Len(s) = m
      /\ \A k \in 1..m : s[k] = d[CsSlot(x + k - 1)] BY SegIs
<1>2. /\ t \in Seq(Chars) /\ Len(t) = n
      /\ \A k \in 1..n : t[k] = d[CsSlot(x + m + k - 1)] BY SegIs
<1>3. /\ u \in Seq(Chars) /\ Len(u) = m + n
      /\ \A k \in 1..m + n : u[k] = d[CsSlot(x + k - 1)] BY SegIs
<1> HIDE DEF s, t, u
<1> DEFINE v == s \o t
<1>4. /\ v \in Seq(Chars) /\ Len(v) = m + n
      /\ \A k \in 1..m + n : v[k] = IF k <= m THEN s[k] ELSE t[k - m]
  BY <1>1, <1>2, ConcatProperties, SMTT(30)
<1> HIDE DEF v
<1>5. ASSUME NEW k \in 1..m + n PROVE u[k] = v[k]
  <2>1. CASE k <= m
    <3>1. k \in 1..m BY <2>1
    <3> QED BY <1>1, <1>3, <1>4, <2>1, <3>1
  <2>2. CASE k > m
    <3>1. k - m \in 1..n /\ x + m + (k - m) - 1 = x + k - 1 BY <2>2
    <3>2. v[k] = t[k - m] BY <1>4, <2>2
    <3>3. t[k - m] = d[CsSlot(x + k - 1)] BY <1>2, <3>1
    <3> QED BY <1>3, <3>2, <3>3
  <2> QED BY <2>1, <2>2
<1>6. u = v BY <1>3, <1>4, <1>5, SeqEqual
<1> QED BY <1>6 DEF s, t, u, v

\* Reading takes the first character of a segment.
LEMMA SegTake ==
  ASSUME NEW d \in [0..INPUT_BUF - 1 -> Chars], NEW x \in Int, NEW n \in Nat,
         n > 0
  PROVE  /\ Seg(d, x, n) # <<>> /\ Head(Seg(d, x, n)) = d[CsSlot(x)]
         /\ Seg(d, x + 1, n - 1) = Tail(Seg(d, x, n))
<1> DEFINE s == Seg(d, x, n)
           t == Seg(d, x + 1, n - 1)
<1>1. /\ s \in Seq(Chars) /\ Len(s) = n
      /\ \A k \in 1..n : s[k] = d[CsSlot(x + k - 1)] BY SegIs
<1>2. /\ t \in Seq(Chars) /\ Len(t) = n - 1
      /\ \A k \in 1..n - 1 : t[k] = d[CsSlot(x + 1 + k - 1)]
  BY SegIs, x + 1 \in Int, n - 1 \in Nat
<1> HIDE DEF s, t
<1>3. s # <<>> BY <1>1
<1>4. Head(s) = d[CsSlot(x)]
  <2>1. x + 1 - 1 = x OBVIOUS
  <2> QED BY <1>1, <1>3, <2>1
<1>5. /\ Tail(s) \in Seq(Chars) /\ Len(Tail(s)) = n - 1
      /\ \A k \in 1..n - 1 : Tail(s)[k] = s[k + 1]
  BY <1>1, <1>3, HeadTailProperties
<1>6. ASSUME NEW k \in 1..n - 1 PROVE t[k] = Tail(s)[k]
  <2>1. k + 1 \in 1..n /\ x + (k + 1) - 1 = x + 1 + k - 1 OBVIOUS
  <2> QED BY <1>1, <1>2, <1>5, <2>1, ZenonT(40)
<1>7. t = Tail(s) BY <1>2, <1>5, <1>6, SeqEqual
<1> QED BY <1>3, <1>4, <1>7 DEF s, t

\* Erasing drops the last character of a segment.
LEMMA SegDrop ==
  ASSUME NEW d \in [0..INPUT_BUF - 1 -> Chars], NEW x \in Int, NEW n \in Nat,
         n > 0
  PROVE  /\ Seg(d, x, n) # <<>>
         /\ Seg(d, x, n - 1) = SubSeq(Seg(d, x, n), 1, Len(Seg(d, x, n)) - 1)
<1> DEFINE s == Seg(d, x, n)
           t == Seg(d, x, n - 1)
<1>1. /\ s \in Seq(Chars) /\ Len(s) = n
      /\ \A k \in 1..n : s[k] = d[CsSlot(x + k - 1)] BY SegIs
<1>2. /\ t \in Seq(Chars) /\ Len(t) = n - 1
      /\ \A k \in 1..n - 1 : t[k] = d[CsSlot(x + k - 1)] BY SegIs
<1> HIDE DEF s, t
<1>3. s # <<>> BY <1>1
<1> DEFINE v == SubSeq(s, 1, n - 1)
<1>4. /\ v \in Seq(Chars) /\ Len(v) = n - 1
      /\ \A k \in 1..n - 1 : v[k] = s[k]
  BY <1>1, SubSeqProperties
<1> HIDE DEF v
<1>5. t = v BY <1>1, <1>2, <1>4, SeqEqual
<1> QED BY <1>1, <1>3, <1>5 DEF s, t, v

\* A segment of no characters is empty.
LEMMA SegEmpty == ASSUME NEW d, NEW x PROVE Seg(d, x, 0) = <<>>
BY DEF Seg

\* Where w and e lie, counted from r.
LEMMA Slots ==
  ASSUME NEW d, NEW r, NEW w, NEW e, Indices(r, w, e), NEW n \in Nat
  PROVE  /\ CsSlot(e) = CsSlot(r + U(e - r)) /\ CsSlot(e) = CsSlot(w + U(e - w))
         /\ Seg(d, w, n) = Seg(d, r + U(w - r), n)
<1> DEFINE a == U(w - r)
           b == U(e - w)
           c == U(e - r)
<1>1. /\ r \in Int /\ w \in Int /\ e \in Int
      /\ a = (IF r <= w THEN w - r ELSE w - r + CWRAP)
      /\ b = (IF w <= e THEN e - w ELSE e - w + CWRAP)
      /\ c = (IF r <= e THEN e - r ELSE e - r + CWRAP)
  BY Distances
<1> HIDE DEF a, b, c
<1>2. U(r + a) = w /\ U(r + c) = e /\ U(w + b) = e
  BY <1>1, UIs DEF Indices
<1>3. a \in Int /\ b \in Int /\ c \in Int BY <1>1
<1>4. ASSUME NEW x \in Int PROVE U(x) \in Int /\ CsSlot(U(x)) = CsSlot(x)
  <2>1. U(x) \in Int BY ModDef DEF U
  <2>2. CsSlot(U(x) + 0) = CsSlot(x + 0) BY SlotWrap
  <2>3. U(x) + 0 = U(x) /\ x + 0 = x BY <2>1
  <2> QED BY <2>1, <2>2, <2>3
<1>5. CsSlot(e) = CsSlot(r + c) /\ CsSlot(e) = CsSlot(w + b) BY <1>1, <1>2, <1>3, <1>4
<1>6. Seg(d, U(r + a), n) = Seg(d, r + a, n) BY <1>1, <1>3, SegWrap
<1> QED BY <1>2, <1>5, <1>6 DEF a, b, c

\* A store behind a segment does not touch it.
LEMMA SegOther ==
  ASSUME NEW d \in [0..INPUT_BUF - 1 -> Chars], NEW x \in Int, NEW m \in Nat,
         m < INPUT_BUF, NEW n \in 0..m, NEW c \in Chars
  PROVE  Seg(Store(d, x + m, c), x, n) = Seg(d, x, n)
<1>1. ASSUME NEW k \in 1..n
      PROVE  [d EXCEPT ![CsSlot(x + m)] = c][CsSlot(x + k - 1)] = d[CsSlot(x + k - 1)]
  <2>1. CsSlot(x + k - 1) # CsSlot(x + m)
    <3>1. x + k - 1 < x + m /\ x + m < (x + k - 1) + INPUT_BUF
          /\ x + k - 1 \in Int /\ x + m \in Int
      OBVIOUS
    <3> QED BY <3>1, ModDistinct DEF CsSlot
  <2>2. CsSlot(x + k - 1) \in 0..INPUT_BUF - 1 BY SlotIn
  <2> QED BY <2>1, <2>2
<1> QED BY <1>1 DEF Seg, Store

\* Everything held once c has been typed.
HeldAfter(d, r, w, e, c) == Seg(d, r, U(w - r)) \o Append(Seg(d, w, U(e - w)), c)

\* consoleintr() storing a character: the finished part stays, the line grows, and
\* both together are what has been typed.
LEMMA PutEffect ==
  ASSUME NEW d \in [0..INPUT_BUF - 1 -> Chars], NEW r, NEW w, NEW e,
         Indices(r, w, e), U(e - r) < INPUT_BUF, NEW c \in Chars
  PROVE  /\ Store(d, e, c) \in [0..INPUT_BUF - 1 -> Chars]
         /\ Seg(Store(d, e, c), r, U(w - r)) = Seg(d, r, U(w - r))
         /\ Seg(Store(d, e, c), w, U(U(e + 1) - w)) = Append(Seg(d, w, U(e - w)), c)
         /\ Seg(Store(d, e, c), r, U(U(e + 1) - r)) = HeldAfter(d, r, w, e, c)
<1> DEFINE f == Store(d, e, c)
           a == U(w - r)
           b == U(e - w)
<1>1. /\ r \in Int /\ w \in Int /\ e \in Int /\ a \in Nat /\ b \in Nat
      /\ U(e - r) = a + b /\ a + b < INPUT_BUF
  BY Distances, ZenonT(40) DEF Indices
<1>2. U(U(e + 1) - w) = b + 1 /\ U(U(e + 1) - r) = a + b + 1
  <2>1. U(U(e + 1) - w) = b + 1 /\ U(U(e + 1) - r) = U(e - r) + 1
    BY PutIndices
  <2> HIDE DEF a, b
  <2> QED BY <1>1, <2>1
<1>3. CsSlot(e) = CsSlot(r + (a + b)) /\ CsSlot(e) = CsSlot(w + b)
  <2>1. CsSlot(e) = CsSlot(r + U(e - r)) /\ CsSlot(e) = CsSlot(w + U(e - w))
    BY Slots, 0 \in Nat, ZenonT(40)
  <2> QED BY <1>1, <2>1
<1>4. Seg(f, w, b + 1) = Seg(f, r + a, b + 1)
  <2>1. b + 1 \in Nat BY <1>1
  <2> HIDE DEF f
  <2> QED BY <2>1, Slots, Zenon
<1> HIDE DEF a, b
<1>5. f \in [0..INPUT_BUF - 1 -> Chars] /\ Seg(f, w, b + 1) = Append(Seg(d, w, b), c)
  <2>1. b < INPUT_BUF BY <1>1
  <2>2. f = Store(d, w + b, c) BY <1>3 DEF Store
  <2>3. /\ Store(d, w + b, c) \in [0..INPUT_BUF - 1 -> Chars]
        /\ Seg(Store(d, w + b, c), w, b + 1) = Append(Seg(d, w, b), c)
    BY <1>1, <2>1, SegStore, SMTT(30)
  <2> HIDE DEF f
  <2> QED BY <2>2, <2>3, Zenon
<1>6. Seg(f, r, a) = Seg(d, r, a)
  <2>1. a + b \in Nat /\ a \in 0..a + b BY <1>1
  <2>2. f = Store(d, r + (a + b), c) BY <1>3 DEF Store
  <2>3. Seg(Store(d, r + (a + b), c), r, a) = Seg(d, r, a)
    BY <1>1, <2>1, SegOther
  <2> HIDE DEF f
  <2> QED BY <2>2, <2>3, Zenon
<1> HIDE DEF f
<1>7. Seg(f, r, a + (b + 1)) = Seg(f, r, a) \o Seg(f, r + a, b + 1)
  <2>1. b + 1 \in Nat BY <1>1
  <2> QED BY <1>1, <1>5, <2>1, SegConcat, ZenonT(40)
<1>8. a + (b + 1) = a + b + 1 BY <1>1
<1> QED BY <1>2, <1>4, <1>5, <1>6, <1>7, <1>8 DEF a, b, f, HeldAfter

\* consoleread() taking a character: the first finished one, and no other.
LEMMA TakeEffect ==
  ASSUME NEW d \in [0..INPUT_BUF - 1 -> Chars], NEW r, NEW w, NEW e,
         Indices(r, w, e), r # w
  PROVE  /\ Seg(d, r, U(w - r)) # <<>>
         /\ Head(Seg(d, r, U(w - r))) = d[CsSlot(r)]
         /\ Seg(d, U(r + 1), U(w - U(r + 1))) = Tail(Seg(d, r, U(w - r)))
<1> DEFINE a == U(w - r)
<1>1. r \in Int /\ a \in Nat BY Distances
<1>2. a > 0 /\ U(w - U(r + 1)) = a - 1 BY TakeIndices
<1>3. r + 1 \in Int /\ a - 1 \in Nat BY <1>1, <1>2
<1> HIDE DEF a
<1>4. Seg(d, U(r + 1), a - 1) = Seg(d, r + 1, a - 1) BY <1>3, SegWrap
<1>5. /\ Seg(d, r, a) # <<>> /\ Head(Seg(d, r, a)) = d[CsSlot(r)]
      /\ Seg(d, r + 1, a - 1) = Tail(Seg(d, r, a))
  BY <1>1, <1>2, SegTake
<1> QED BY <1>2, <1>4, <1>5 DEF a

\* Backspace takes the last character of a line that has one.
LEMMA EraseEffect ==
  ASSUME NEW d \in [0..INPUT_BUF - 1 -> Chars], NEW r, NEW w, NEW e,
         Indices(r, w, e), e # w
  PROVE  LET line == Seg(d, w, U(e - w))
         IN /\ line # <<>> /\ U(e - w) > 0
            /\ Seg(d, w, U(U(e - 1) - w)) = SubSeq(line, 1, Len(line) - 1)
<1> DEFINE b == U(e - w)
<1>1. w \in Int /\ b \in Nat /\ b > 0
  <2>1. /\ w \in Int /\ e \in Int /\ b \in Nat
        /\ b = (IF w <= e THEN e - w ELSE e - w + CWRAP)
    BY Distances
  <2> HIDE DEF b
  <2> QED BY <2>1 DEF Indices
<1>2. U(U(e - 1) - w) = b - 1 BY <1>1, EraseIndices
<1> HIDE DEF b
<1>3. Seg(d, w, b) # <<>>
      /\ Seg(d, w, b - 1) = SubSeq(Seg(d, w, b), 1, Len(Seg(d, w, b)) - 1)
  BY <1>1, SegDrop
<1> QED BY <1>1, <1>2, <1>3 DEF b

-----------------------------------------------------------------------------
(* The steps of the console                                                   *)

\* The finished input and the line being typed.
Queue == Seg(cbuf, cr, U(cw - cr))
Pend == Seg(cbuf, cw, U(ce - cw))

\* What the code indexes is the segment.
LEMMA SliceIsSeg ==
  ASSUME NEW d, NEW x \in Int, NEW n \in Nat
  PROVE  [k \in 1..n |-> d[U(x + k - 1) % INPUT_BUF]] = Seg(d, x, n)
<1>1. ASSUME NEW k \in 1..n PROVE U(x + k - 1) % INPUT_BUF = CsSlot(x + k - 1)
  <2>1. x + k - 1 \in Int OBVIOUS
  <2>2. U(x + k - 1) \in Int BY <2>1, ModDef DEF U
  <2>3. U(x + k - 1) + 0 = U(x + k - 1) /\ (x + k - 1) + 0 = x + k - 1 BY <2>1, <2>2
  <2>4. CsSlot(U(x + k - 1) + 0) = CsSlot((x + k - 1) + 0) BY <2>1, SlotWrap
  <2> QED BY <2>3, <2>4 DEF CsSlot
<1> QED BY <1>1 DEF Seg

\* So the two sequences LineBuffer speaks of are Queue and Pend.
LEMMA SlicesAre ==
  ASSUME IndexInv
  PROVE  Slice(cr, U(cw - cr)) = Queue /\ Slice(cw, U(ce - cw)) = Pend
<1>1. cr \in Int /\ cw \in Int /\ U(cw - cr) \in Nat /\ U(ce - cw) \in Nat
  BY Distances DEF IndexInv
<1> QED BY <1>1, SliceIsSeg DEF Slice, Char, Queue, Pend

\* The same in the next state.
LEMMA SlicesAreNext ==
  ASSUME IndexInv'
  PROVE  Slice(cr, U(cw - cr))' = Queue' /\ Slice(cw, U(ce - cw))' = Pend'
<1>1. cr' \in Int /\ cw' \in Int /\ U(cw' - cr') \in Nat /\ U(ce' - cw') \in Nat
  BY Distances DEF IndexInv
<1> QED BY <1>1, SliceIsSeg DEF Slice, Char, Queue, Pend

\* The character read next is the first finished one.
LEMMA CharIs ==
  ASSUME NEW x \in Int
  PROVE  Char(x) = cbuf[CsSlot(x)]
<1>1. U(x) \in Int BY ModDef DEF U
<1>2. U(x) + 0 = U(x) /\ x + 0 = x BY <1>1
<1>3. CsSlot(U(x) + 0) = CsSlot(x + 0) BY SlotWrap
<1> QED BY <1>2, <1>3 DEF Char, CsSlot

\* Both are sequences of characters, of the lengths the indices say.
LEMMA Lengths ==
  ASSUME TypeInv, IndexInv
  PROVE  /\ Queue \in Seq(Chars) /\ Len(Queue) = U(cw - cr) /\ Len(Queue) \in Nat
         /\ Pend \in Seq(Chars) /\ Len(Pend) = U(ce - cw) /\ Len(Pend) \in Nat
         /\ Len(Queue) + Len(Pend) = U(ce - cr)
<1>1. cr \in Int /\ cw \in Int /\ U(cw - cr) \in Nat /\ U(ce - cw) \in Nat
  BY Distances DEF IndexInv
<1>2. cbuf \in [0..INPUT_BUF - 1 -> Chars] BY DEF TypeInv
<1>3. /\ Queue \in Seq(Chars) /\ Len(Queue) = U(cw - cr)
      /\ Pend \in Seq(Chars) /\ Len(Pend) = U(ce - cw)
  BY <1>1, <1>2, SegIs DEF Queue, Pend
<1> QED BY <1>1, <1>3 DEF IndexInv, Indices

\* ^U: the unfinished line has no newline, so the erasing stops at w exactly.
LEMMA KillStep ==
  ASSUME CsInv, IntrKill
  PROVE  CsInv' /\ Queue' = Queue /\ Pend' = <<>>
<1> DEFINE b == U(ce - cw)
<1>1. /\ cr \in Int /\ cw \in Int /\ ce \in Int /\ b \in Nat /\ b <= INPUT_BUF
  BY Distances DEF CsInv, IndexInv
<1>2. PICK i \in 0..INPUT_BUF : /\ i <= b
                                /\ i = b \/ Char(ce - i - 1) = "nl"
                                /\ ce' = U(ce - i)
  BY DEF IntrKill
<1>3. i = b
  <2>1. SUFFICES ASSUME i < b, Char(ce - i - 1) = "nl" PROVE FALSE BY <1>1, <1>2
  <2>2. cbuf[CsSlot(ce - i - 1)] = "nl" BY <1>1, <2>1, CharIs, ce - i - 1 \in Int
  <2>3. U(cw + b) = ce
    <3>1. b = IF cw <= ce THEN ce - cw ELSE ce - cw + CWRAP
      BY Distances DEF CsInv, IndexInv
    <3> HIDE DEF b
    <3> QED BY <1>1, <3>1, UIs DEF CsInv, IndexInv, Indices
  <2> HIDE DEF b
  <2>4. CsSlot(ce - i - 1) = CsSlot(cw + (b - i) - 1)
    <3>1. cw + b \in Int /\ 0 - i - 1 \in Int BY <1>1
    <3>2. CsSlot(U(cw + b) + (0 - i - 1)) = CsSlot((cw + b) + (0 - i - 1)) BY <3>1, SlotWrap
    <3>3. /\ ce + (0 - i - 1) = ce - i - 1
          /\ (cw + b) + (0 - i - 1) = cw + (b - i) - 1 BY <1>1
    <3> QED BY <2>3, <3>2, <3>3
  <2>5. b - i \in 1..b BY <1>1, <2>1
  <2>6. Seg(cbuf, cw, b)[b - i] = cbuf[CsSlot(cw + (b - i) - 1)]
    BY <1>1, <2>5, SegIs DEF CsInv, TypeInv
  <2>7. Seg(cbuf, cw, b)[b - i] # "nl" BY <2>5 DEF CsInv, LineInv, b
  <2> QED BY <2>2, <2>4, <2>6, <2>7
<1>4. Indices(cr, cw, ce') /\ U(ce' - cw) = 0
  <2>1. Indices(cr, cw, U(ce - b)) /\ U(U(ce - b) - cw) = b - b
    BY <1>1, EraseIndices DEF CsInv, IndexInv
  <2> QED BY <1>1, <1>2, <1>3, <2>1
<1>5. UNCHANGED <<cbuf, cr, cw, clock, rpc, rn, got, ckilled>> BY DEF IntrKill
<1>6. Queue' = Queue BY <1>5 DEF Queue
<1>7. Pend' = <<>> BY <1>4, <1>5, SegEmpty DEF Pend
<1>8. LineInv' BY <1>4, <1>5 DEF LineInv
<1> QED BY <1>4, <1>5, <1>6, <1>7, <1>8
        DEF CsInv, TypeInv, IndexInv, LockInv, WaitInv, GotInv

\* Backspace takes the last character of the line.
LEMMA BackspaceStep ==
  ASSUME CsInv, IntrBackspace
  PROVE  /\ CsInv' /\ Queue' = Queue /\ Pend # <<>>
         /\ Pend' = SubSeq(Pend, 1, Len(Pend) - 1)
<1> DEFINE b == U(ce - cw)
<1>1. /\ cw \in Int /\ ce \in Int /\ b \in Nat
      /\ cbuf \in [0..INPUT_BUF - 1 -> Chars]
  BY Distances DEF CsInv, IndexInv, TypeInv
<1>2. ce # cw /\ ce' = U(ce - 1)
      /\ UNCHANGED <<cbuf, cr, cw, clock, rpc, rn, got, ckilled>>
  BY DEF IntrBackspace
<1>3. /\ Seg(cbuf, cw, b) # <<>> /\ b > 0
      /\ Seg(cbuf, cw, U(U(ce - 1) - cw)) = SubSeq(Seg(cbuf, cw, b), 1, Len(Seg(cbuf, cw, b)) - 1)
  BY <1>1, <1>2, EraseEffect DEF CsInv, IndexInv
<1>4. Indices(cr, cw, ce') /\ U(ce' - cw) = b - 1
  <2>1. 1 \in Nat /\ 1 <= b BY <1>1, <1>3
  <2> QED BY <1>2, <2>1, EraseIndices DEF CsInv, IndexInv
<1>5. Queue' = Queue BY <1>2 DEF Queue
<1>6. Pend # <<>> /\ Pend' = SubSeq(Pend, 1, Len(Pend) - 1) BY <1>2, <1>3 DEF Pend
<1>7. LineInv'
  <2> SUFFICES ASSUME NEW k \in 1..b - 1 PROVE Seg(cbuf, cw, b - 1)[k] # "nl"
    BY <1>2, <1>4 DEF LineInv
  <2>1. k \in 1..b BY <1>1
  <2>2. Seg(cbuf, cw, b)[k] # "nl" BY <2>1 DEF CsInv, LineInv
  <2> HIDE DEF b
  <2>3. Seg(cbuf, cw, b)[k] = cbuf[CsSlot(cw + k - 1)] BY <1>1, <2>1, SegIs
  <2>4. Seg(cbuf, cw, b - 1)[k] = cbuf[CsSlot(cw + k - 1)]
    BY <1>1, <1>3, SegIs, b - 1 \in Nat
  <2> QED BY <2>2, <2>3, <2>4
<1> QED BY <1>2, <1>4, <1>5, <1>6, <1>7
        DEF CsInv, TypeInv, IndexInv, LockInv, WaitInv, GotInv

\* Typing: the character joins the line; a newline, a ^D or a buffer now full makes
\* the line finished and wakes the readers.
LEMMA CharStep ==
  ASSUME CsInv, NEW c \in Typed, IntrChar(c)
  PROVE  /\ CsInv' /\ Stored(c) \in {"x", "nl", "eof"} /\ U(ce - cr) < INPUT_BUF
         /\ WholeLine(Stored(c)) <=> \/ Stored(c) \in {"nl", "eof"}
                                     \/ U(ce - cr) + 1 = INPUT_BUF
         /\ Queue' = IF WholeLine(Stored(c)) THEN Queue \o Append(Pend, Stored(c)) ELSE Queue
         /\ Pend' = IF WholeLine(Stored(c)) THEN <<>> ELSE Append(Pend, Stored(c))
         /\ UNCHANGED got
<1> DEFINE s == Stored(c)
           whole == WholeLine(s)
<1>1. s \in {"x", "nl", "eof"} /\ s \in Chars BY DEF IntrChar, Typed, Stored, Chars
<1>2. /\ U(ce - cr) < INPUT_BUF /\ cbuf' = Store(cbuf, ce, s) /\ ce' = U(ce + 1)
      /\ UNCHANGED <<cr, clock, rn, got, ckilled>> /\ clock = NoReader
  BY DEF IntrChar, Room, Store, CsSlot
<1>3. \/ whole /\ cw' = U(ce + 1) /\ rpc' = wakeReaders(rpc)
      \/ ~whole /\ UNCHANGED <<cw, rpc>>
  BY DEF IntrChar
<1>4. /\ Indices(cr, cw, U(ce + 1)) /\ U(U(ce + 1) - cw) = U(ce - cw) + 1
      /\ Indices(cr, U(ce + 1), U(ce + 1)) /\ U(U(ce + 1) - U(ce + 1)) = 0
      /\ U(ce + 1) = U(cr + INPUT_BUF) <=> U(ce - cr) + 1 = INPUT_BUF
  BY <1>2, PutIndices DEF CsInv, IndexInv
<1>5. whole <=> s \in {"nl", "eof"} \/ U(ce - cr) + 1 = INPUT_BUF
  BY <1>4 DEF WholeLine
<1>6. cbuf \in [0..INPUT_BUF - 1 -> Chars] /\ Indices(cr, cw, ce)
  BY DEF CsInv, TypeInv, IndexInv
<1> HIDE DEF s
<1>7. /\ cbuf' \in [0..INPUT_BUF - 1 -> Chars]
      /\ Seg(cbuf', cr, U(cw - cr)) = Queue
      /\ Seg(cbuf', cw, U(U(ce + 1) - cw)) = Append(Pend, s)
      /\ Seg(cbuf', cr, U(U(ce + 1) - cr)) = Queue \o Append(Pend, s)
  <2>1. /\ Store(cbuf, ce, s) \in [0..INPUT_BUF - 1 -> Chars]
        /\ Seg(Store(cbuf, ce, s), cr, U(cw - cr)) = Seg(cbuf, cr, U(cw - cr))
        /\ Seg(Store(cbuf, ce, s), cw, U(U(ce + 1) - cw)) = Append(Seg(cbuf, cw, U(ce - cw)), s)
        /\ Seg(Store(cbuf, ce, s), cr, U(U(ce + 1) - cr)) = HeldAfter(cbuf, cr, cw, ce, s)
    <3>1. U(ce - cr) < INPUT_BUF /\ s \in Chars BY <1>1, <1>2
    <3> QED BY <1>6, <3>1, PutEffect
  <2> QED BY <1>2, <2>1 DEF Queue, Pend, HeldAfter
<1> HIDE DEF whole
<1>8. CASE whole
  <2>1. cw' = U(ce + 1) /\ rpc' = wakeReaders(rpc) BY <1>3, <1>8
  <2>2. Queue' = Queue \o Append(Pend, s) BY <1>2, <1>7, <2>1 DEF Queue
  <2>3. U(ce' - cw') = 0 BY <1>2, <1>4, <2>1
  <2>4. Pend' = <<>> BY <2>3, SegEmpty DEF Pend
  <2>5. LineInv' BY <2>3 DEF LineInv
  <2>6. TypeInv' BY <1>2, <1>7, <2>1 DEF CsInv, TypeInv, wakeReaders
  <2>7. IndexInv' BY <1>2, <1>4, <2>1 DEF IndexInv
  <2>8. \A p \in Readers : rpc'[p] = IF rpc[p] = "sleep" THEN "call" ELSE rpc[p]
    BY <2>1 DEF wakeReaders
  <2>9. \A p \in Readers : rpc[p] \notin {"loop", "wait"}
    BY <1>2, ConsoleAssumption DEF CsInv, LockInv
  <2>10. LockInv' /\ WaitInv' BY <1>2, <2>8, <2>9 DEF CsInv, LockInv, WaitInv
  <2>11. GotInv' BY <1>2, <2>8 DEF CsInv, GotInv
  <2> QED BY <1>1, <1>2, <1>5, <1>8, <2>2, <2>4, <2>5, <2>6, <2>7, <2>10, <2>11
          DEF CsInv, s, whole
<1>9. CASE ~whole
  <2>1. UNCHANGED <<cw, rpc>> BY <1>3, <1>9
  <2>2. Queue' = Queue BY <1>2, <1>7, <2>1 DEF Queue
  <2>3. U(ce' - cw') = U(ce - cw) + 1 BY <1>2, <1>4, <2>1
  <2>4. Pend' = Append(Pend, s) BY <1>2, <1>7, <2>1 DEF Pend
  <2>5. LineInv'
    <3>1. /\ Pend \in Seq(Chars) /\ Len(Pend) = U(ce - cw) /\ U(ce - cw) \in Nat
      BY Lengths DEF CsInv
    <3>2. /\ \A k \in 1..Len(Pend) : Append(Pend, s)[k] = Pend[k]
          /\ Append(Pend, s)[Len(Pend) + 1] = s
      BY <1>1, <3>1, AppendProperties
    <3>3. s # "nl" BY <1>5, <1>9
    <3> SUFFICES ASSUME NEW k \in 1..Len(Pend) + 1 PROVE Append(Pend, s)[k] # "nl"
      BY <2>3, <2>4, <3>1 DEF LineInv, Pend
    <3>4. CASE k \in 1..Len(Pend)
      <4>1. Pend[k] # "nl" BY <3>1, <3>4 DEF CsInv, LineInv, Pend
      <4> QED BY <3>2, <3>4, <4>1
    <3>5. CASE k = Len(Pend) + 1 BY <3>2, <3>3, <3>5
    <3> QED BY <3>1, <3>4, <3>5
  <2>6. TypeInv' BY <1>2, <1>7, <2>1 DEF CsInv, TypeInv
  <2>7. IndexInv' BY <1>2, <1>4, <2>1 DEF IndexInv
  <2>8. LockInv' /\ WaitInv' /\ GotInv'
    BY <1>2, <2>1 DEF CsInv, LockInv, WaitInv, GotInv
  <2> QED BY <1>1, <1>2, <1>5, <1>9, <2>2, <2>4, <2>5, <2>6, <2>7, <2>8
          DEF CsInv, s, whole
<1> QED BY <1>8, <1>9

\* A step of a reader that takes a character: the first finished one goes, the
\* rest of the input and the line being typed stay.
LEMMA TakeStep ==
  ASSUME CsInv, cr # cw, cr' = U(cr + 1), UNCHANGED <<cbuf, cw, ce>>
  PROVE  /\ IndexInv' /\ LineInv' /\ Pend' = Pend
         /\ Queue # <<>> /\ Head(Queue) = Char(cr) /\ Queue' = Tail(Queue)
         /\ Char(cr) \in Chars
<1>1. cbuf \in [0..INPUT_BUF - 1 -> Chars] /\ Indices(cr, cw, ce) /\ cr \in Int
  BY DEF CsInv, TypeInv, IndexInv, Indices
<1>2. Indices(cr', cw', ce') BY <1>1, TakeIndices
<1>3. /\ Queue # <<>> /\ Head(Queue) = cbuf[CsSlot(cr)] /\ Queue' = Tail(Queue)
  BY <1>1, TakeEffect DEF Queue
<1>4. Char(cr) = cbuf[CsSlot(cr)] /\ CsSlot(cr) \in 0..INPUT_BUF - 1 BY <1>1, CharIs, SlotIn
<1> QED BY <1>1, <1>2, <1>3, <1>4 DEF CsInv, IndexInv, LineInv, Pend

\* The steps of a read keep the invariant. The steps that take a character are
\* described by TakeStep.
LEMMA ReadInvariant ==
  ASSUME CsInv, NEW p \in Readers, ReadStep(p)
  PROVE  CsInv'
<1> USE DEF CsInv
<1> USE ConsoleAssumption
<1>1. CASE ReadLock(p)
  <2> USE <1>1 DEF ReadLock
  <2>1. TypeInv' BY DEF TypeInv
  <2>2. IndexInv' /\ LineInv' BY DEF IndexInv, LineInv
  <2>3. LockInv' /\ WaitInv' BY DEF TypeInv, LockInv, WaitInv
  <2>4. GotInv' BY DEF TypeInv, GotInv
  <2> QED BY <2>1, <2>2, <2>3, <2>4
<1>2. CASE ReadKilled(p)
  <2> USE <1>2 DEF ReadKilled, Leave
  <2>1. TypeInv' BY DEF TypeInv
  <2>2. IndexInv' /\ LineInv' BY DEF IndexInv, LineInv
  <2>3. LockInv' /\ WaitInv' BY DEF TypeInv, LockInv, WaitInv
  <2>4. GotInv' BY DEF TypeInv, GotInv
  <2> QED BY <2>1, <2>2, <2>3, <2>4
<1>3. CASE ReadWait(p)
  <2> USE <1>3 DEF ReadWait
  <2>1. TypeInv' BY DEF TypeInv
  <2>2. IndexInv' /\ LineInv' BY DEF IndexInv, LineInv
  <2>3. LockInv' /\ WaitInv' BY DEF TypeInv, LockInv, WaitInv
  <2>4. GotInv' BY DEF TypeInv, GotInv
  <2> QED BY <2>1, <2>2, <2>3, <2>4
<1>4. CASE ReadSleep(p)
  <2> USE <1>4 DEF ReadSleep
  <2>1. TypeInv' BY DEF TypeInv
  <2>2. IndexInv' /\ LineInv' BY DEF IndexInv, LineInv
  <2>3. LockInv' /\ WaitInv' BY DEF TypeInv, LockInv, WaitInv
  <2>4. GotInv' BY DEF TypeInv, GotInv
  <2> QED BY <2>1, <2>2, <2>3, <2>4
<1>5. CASE ReadFull(p)
  <2> USE <1>5 DEF ReadFull, Leave
  <2>1. TypeInv' BY DEF TypeInv
  <2>2. IndexInv' /\ LineInv' BY DEF IndexInv, LineInv
  <2>3. LockInv' /\ WaitInv' BY DEF TypeInv, LockInv, WaitInv
  <2>4. GotInv' BY DEF TypeInv, GotInv
  <2> QED BY <2>1, <2>2, <2>3, <2>4
<1>6. CASE ReadReturn(p)
  <2> USE <1>6 DEF ReadReturn
  <2>1. TypeInv' BY DEF TypeInv
  <2>2. IndexInv' /\ LineInv' BY DEF IndexInv, LineInv
  <2>3. LockInv' /\ WaitInv' BY DEF TypeInv, LockInv, WaitInv
  <2>4. GotInv' BY DEF TypeInv, GotInv
  <2> QED BY <2>1, <2>2, <2>3, <2>4
<1>7. CASE ReadEof(p)
  <2> USE <1>7 DEF ReadEof, Leave
  <2>1. TypeInv' BY DEF TypeInv
  <2>2. IndexInv' /\ LineInv'
    <3>1. CASE cr' = cr BY <3>1 DEF IndexInv, LineInv
    <3>2. CASE cr' = U(cr + 1) BY <3>2, TakeStep
    <3> QED BY <3>1, <3>2
  <2>3. \A q \in Readers : rpc[q] \in {"loop", "wait", "sleep"} => q = p
    BY DEF LockInv, WaitInv
  <2>4. LockInv' /\ WaitInv' BY <2>3 DEF TypeInv, LockInv, WaitInv
  <2>5. GotInv' BY DEF TypeInv, GotInv
  <2> QED BY <2>1, <2>2, <2>4, <2>5
<1>8. CASE ReadFault(p)
  <2> USE <1>8 DEF ReadFault, Leave
  <2>1. TypeInv' BY DEF TypeInv
  <2>2. IndexInv' /\ LineInv' BY TakeStep
  <2>3. \A q \in Readers : rpc[q] \in {"loop", "wait", "sleep"} => q = p
    BY DEF LockInv, WaitInv
  <2>4. LockInv' /\ WaitInv' BY <2>3 DEF TypeInv, LockInv, WaitInv
  <2>5. GotInv' BY DEF TypeInv, GotInv
  <2> QED BY <2>1, <2>2, <2>4, <2>5
<1>9. CASE ReadChar(p)
  <2> DEFINE c == Char(cr)
             s == got[p]
  <2>1. /\ rpc[p] = "loop" /\ rn[p] > 0 /\ cr # cw
        /\ got' = [got EXCEPT ![p] = Append(s, c)]
        /\ rn' = [rn EXCEPT ![p] = @ - 1]
        /\ UNCHANGED <<cbuf, cw, ce, ckilled>> /\ cr' = U(cr + 1)
        /\ \/ c = "nl" /\ clock' = NoReader /\ rpc' = [rpc EXCEPT ![p] = "done"]
           \/ c # "nl" /\ UNCHANGED <<clock, rpc>>
    BY <1>9 DEF ReadChar, Leave
  <2>2. IndexInv' /\ LineInv' /\ c \in Chars BY <2>1, TakeStep
  <2>3. s \in Seq(Chars) BY DEF TypeInv
  <2> HIDE DEF c, s
  <2>4. /\ Append(s, c) \in Seq(Chars) /\ Len(Append(s, c)) = Len(s) + 1
        /\ Append(s, c)[Len(s) + 1] = c
    BY <2>2, <2>3, AppendProperties
  <2>5. TypeInv'
    <3>1. rn[p] \in Nat /\ rn[p] - 1 \in Nat BY <2>1 DEF TypeInv
    <3>2. rn' \in [Readers -> Nat] BY <2>1, <3>1 DEF TypeInv
    <3>3. got' \in [Readers -> Seq(Chars)] BY <2>1, <2>4 DEF TypeInv
    <3> QED BY <2>1, <3>2, <3>3 DEF TypeInv
  <2>6. \A q \in Readers : rpc[q] \in {"loop", "wait", "sleep"} => q = p
    BY <2>1 DEF LockInv, WaitInv
  <2>7. LockInv' /\ WaitInv' BY <2>1, <2>6 DEF TypeInv, LockInv, WaitInv
  <2>8. GotInv'
    <3> SUFFICES ASSUME NEW q \in Readers
                 PROVE  /\ rpc'[q] \notin {"done"} => got'[q] = <<>> \/ got'[q][Len(got'[q])] # "nl"
                        /\ rpc'[q] = "idle" => got'[q] = <<>>
      BY DEF GotInv
    <3>1. CASE q # p
      <4>1. got'[q] = got[q] /\ rpc'[q] = rpc[q] BY <2>1, <3>1 DEF TypeInv
      <4> QED BY <4>1 DEF GotInv
    <3>2. CASE q = p
      <4>1. got'[q] = Append(s, c) BY <2>1, <3>2 DEF TypeInv
      <4>2. rpc'[q] \in {"done", "loop"} /\ (rpc'[q] = "loop" => c # "nl")
        BY <2>1, <3>2 DEF TypeInv
      <4> QED BY <2>4, <4>1, <4>2
    <3> QED BY <3>1, <3>2
  <2> QED BY <2>2, <2>5, <2>7, <2>8
<1> QED BY <1>1, <1>2, <1>3, <1>4, <1>5, <1>6, <1>7, <1>8, <1>9 DEF ReadStep

\* A call begins.
LEMMA CallInvariant ==
  ASSUME CsInv, NEW p \in Readers, NEW n \in ReadSizes, ReadCall(p, n)
  PROVE  CsInv'
<1>1. TypeInv' BY ConsoleAssumption DEF CsInv, ReadCall, TypeInv
<1>2. IndexInv' /\ LineInv' BY DEF CsInv, ReadCall, IndexInv, LineInv
<1>3. LockInv' /\ WaitInv' /\ GotInv'
  BY DEF CsInv, ReadCall, TypeInv, LockInv, WaitInv, GotInv
<1> QED BY <1>1, <1>2, <1>3 DEF CsInv

\* kill(): a sleeper is sent back to the test of r and w.
LEMMA KilledInvariant ==
  ASSUME CsInv, NEW p \in Readers, CsKill(p)
  PROVE  CsInv'
<1>1. TypeInv' BY DEF CsInv, CsKill, TypeInv
<1>2. IndexInv' /\ LineInv' BY DEF CsInv, CsKill, IndexInv, LineInv
<1>3. LockInv' /\ WaitInv' /\ GotInv'
  BY DEF CsInv, CsKill, TypeInv, LockInv, WaitInv, GotInv
<1> QED BY <1>1, <1>2, <1>3 DEF CsInv

\* Nothing typed, nobody reading.
LEMMA InitInvariant == CsInit => CsInv /\ Queue = <<>> /\ Pend = <<>>
<1> SUFFICES ASSUME CsInit PROVE CsInv /\ Queue = <<>> /\ Pend = <<>> OBVIOUS
<1>1. TypeInv BY DEF CsInit, TypeInv, Chars
<1>2. U(0 - 0) = 0 BY UIs
<1>3. IndexInv BY <1>2 DEF CsInit, IndexInv, Indices
<1>4. LineInv BY <1>2 DEF CsInit, LineInv
<1>5. LockInv /\ WaitInv /\ GotInv
  BY ConsoleAssumption DEF CsInit, LockInv, WaitInv, GotInv
<1>6. Queue = <<>> /\ Pend = <<>> BY <1>2, SegEmpty DEF CsInit, Queue, Pend
<1> QED BY <1>1, <1>3, <1>4, <1>5, <1>6 DEF CsInv

\* Every step keeps the invariant.
LEMMA StepInvariant == CsInv /\ [CsNext]_csVars => CsInv'
<1> SUFFICES ASSUME CsInv, [CsNext]_csVars PROVE CsInv' OBVIOUS
<1>1. CASE UNCHANGED csVars
  BY <1>1 DEF csVars, CsInv, TypeInv, IndexInv, LockInv, WaitInv, GotInv, LineInv
<1>2. CASE IntrKill BY <1>2, KillStep
<1>3. CASE IntrBackspace BY <1>3, BackspaceStep
<1>4. CASE \E c \in Typed : IntrChar(c) BY <1>4, CharStep
<1>5. CASE \E p \in Readers, n \in ReadSizes : ReadCall(p, n) BY <1>5, CallInvariant
<1>6. CASE \E p \in Readers : ReadStep(p) \/ CsKill(p)
  BY <1>6, ReadInvariant, KilledInvariant
<1> QED BY <1>1, <1>2, <1>3, <1>4, <1>5, <1>6 DEF CsNext

\* The inductive invariant holds in every state of consoleintr() and consoleread().
THEOREM ConsoleInvariant == CsSpec => []CsInv
<1>1. CsInit => CsInv BY InitInvariant
<1> QED BY <1>1, StepInvariant, PTL DEF CsSpec

\* However typing, reads and kill() interleave and the indices wrap, no reader
\* sleeps while a finished character is in cons.buf: consoleintr()'s wakeup is
\* never lost, and no reader that leaves part of a line leaves a sleeper behind.
THEOREM NoReaderSleepsBesideLine == CsSpec => []NoSleepBesideLine
<1>1. CsInv => NoSleepBesideLine BY DEF CsInv, WaitInv, NoSleepBesideLine
<1> QED BY <1>1, ConsoleInvariant, PTL

-----------------------------------------------------------------------------
(* The console is a line buffer                                               *)

\* Each step of the console is a step of LineBuffer, or leaves its state alone.
LEMMA StepImplements ==
  ASSUME CsInv, CsInv', [CsNext]_csVars
  PROVE  [LB!LbNext]_(LB!lbVars)
<1> DEFINE q == Slice(cr, U(cw - cr))
           l == Slice(cw, U(ce - cw))
<1>1. q = Queue /\ l = Pend /\ q' = Queue' /\ l' = Pend'
  BY SlicesAre, SlicesAreNext DEF CsInv
<1> DEFINE Same == Queue' = Queue /\ Pend' = Pend /\ got' = got
<1>2. ASSUME Same PROVE UNCHANGED LB!lbVars BY <1>1, <1>2 DEF LB!lbVars
<1>3. CASE UNCHANGED csVars
  <2>1. Same BY <1>3 DEF csVars, Queue, Pend
  <2> QED BY <1>2, <2>1
<1>4. CASE IntrKill
  <2>1. Queue' = Queue /\ Pend' = <<>> /\ got' = got BY <1>4, KillStep DEF IntrKill
  <2>2. CASE Pend = <<>> BY <1>2, <2>1, <2>2
  <2>3. CASE Pend # <<>>
    <3>1. LB!LbErase BY <1>1, <2>1, <2>3 DEF LB!LbErase
    <3> QED BY <3>1 DEF LB!LbNext
  <2> QED BY <2>2, <2>3
<1>5. CASE IntrBackspace
  <2>1. /\ Queue' = Queue /\ Pend # <<>> /\ Pend' = SubSeq(Pend, 1, Len(Pend) - 1)
        /\ got' = got
    BY <1>5, BackspaceStep DEF IntrBackspace
  <2>2. LB!LbErase BY <1>1, <2>1 DEF LB!LbErase
  <2> QED BY <2>2 DEF LB!LbNext
<1>6. ASSUME NEW c \in Typed, IntrChar(c) PROVE LB!LbNext
  <2> DEFINE s == Stored(c)
             whole == WholeLine(s)
  <2>1. /\ s \in {"x", "nl", "eof"} /\ U(ce - cr) < INPUT_BUF
        /\ whole <=> s \in {"nl", "eof"} \/ U(ce - cr) + 1 = INPUT_BUF
        /\ Queue' = IF whole THEN Queue \o Append(Pend, s) ELSE Queue
        /\ Pend' = IF whole THEN <<>> ELSE Append(Pend, s)
        /\ UNCHANGED got
    BY <1>6, CharStep
  <2>2. Len(Queue) + Len(Pend) = U(ce - cr) BY Lengths DEF CsInv
  <2> HIDE DEF s, whole
  <2>3. whole <=> LB!Finishes(s) BY <1>1, <2>1, <2>2 DEF LB!Finishes
  <2> HIDE DEF q, l
  <2>4. LB!LbType(s) BY <1>1, <2>1, <2>2, <2>3 DEF LB!LbType, q, l
  <2> QED BY <2>1, <2>4 DEF LB!LbNext, LB!Plain
<1>7. ASSUME NEW p \in Readers, NEW n \in ReadSizes, ReadCall(p, n) PROVE Same
  BY <1>7 DEF ReadCall, Queue, Pend
<1>8. ASSUME NEW p \in Readers, CsKill(p) PROVE Same
  BY <1>8 DEF CsKill, Queue, Pend
<1>9. ASSUME NEW p \in Readers,
             ReadLock(p) \/ ReadKilled(p) \/ ReadWait(p) \/ ReadSleep(p) \/ ReadFull(p)
      PROVE  Same
  BY <1>9 DEF ReadLock, ReadKilled, ReadWait, ReadSleep, ReadFull, Queue, Pend
<1>10. ASSUME NEW p \in Readers, ReadReturn(p) PROVE Same \/ LB!LbNext
  <2>1. Queue' = Queue /\ Pend' = Pend /\ got' = [got EXCEPT ![p] = <<>>]
    BY <1>10 DEF ReadReturn, Queue, Pend
  <2>2. CASE got[p] = <<>> BY <2>1, <2>2 DEF CsInv, TypeInv
  <2>3. CASE got[p] # <<>>
    <3>1. LB!LbReturn(p) BY <1>1, <2>1, <2>3 DEF LB!LbReturn
    <3> QED BY <3>1 DEF LB!LbNext
  <2> QED BY <2>2, <2>3
<1>11. ASSUME NEW p \in Readers, ReadEof(p) PROVE Same \/ LB!LbNext
  <2>1. CASE got[p] # <<>> BY <1>11, <2>1 DEF ReadEof, Queue, Pend
  <2>2. CASE got[p] = <<>>
    <3>1. /\ Pend' = Pend /\ Queue # <<>> /\ Head(Queue) = "eof" /\ Queue' = Tail(Queue)
          /\ got' = got
      BY <1>11, <2>2, TakeStep DEF ReadEof
    <3>2. LB!LbRead(p) BY <1>1, <2>2, <3>1 DEF LB!LbRead
    <3> QED BY <3>2 DEF LB!LbNext
  <2> QED BY <2>1, <2>2
<1>12. ASSUME NEW p \in Readers, ReadFault(p) PROVE LB!LbNext
  <2>1. /\ Pend' = Pend /\ Queue # <<>> /\ Head(Queue) # "eof" /\ Queue' = Tail(Queue)
        /\ got' = got
    BY <1>12, TakeStep DEF ReadFault
  <2>2. LB!LbLose BY <1>1, <2>1 DEF LB!LbLose
  <2> QED BY <2>2 DEF LB!LbNext
<1>13. ASSUME NEW p \in Readers, ReadChar(p) PROVE LB!LbNext
  <2>1. /\ Pend' = Pend /\ Queue # <<>> /\ Head(Queue) # "eof" /\ Queue' = Tail(Queue)
        /\ got' = [got EXCEPT ![p] = Append(@, Head(Queue))]
    BY <1>13, TakeStep DEF ReadChar
  <2>2. got[p] = <<>> \/ got[p][Len(got[p])] # "nl"
    BY <1>13 DEF ReadChar, CsInv, GotInv
  <2>3. LB!LbRead(p) BY <1>1, <2>1, <2>2 DEF LB!LbRead
  <2> QED BY <2>3 DEF LB!LbNext
<1> HIDE DEF Same
<1>14. Same \/ LB!LbNext \/ UNCHANGED LB!lbVars
  BY <1>3, <1>4, <1>5, <1>6, <1>7, <1>8, <1>9, <1>10, <1>11, <1>12, <1>13
     DEF CsNext, ReadStep
<1> QED BY <1>2, <1>14

\* The console keeps what LineBuffer promises, for every size of the buffer, every
\* number of readers and every interleaving: no finished character is lost,
\* repeated, erased or read early, and no read goes past its line or returns a ^D.
THEOREM ConsoleIsLineBuffer == CsSpec => IsLineBuffer
<1>1. CsInit => LB!LbInit
  <2> SUFFICES ASSUME CsInit PROVE LB!LbInit OBVIOUS
  <2>1. CsInv /\ Queue = <<>> /\ Pend = <<>> BY InitInvariant
  <2>2. Slice(cr, U(cw - cr)) = Queue /\ Slice(cw, U(ce - cw)) = Pend
    BY <2>1, SlicesAre DEF CsInv
  <2> QED BY <2>1, <2>2 DEF LB!LbInit, CsInit
<1>2. CsInv /\ CsInv' /\ [CsNext]_csVars => [LB!LbNext]_(LB!lbVars) BY StepImplements
<1> QED BY <1>1, <1>2, ConsoleInvariant, PTL DEF CsSpec, IsLineBuffer, LB!LbSpec

-----------------------------------------------------------------------------
(* Invariance proofs for Virtio, for every number of descriptors, every width *)
(* of the ring indices that NUM divides, and every set of buffers.            *)
(*                                                                            *)
(* VdInv: ChainInv gives each call in progress a chain of three descriptors;   *)
(* OwnerInv divides the descriptors between the chains and the free list;     *)
(* PlaceInv puts the head of a chain whose b->disk is set into one place: the *)
(* available ring, the device or the used ring; RingInv says which cells of a *)
(* ring are occupied, given its two indices.  There are more descriptors than *)
(* chains, so no ring is ever full: that is why indices compared modulo NUM   *)
(* tell an empty ring from a full one.                                        *)

Heads == {NUM} \cup Desc       \* what a cell of a ring holds: a head, or NUM

VdTypeOK ==
  /\ vfree \subseteq Desc
  /\ desc \in [Desc -> [b : Bufs \cup {NoBuf}, next : SUBSET Desc]]
  /\ info \in [Desc -> Bufs \cup {NoBuf}]
  /\ avail \in [ring : [Desc -> Heads], idx : 0..VWRAP - 1]
  /\ used \in [ring : [Desc -> Heads], id : 0..VWRAP - 1]
  /\ used_idx \in Desc
  /\ dev \in [last : 0..VWRAP - 1, busy : SUBSET Desc]
  /\ bdisk \subseteq Bufs /\ moved \subseteq Bufs
  /\ vpc \in [Bufs -> {"idle", "alloc", "freesleep", "bufsleep", "wait"}]
  /\ idx \in [Bufs -> SUBSET Desc]
  /\ vintr \in BOOLEAN /\ vpanic = FALSE

\* The chain of buffer b is h, m, l.
IsChain(b, h, m, l) ==
  /\ h # m /\ h # l /\ m # l
  /\ idx[b] = {h} /\ info[h] = b
  /\ desc[h] = [b |-> b, next |-> {m}]
  /\ desc[m] = [b |-> b, next |-> {l}]
  /\ desc[l] = [b |-> b, next |-> {}]

\* A call that has descriptors has one chain; b->disk is set only then.
ChainInv ==
  /\ \A b \in Bufs : IF vpc[b] \in {"bufsleep", "wait"}
                       THEN \E h, m, l \in Desc : IsChain(b, h, m, l)
                       ELSE idx[b] = {}
  /\ \A b \in bdisk : vpc[b] \in {"bufsleep", "wait"}

OwnerInv ==
  /\ \A i \in Desc : i \in vfree \/ \E b \in Bufs : i \in Held(b)
  /\ \A b \in Bufs : Held(b) \cap vfree = {}
  /\ \A b, c \in Bufs : b # c => Held(b) \cap Held(c) = {}

\* A ring with q occupied cells from index a on.
RingOK(r, a, q) ==
  \A j \in 0..NUM - 1 : r[(a + j) % NUM] # NUM <=> j < q
RingInv ==
  /\ \E q \in 0..NUM - 1 : /\ avail.idx = (dev.last + q) % VWRAP
                           /\ RingOK(avail.ring, dev.last, q)
  /\ \E n \in 0..NUM - 1 : /\ used.id % NUM = (used_idx + n) % NUM
                           /\ RingOK(used.ring, used_idx, n)

\* No head is in two cells of a ring.
OnceIn(r) == \A i, j \in Desc : r[i] = r[j] /\ r[i] # NUM => i = j

PlaceInv ==
  /\ OnceIn(avail.ring) /\ OnceIn(used.ring)
  /\ Queued \cap dev.busy = {} /\ Queued \cap Finished = {} /\ dev.busy \cap Finished = {}
  /\ UNION {idx[b] : b \in bdisk} = Queued \cup dev.busy \cup Finished

\* What has been transferred.
MovedInv ==
  /\ \A b \in Bufs : idx[b] # {} /\ b \notin bdisk => b \in moved
  /\ \A b \in Bufs : idx[b] \cap Finished # {} => b \in moved

VdInv == VdTypeOK /\ ChainInv /\ OwnerInv /\ RingInv /\ PlaceInv /\ MovedInv

\* The head of every chain whose b->disk is set.
Active == UNION {idx[b] : b \in bdisk}

-----------------------------------------------------------------------------
(* Chains: alloc3_desc() takes the three least free descriptors.           *)

Below(S, i) == {j \in S : j < i}
First3(S, x, y, z) ==
  /\ IsFiniteSet(S) /\ S \subseteq Int
  /\ x \in S /\ y \in S /\ z \in S /\ x < y /\ y < z
  /\ \A j \in S : j \in {x, y, z} \/ z < j
Low3(S) == {i \in S : Cardinality(Below(S, i)) < 3}

\* Sets given by their members.
LEMMA CardPair ==
  ASSUME NEW x, NEW y, x # y
  PROVE  IsFiniteSet({x, y}) /\ Cardinality({x, y}) = 2
<1>1. IsFiniteSet({x}) /\ Cardinality({x}) = 1
  BY FS_Singleton
<1>2. y \notin {x}
  OBVIOUS
<1>3. IsFiniteSet({x} \cup {y}) /\ Cardinality({x} \cup {y}) = 1 + 1
  BY <1>1, <1>2, FS_AddElement
<1>4. {x} \cup {y} = {x, y}
  OBVIOUS
<1> QED BY <1>3, <1>4

\* Three different elements make a set of three.
LEMMA CardTriple ==
  ASSUME NEW x, NEW y, NEW z, x # y, y # z, x # z
  PROVE  IsFiniteSet({x, y, z}) /\ Cardinality({x, y, z}) = 3
<1>1. IsFiniteSet({x, y}) /\ Cardinality({x, y}) = 2
  BY CardPair
<1>2. z \notin {x, y}
  OBVIOUS
<1>3. IsFiniteSet({x, y} \cup {z}) /\ Cardinality({x, y} \cup {z}) = 2 + 1
  BY <1>1, <1>2, FS_AddElement
<1>4. {x, y} \cup {z} = {x, y, z}
  OBVIOUS
<1> QED BY <1>3, <1>4

\* The members of a set of numbers with none, one and two others below them.
LEMMA Nth3 ==
  ASSUME NEW S, NEW x, NEW y, NEW z, First3(S, x, y, z)
  PROVE  /\ Nth(S, 0) = x /\ Nth(S, 1) = y /\ Nth(S, 2) = z
         /\ Low3(S) = {x, y, z}
<1>0. /\ x \in Int /\ y \in Int /\ z \in Int /\ x < y /\ y < z
      /\ x \in S /\ y \in S /\ z \in S
      /\ IsFiniteSet(S) /\ S \subseteq Int
      /\ \A j \in S : j \in {x, y, z} \/ z < j
  BY DEF First3
<1>1. Below(S, x) = {} /\ Below(S, y) = {x} /\ Below(S, z) = {x, y}
  <2>1. ASSUME NEW j \in S
        PROVE  /\ ~(j < x)
               /\ j < y <=> j = x
               /\ j < z <=> j \in {x, y}
    <3>1. j \in Int /\ (j = x \/ j = y \/ j = z \/ z < j)
      BY <1>0
    <3> QED BY <1>0, <3>1
  <2>2. Below(S, x) = {}
    BY <2>1 DEF Below
  <2>5. Below(S, y) = {x}
    BY <1>0, <2>1 DEF Below
  <2>6. Below(S, z) = {x, y}
    BY <1>0, <2>1 DEF Below
  <2> QED BY <2>2, <2>5, <2>6
<1>2. Cardinality(Below(S, x)) = 0
  BY <1>1, FS_EmptySet
<1>3. Cardinality(Below(S, y)) = 1
  BY <1>1, FS_Singleton
<1>4. Cardinality(Below(S, z)) = 2
  <2>1. x # y BY <1>0
  <2>2. Cardinality({x, y}) = 2 BY <2>1, CardPair, Zenon
  <2>3. Below(S, z) = {x, y} BY <1>1
  <2> QED BY <2>2, <2>3, Zenon
<1>6. \A i \in S : IsFiniteSet(Below(S, i)) /\ Cardinality(Below(S, i)) \in Nat
  <2> TAKE i \in S
  <2>1. Below(S, i) \in SUBSET S BY DEF Below
  <2>2. IsFiniteSet(Below(S, i)) BY <1>0, <2>1, FS_Subset
  <2> QED BY <2>2, FS_CardinalityType
<1>5. \A i \in S \ {x, y, z} : Cardinality(Below(S, i)) >= 3
  <2> TAKE i \in S \ {x, y, z}
  <2>1. Cardinality({x, y, z}) = 3
    <3>1. x # y /\ y # z /\ x # z BY <1>0
    <3> QED BY <3>1, CardTriple
  <2>2. {x, y, z} \in SUBSET Below(S, i)
    <3>1. i \in Int /\ z < i BY <1>0
    <3>2. x < i /\ y < i BY <1>0, <3>1
    <3> QED BY <1>0, <3>1, <3>2 DEF Below
  <2>3. Cardinality({x, y, z}) <= Cardinality(Below(S, i))
    BY <1>6, <2>2, FS_Subset
  <2> QED BY <1>6, <2>1, <2>3
<1> DEFINE C(i) == Cardinality(Below(S, i))
<1>7. \A i \in S : i # x => C(i) # 0
  BY <1>3, <1>4, <1>5, <1>6
<1>8. \A i \in S : i # y => C(i) # 1
  BY <1>2, <1>4, <1>5, <1>6
<1>9. \A i \in S : i # z => C(i) # 2
  BY <1>2, <1>3, <1>5, <1>6
<1>10. \A n : Nth(S, n) = CHOOSE i \in S : C(i) = n
  BY DEF Nth, Below
<1>11. Low3(S) = {i \in S : C(i) < 3}
  BY DEF Low3
<1>12. C(x) = 0 /\ C(y) = 1 /\ C(z) = 2 /\ \A i \in S \ {x, y, z} : C(i) >= 3
  BY <1>2, <1>3, <1>4, <1>5
<1>13. \A i \in S : C(i) \in Nat
  BY <1>6
<1> HIDE DEF C
<1>14. (CHOOSE i \in S : C(i) = 0) = x
  BY <1>0, <1>7, <1>12
<1>15. (CHOOSE i \in S : C(i) = 1) = y
  BY <1>0, <1>8, <1>12
<1>16. (CHOOSE i \in S : C(i) = 2) = z
  BY <1>0, <1>9, <1>12
<1>17. {i \in S : C(i) < 3} = {x, y, z}
  <2>1. \A i \in S \ {x, y, z} : ~(C(i) < 3)
    BY <1>12, <1>13
  <2>2. C(x) < 3 /\ C(y) < 3 /\ C(z) < 3
    BY <1>12
  <2> QED BY <1>0, <2>1, <2>2
<1>18. Nth(S, 0) = x
  BY <1>10, <1>14
<1>19. Nth(S, 1) = y
  BY <1>10, <1>15
<1>20. Nth(S, 2) = z
  BY <1>10, <1>16
<1> QED BY <1>11, <1>17, <1>18, <1>19, <1>20

\* Three free descriptors are enough for a chain: the three least.
LEMMA ThreeLeast ==
  ASSUME vfree \subseteq Nat, IsFiniteSet(vfree), Cardinality(vfree) >= 3
  PROVE  \E x, y, z \in vfree :
           /\ x # y /\ y # z /\ x # z
           /\ Least3 = {x, y, z}
           /\ Nth(vfree, 0) = x
           /\ Nth(Least3, 0) = x /\ Nth(Least3, 1) = y /\ Nth(Least3, 2) = z
<1>1. vfree # {}
  BY FS_EmptySet
<1>2. PICK x \in vfree : \A j \in vfree : x <= j
  BY <1>1, LeastMember
<1> DEFINE A == vfree \ {x}
<1>3. IsFiniteSet(A) /\ Cardinality(A) = Cardinality(vfree) - 1
  BY <1>2, FS_RemoveElement
<1>4. Cardinality(vfree) \in Nat
  BY FS_CardinalityType
<1>5. A # {} /\ A \subseteq Nat
  BY <1>3, <1>4, FS_EmptySet
<1>6. PICK y \in A : \A j \in A : y <= j
  <2> HIDE DEF A
  <2> QED BY <1>5, LeastMember
<1> DEFINE C == A \ {y}
<1>7. IsFiniteSet(C) /\ Cardinality(C) = Cardinality(A) - 1
  BY <1>3, <1>6, FS_RemoveElement
<1>8. C # {} /\ C \subseteq Nat
  BY <1>3, <1>4, <1>5, <1>7, FS_EmptySet
<1>9. PICK z \in C : \A j \in C : z <= j
  <2> HIDE DEF C
  <2> QED BY <1>8, LeastMember
<1>10. /\ x \in vfree /\ y \in vfree /\ z \in vfree /\ x < y /\ y < z
       /\ \A j \in vfree : j \in {x, y, z} \/ z < j
  BY <1>2, <1>6, <1>9
<1>11. vfree \subseteq Int
  OBVIOUS
<1>12. Nth(vfree, 0) = x /\ Low3(vfree) = {x, y, z}
  <2>1. First3(vfree, x, y, z)
    <3> HIDE DEF A, C
    <3> QED BY <1>10, <1>11 DEF First3
  <2> QED BY <2>1, Nth3
<1>13. Least3 = {x, y, z}
  BY <1>12 DEF Least3, Low3, Below
<1>14. IsFiniteSet(Least3)
  <2>1. Least3 \in SUBSET vfree BY <1>10, <1>13
  <2> QED BY <2>1, FS_Subset
<1>15. Nth(Least3, 0) = x /\ Nth(Least3, 1) = y /\ Nth(Least3, 2) = z
  <2>1. x \in Least3 /\ y \in Least3 /\ z \in Least3 /\ Least3 \subseteq Int
        /\ \A j \in Least3 : j \in {x, y, z} \/ z < j
    BY <1>10, <1>11, <1>13
  <2> HIDE DEF A, C
  <2>2. First3(Least3, x, y, z)
    BY <1>10, <1>14, <2>1 DEF First3
  <2> QED BY <2>2, Nth3
<1> QED BY <1>10, <1>12, <1>13, <1>15

-----------------------------------------------------------------------------
(* Rings: cells from an index on, modulo NUM.                              *)

Slot(a, j) == (a + j) % NUM
Put(r, k, v) == [r EXCEPT ![k] = v]
Cells(r) == {r[i] : i \in Desc} \ {NUM}

\* Slots are cells, one per offset below NUM.
LEMMA SlotFacts ==
  ASSUME NEW a \in Nat
  PROVE  /\ \A j \in Nat : Slot(a, j) \in Desc
         /\ Slot(a, 0) = a % NUM /\ Slot(a, NUM) = Slot(a, 0)
         /\ \A j \in Nat : Slot(a + 1, j) = Slot(a, j + 1)
         /\ \A i, j \in 0..NUM - 1 : i # j => Slot(a, i) # Slot(a, j)
<1> USE VirtioAssumption
<1>1. ASSUME NEW j \in Nat PROVE Slot(a, j) \in Desc
  <2>1. a + j \in Int OBVIOUS
  <2> QED BY <2>1, ModDef DEF Slot, Desc
<1>2. Slot(a, 0) = a % NUM
  BY DEF Slot
<1>3. Slot(a, NUM) = Slot(a, 0)
  <2>1. NUM % NUM = 0
    <3>1. NUM = NUM * 1 + 0 /\ 0 \in 0..NUM - 1 OBVIOUS
    <3> QED BY <3>1, ModUnique
  <2>2. (NUM + a) % NUM = a % NUM
    <3>1. NUM \in Int /\ a \in Int OBVIOUS
    <3> QED BY <2>1, <3>1, ModAdd
  <2>3. NUM + a = a + NUM
    OBVIOUS
  <2> QED BY <1>2, <2>2, <2>3 DEF Slot
<1>4. ASSUME NEW j \in Nat PROVE Slot(a + 1, j) = Slot(a, j + 1)
  <2>1. (a + 1) + j = a + (j + 1) OBVIOUS
  <2> QED BY <2>1 DEF Slot
<1>5. ASSUME NEW i \in 0..NUM - 1, NEW j \in 0..NUM - 1, i < j
      PROVE  Slot(a, i) # Slot(a, j)
  <2>1. a + i \in Int /\ a + j \in Int /\ a + i < a + j /\ a + j < (a + i) + NUM
    BY <1>5
  <2> QED BY <2>1, ModDistinct DEF Slot
<1>6. \A i, j \in 0..NUM - 1 : i # j => Slot(a, i) # Slot(a, j)
  <2> TAKE i, j \in 0..NUM - 1
  <2> HAVE i # j
  <2>1. i < j \/ j < i OBVIOUS
  <2> QED BY <1>5, <2>1
<1> QED BY <1>1, <1>2, <1>3, <1>4, <1>6

Cong(P, a, c) == P \in Nat \ {0} /\ a \in Int /\ c \in Int /\ a % P = c % P

\* Congruent numbers stay so when they advance together.
LEMMA CongAdd ==
  ASSUME NEW P, NEW a, NEW c, Cong(P, a, c), NEW j \in Int
  PROVE  (a + j) % P = (c + j) % P
<1>1. P \in Nat \ {0} /\ a \in Int /\ c \in Int /\ a % P = c % P
  BY DEF Cong
<1> QED BY <1>1, ModCong

\* Two indices that are equal modulo NUM name the same cells.
LEMMA SlotSame ==
  ASSUME NEW a \in Nat, NEW c \in Nat, a % NUM = c % NUM, NEW j \in Nat
  PROVE  Slot(a, j) = Slot(c, j)
<1>1. NUM \in Nat \ {0} /\ a \in Int /\ c \in Int /\ j \in Int
  BY VirtioAssumption
<1> QED BY <1>1, ModCong DEF Slot

\* RingOK, by slots.
LEMMA RingOKDef ==
  ASSUME NEW r, NEW a, NEW q
  PROVE  RingOK(r, a, q) <=> \A j \in 0..NUM - 1 : r[Slot(a, j)] # NUM <=> j < q
BY DEF RingOK, Slot

\* Writing a head into the first free cell.
LEMMA RingPush ==
  ASSUME NEW r \in [Desc -> Heads], NEW a \in Nat, NEW q \in 0..NUM - 1,
         RingOK(r, a, q), OnceIn(r), NEW h \in Desc, h \notin Cells(r)
  PROVE  /\ RingOK(Put(r, Slot(a, q), h), a, q + 1)
         /\ OnceIn(Put(r, Slot(a, q), h))
         /\ Cells(Put(r, Slot(a, q), h)) = Cells(r) \cup {h}
         /\ Put(r, Slot(a, q), h) \in [Desc -> Heads]
<1> USE VirtioAssumption
<1> DEFINE s == Slot(a, q)
           t == Put(r, s, h)
<1>1. s \in Desc /\ \A j \in 0..NUM - 1 : Slot(a, j) \in Desc
  BY SlotFacts
<1>2. t[s] = h /\ \A i \in Desc : i # s => t[i] = r[i]
  BY <1>1 DEF Put
<1>3. t \in [Desc -> Heads]
  BY <1>1 DEF Put, Heads
<1>4. r[s] = NUM
  BY RingOKDef
<1>5. h # NUM /\ h \in Heads
  BY DEF Desc, Heads
<1>6. \A j \in 0..NUM - 1 : j # q => Slot(a, j) # s
  BY SlotFacts
<1>7. \A i \in Desc : r[i] # h
  BY <1>5 DEF Cells
<1>8. \A j \in 0..NUM - 1 : r[Slot(a, j)] # NUM <=> j < q
  BY RingOKDef
<1> HIDE DEF s, t
<1>9. RingOK(t, a, q + 1)
  <2>1. \A j \in 0..NUM - 1 : t[Slot(a, j)] # NUM <=> j < q + 1
    <3> TAKE j \in 0..NUM - 1
    <3>1. CASE j = q
      BY <1>2, <1>5, <3>1 DEF s
    <3>2. CASE j # q
      <4>1. t[Slot(a, j)] = r[Slot(a, j)]
        BY <1>1, <1>2, <1>6, <3>2
      <4>2. j < q <=> j < q + 1
        BY <3>2
      <4> QED BY <1>8, <4>1, <4>2
    <3> QED BY <3>1, <3>2
  <2> QED BY <2>1, RingOKDef
<1>10. OnceIn(t)
  <2> SUFFICES ASSUME NEW i \in Desc, NEW j \in Desc, t[i] = t[j], t[i] # NUM
               PROVE  i = j
    BY DEF OnceIn
  <2>1. CASE i = s
    BY <1>2, <1>7, <2>1
  <2>2. CASE j = s
    BY <1>2, <1>7, <2>2
  <2>3. CASE i # s /\ j # s
    BY <1>2, <2>3 DEF OnceIn
  <2> QED BY <2>1, <2>2, <2>3
<1>11. Cells(t) = Cells(r) \cup {h}
  <2>1. ASSUME NEW v \in Cells(t) PROVE v \in Cells(r) \cup {h}
    <3>1. PICK i \in Desc : v = t[i] /\ v # NUM BY DEF Cells
    <3> QED BY <1>2, <3>1 DEF Cells
  <2>2. ASSUME NEW v \in Cells(r) PROVE v \in Cells(t)
    <3>1. PICK i \in Desc : v = r[i] /\ v # NUM BY DEF Cells
    <3>2. t[i] = v BY <1>2, <1>4, <3>1
    <3> QED BY <3>1, <3>2 DEF Cells
  <2>3. h \in Cells(t)
    BY <1>1, <1>2, <1>5 DEF Cells
  <2> QED BY <2>1, <2>2, <2>3
<1> QED BY <1>3, <1>9, <1>10, <1>11 DEF s, t

\* Taking the head out of the first occupied cell.
LEMMA RingPop ==
  ASSUME NEW r \in [Desc -> Heads], NEW a \in Nat, NEW q \in 1..NUM - 1,
         RingOK(r, a, q), OnceIn(r), NEW c \in Nat, c % NUM = (a + 1) % NUM
  PROVE  /\ RingOK(Put(r, Slot(a, 0), NUM), c, q - 1)
         /\ OnceIn(Put(r, Slot(a, 0), NUM))
         /\ r[Slot(a, 0)] \in Cells(r)
         /\ Cells(Put(r, Slot(a, 0), NUM)) = Cells(r) \ {r[Slot(a, 0)]}
         /\ Put(r, Slot(a, 0), NUM) \in [Desc -> Heads]
<1> USE VirtioAssumption
<1> DEFINE s == Slot(a, 0)
           t == Put(r, s, NUM)
<1>1. s \in Desc /\ \A j \in Nat : Slot(a, j) \in Desc
  BY SlotFacts
<1>2. t[s] = NUM /\ \A i \in Desc : i # s => t[i] = r[i]
  BY <1>1 DEF Put
<1>3. t \in [Desc -> Heads]
  BY <1>1 DEF Put, Heads
<1>4. r[s] # NUM
  BY RingOKDef
<1>6. \A j \in 1..NUM - 1 : Slot(a, j) # s
  BY SlotFacts
<1>8. \A j \in 0..NUM - 1 : r[Slot(a, j)] # NUM <=> j < q
  BY RingOKDef
<1>5. \A j \in 0..NUM - 1 : Slot(c, j) = Slot(a, j + 1)
  <2> TAKE j \in 0..NUM - 1
  <2>1. a + 1 \in Nat /\ j \in Nat
    OBVIOUS
  <2>2. Slot(c, j) = Slot(a + 1, j)
    BY <2>1, SlotSame
  <2> QED BY <2>1, <2>2, SlotFacts
<1>7. Slot(a, NUM) = s
  BY SlotFacts
<1> HIDE DEF s, t
<1>9. RingOK(t, c, q - 1)
  <2>1. \A j \in 0..NUM - 1 : t[Slot(c, j)] # NUM <=> j < q - 1
    <3> TAKE j \in 0..NUM - 1
    <3>1. CASE j = NUM - 1
      <4>1. Slot(c, j) = s
        <5>1. j + 1 = NUM BY <3>1
        <5> QED BY <1>5, <1>7, <5>1
      <4> QED BY <1>2, <3>1, <4>1
    <3>2. CASE j # NUM - 1
      <4>1. j + 1 \in 1..NUM - 1 /\ j + 1 \in 0..NUM - 1 /\ j + 1 \in Nat
        BY <3>2
      <4>2. t[Slot(c, j)] = r[Slot(a, j + 1)]
        BY <1>1, <1>2, <1>5, <1>6, <4>1
      <4>3. j + 1 < q <=> j < q - 1
        OBVIOUS
      <4> QED BY <1>8, <4>1, <4>2, <4>3
    <3> QED BY <3>1, <3>2
  <2> QED BY <2>1, RingOKDef
<1>10. OnceIn(t)
  BY <1>2 DEF OnceIn
<1>11. r[s] \in Cells(r)
  BY <1>1, <1>4 DEF Cells
<1>12. Cells(t) = Cells(r) \ {r[s]}
  <2>1. ASSUME NEW v \in Cells(t) PROVE v \in Cells(r) \ {r[s]}
    <3>1. PICK i \in Desc : v = t[i] /\ v # NUM BY DEF Cells
    <3>2. i # s /\ v = r[i] BY <1>2, <3>1
    <3>3. v # r[s] BY <1>1, <3>1, <3>2 DEF OnceIn
    <3> QED BY <3>1, <3>2, <3>3 DEF Cells
  <2>2. ASSUME NEW v \in Cells(r) \ {r[s]} PROVE v \in Cells(t)
    <3>1. PICK i \in Desc : v = r[i] /\ v # NUM BY DEF Cells
    <3>2. t[i] = v BY <1>2, <2>2, <3>1
    <3> QED BY <3>1, <3>2 DEF Cells
  <2> QED BY <2>1, <2>2
<1> QED BY <1>3, <1>9, <1>10, <1>11, <1>12 DEF s, t

\* A ring that misses a descriptor is not full.
LEMMA RingRoom ==
  ASSUME NEW r \in [Desc -> Heads], NEW a \in Nat, NEW q \in 0..NUM,
         RingOK(r, a, q), OnceIn(r), NEW x \in Desc, x \notin Cells(r)
  PROVE  q \in 0..NUM - 1
<1> USE VirtioAssumption
<1>1. SUFFICES ASSUME q = NUM PROVE FALSE
  OBVIOUS
<1> DEFINE f == [j \in Desc |-> r[Slot(a, j)]]
           T == Desc \ {x}
<1>2. \A j \in Desc : j \in Nat /\ j < NUM /\ j \in 0..NUM - 1
  BY DEF Desc
<1>3. \A j \in Desc : Slot(a, j) \in Desc /\ r[Slot(a, j)] # NUM
  BY <1>1, <1>2, RingOKDef, SlotFacts
<1>4. \A j \in Desc : r[Slot(a, j)] \in Cells(r)
  BY <1>3 DEF Cells
<1>5. Cells(r) \subseteq T
  BY DEF Cells, Heads
<1>6. f \in [Desc -> T]
  BY <1>4, <1>5
<1>7. \A i, j \in Desc : f[i] = f[j] => i = j
  <2> TAKE i, j \in Desc
  <2> HAVE f[i] = f[j]
  <2>1. Slot(a, i) = Slot(a, j)
    BY <1>3 DEF OnceIn
  <2> QED BY <1>2, <2>1, SlotFacts
<1>8. f \in Injection(Desc, T)
  BY <1>6, <1>7 DEF Injection, IsInjective
<1>9. IsFiniteSet(Desc) /\ Cardinality(Desc) = NUM
  BY FS_Interval DEF Desc
<1>10. IsFiniteSet(T) /\ Cardinality(T) = NUM - 1
  BY <1>9, FS_RemoveElement
<1>11. Cardinality(Desc) <= Cardinality(T)
  <2> HIDE DEF f, T
  <2> QED BY <1>8, <1>10, FS_Injection
<1> QED BY <1>9, <1>10, <1>11

-----------------------------------------------------------------------------
(* What a chain holds.                                                     *)

HeldOf(d, I) ==
  UNION {{i} \cup d[i].next \cup UNION {d[j].next : j \in d[i].next} : i \in I}
Links(d, b, h, m, l) ==
  d[h] = [b |-> b, next |-> {m}] /\ d[m] = [b |-> b, next |-> {l}]
Busy == {"bufsleep", "wait"}

\* The descriptors of a chain are those free_chain() walks.
LEMMA HeldOfChain ==
  ASSUME NEW d, NEW b, NEW h, NEW m, NEW l,
         Links(d, b, h, m, l)
  PROVE  HeldOf(d, {h}) = {h, m, l}
<1>1. d[h].next = {m} /\ d[m].next = {l}
  BY DEF Links
<1>2. UNION {d[j].next : j \in {m}} = {l}
  BY <1>1
<1>3. {h} \cup d[h].next \cup UNION {d[j].next : j \in d[h].next} = {h, m, l}
  BY <1>1, <1>2
<1>4. HeldOf(d, {h}) = {h} \cup d[h].next \cup UNION {d[j].next : j \in d[h].next}
  BY DEF HeldOf
<1> QED BY <1>3, <1>4

\* Held and FreedBy, by the two arrays they read.
LEMMA HeldIs ==
  ASSUME NEW b
  PROVE  /\ Held(b) = HeldOf(desc, idx[b]) /\ FreedBy(b) = HeldOf(desc, idx[b])
         /\ Held(b)' = HeldOf(desc', idx'[b])
BY DEF Held, FreedBy, HeldOf, Chained

\* Calls that have descriptors have three; the others have none.
LEMMA HeldFacts ==
  ASSUME ChainInv, NEW b \in Bufs
  PROVE  /\ vpc[b] \in Busy =>
              \E h, m, l \in Desc : IsChain(b, h, m, l) /\ Held(b) = {h, m, l}
         /\ vpc[b] \notin Busy => idx[b] = {} /\ Held(b) = {}
         /\ idx[b] \subseteq Held(b)
<1>1. ASSUME vpc[b] \in Busy
      PROVE  \E h, m, l \in Desc : IsChain(b, h, m, l) /\ Held(b) = {h, m, l}
  <2>1. PICK h, m, l \in Desc : IsChain(b, h, m, l)
    BY <1>1 DEF ChainInv, Busy
  <2>2. HeldOf(desc, {h}) = {h, m, l}
    <3>1. Links(desc, b, h, m, l) BY <2>1 DEF IsChain, Links
    <3> QED BY <3>1, HeldOfChain
  <2>3. Held(b) = {h, m, l}
    BY <2>1, <2>2, HeldIs DEF IsChain
  <2> QED BY <2>1, <2>3
<1>2. ASSUME vpc[b] \notin Busy PROVE idx[b] = {} /\ Held(b) = {}
  BY <1>2 DEF ChainInv, Busy, Held
<1>3. idx[b] \subseteq Held(b)
  BY <1>1, <1>2 DEF IsChain
<1> QED BY <1>1, <1>2, <1>3

\* The same, one step later.
LEMMA HeldFactsNext ==
  ASSUME NEW b, NEW h \in Desc, NEW m \in Desc, NEW l \in Desc, IsChain(b, h, m, l)'
  PROVE  Held(b)' = {h, m, l}
<1>1. HeldOf(desc', {h}) = {h, m, l}
  <2>1. Links(desc', b, h, m, l) BY DEF IsChain, Links
  <2> QED BY <2>1, HeldOfChain
<1> QED BY <1>1, HeldIs DEF IsChain

\* A head in a ring or in the device is the head of one call, whose chain has
\* a descriptor that is no head at all.
LEMMA ActiveFacts ==
  ASSUME VdTypeOK, ChainInv, OwnerInv, NEW i \in Active
  PROVE  \E c \in bdisk, m, l \in Desc :
           /\ c \in Bufs /\ IsChain(c, i, m, l) /\ i \in Desc
           /\ \A e \in Bufs : i \in idx[e] => e = c
           /\ m \notin Active
<1>1. PICK c \in bdisk : i \in idx[c]
  BY DEF Active
<1>2. c \in Bufs /\ vpc[c] \in Busy
  BY <1>1 DEF VdTypeOK, ChainInv, Busy
<1>3. PICK h, m, l \in Desc : IsChain(c, h, m, l) /\ Held(c) = {h, m, l}
  BY <1>2, HeldFacts
<1>4. h = i
  BY <1>1, <1>3 DEF IsChain
<1>5. ASSUME NEW e \in Bufs, NEW k \in Held(c), k \in idx[e] PROVE e = c
  <2>1. k \in Held(e) BY <1>5, HeldFacts
  <2> QED BY <1>2, <2>1 DEF OwnerInv
<1>6. m \notin Active
  <2> SUFFICES ASSUME NEW e \in bdisk, m \in idx[e] PROVE FALSE
    BY DEF Active
  <2>1. e = c BY <1>3, <1>5 DEF VdTypeOK
  <2> QED BY <1>3, <2>1 DEF IsChain
<1> QED BY <1>1, <1>2, <1>3, <1>4, <1>5, <1>6

\* A free descriptor is no head.
LEMMA FreeNotActive ==
  ASSUME VdTypeOK, ChainInv, OwnerInv, NEW i \in vfree
  PROVE  i \notin Active
<1> SUFFICES ASSUME i \in Active PROVE FALSE
  OBVIOUS
<1>1. PICK c \in Bufs : i \in idx[c]
  BY DEF Active, VdTypeOK
<1>2. i \in Held(c)
  BY <1>1, HeldFacts
<1> QED BY <1>2 DEF OwnerInv

\* PlaceInv, in the terms of the lemmas.
LEMMA Places ==
  /\ Queued = Cells(avail.ring) /\ Finished = Cells(used.ring)
  /\ Queued' = Cells(avail'.ring) /\ Finished' = Cells(used'.ring)
BY DEF Queued, Finished, Cells

-----------------------------------------------------------------------------
(* The initial state and the steps that allocate and free nothing.         *)

\* virtio_disk_init() establishes the invariant.
LEMMA VdInitInv == VdInit => VdInv
<1> USE VirtioAssumption
<1> SUFFICES ASSUME VdInit PROVE VdInv
  OBVIOUS
<1>0. 0 \in 0..VWRAP - 1 /\ 0 \in Desc /\ NUM \in Heads
  BY DEF Desc, Heads
<1>1. VdTypeOK
  <2>1. NoDesc \in [b : Bufs \cup {NoBuf}, next : SUBSET Desc]
    BY DEF NoDesc
  <2>2. desc \in [Desc -> [b : Bufs \cup {NoBuf}, next : SUBSET Desc]]
    BY <2>1 DEF VdInit
  <2>3. avail \in [ring : [Desc -> Heads], idx : 0..VWRAP - 1]
    BY <1>0 DEF VdInit
  <2>4. used \in [ring : [Desc -> Heads], id : 0..VWRAP - 1]
    BY <1>0 DEF VdInit
  <2>5. dev \in [last : 0..VWRAP - 1, busy : SUBSET Desc]
    BY <1>0 DEF VdInit
  <2> QED BY <1>0, <2>2, <2>3, <2>4, <2>5 DEF VdInit, VdTypeOK
<1>2. ChainInv
  BY DEF VdInit, ChainInv
<1>3. OwnerInv
  <2>1. \A b \in Bufs : Held(b) = {}
    BY DEF VdInit, Held
  <2> QED BY <2>1 DEF VdInit, OwnerInv
<1>4. avail.ring = [i \in Desc |-> NUM] /\ used.ring = [i \in Desc |-> NUM]
      /\ avail.idx = 0 /\ used.id = 0 /\ used_idx = 0 /\ dev.last = 0 /\ dev.busy = {}
  BY DEF VdInit
<1>5. \A i \in Desc : avail.ring[i] = NUM /\ used.ring[i] = NUM
  BY <1>4
<1>6. RingInv
  <2>1. \A j \in 0..NUM - 1 : Slot(0, j) \in Desc
    BY SlotFacts
  <2>2. RingOK(avail.ring, 0, 0) /\ RingOK(used.ring, 0, 0)
    BY <1>5, <2>1, RingOKDef
  <2>3. (0 + 0) % VWRAP = 0
    BY <1>0, ModSmall
  <2>4. 0 \in 0..NUM - 1
    OBVIOUS
  <2> QED BY <1>4, <2>2, <2>3, <2>4 DEF RingInv
<1>7. PlaceInv
  <2>1. Queued = {} /\ Finished = {}
    BY <1>5 DEF Queued, Finished
  <2>2. OnceIn(avail.ring) /\ OnceIn(used.ring)
    BY <1>5 DEF OnceIn
  <2> QED BY <1>4, <2>1, <2>2 DEF VdInit, PlaceInv
<1>8. MovedInv
  BY DEF VdInit, MovedInv
<1> QED BY <1>1, <1>2, <1>3, <1>6, <1>7, <1>8 DEF VdInv

\* Steps that leave every chain alone keep the descriptors' owners.
LEMMA SameChains ==
  ASSUME ChainInv, OwnerInv, UNCHANGED <<vfree, desc, info, idx>>, bdisk' \subseteq bdisk,
         bdisk \subseteq Bufs, \A b \in Bufs : vpc'[b] \in Busy <=> vpc[b] \in Busy
  PROVE  ChainInv' /\ OwnerInv'
<1>1. \A b : Held(b)' = Held(b)
  BY DEF Held, Chained
<1>2. OwnerInv'
  BY <1>1 DEF OwnerInv
<1>3. \A b, h, m, l : IsChain(b, h, m, l)' <=> IsChain(b, h, m, l)
  BY DEF IsChain
<1>4. ChainInv'
  BY <1>3 DEF ChainInv, Busy
<1> QED BY <1>2, <1>4

\* Steps of a call that neither take nor give back descriptors, and the ends of
\* the interrupt handler.
LEMMA QuietInv ==
  ASSUME VdInv, VdTypeOK', UNCHANGED <<vfree, desc, info, avail, used, used_idx, dev, bdisk, idx>>,
         \A b \in Bufs : vpc'[b] \in Busy <=> vpc[b] \in Busy,
         \A b \in Bufs : idx[b] # {} /\ b \in moved => b \in moved'
  PROVE  VdInv'
<1>1. ChainInv' /\ OwnerInv'
  BY SameChains DEF VdInv, VdTypeOK
<1>2. RingInv'
  BY DEF VdInv, RingInv
<1>3. Queued' = Queued /\ Finished' = Finished
  BY DEF Queued, Finished
<1>4. PlaceInv'
  BY <1>3 DEF VdInv, PlaceInv
<1>5. MovedInv'
  BY <1>3 DEF VdInv, MovedInv
<1> QED BY <1>1, <1>2, <1>4, <1>5 DEF VdInv

VdPcs == {"idle", "alloc", "freesleep", "bufsleep", "wait"}

\* A call starts.
LEMMA RwCallInv == ASSUME VdInv, NEW b \in Bufs, RwCall(b) PROVE VdInv'
<1>1. vpc \in [Bufs -> VdPcs] /\ vpc[b] = "idle" /\ vpc' = [vpc EXCEPT ![b] = "alloc"]
  BY DEF VdInv, VdTypeOK, RwCall, VdPcs
<1>2. vpc' \in [Bufs -> VdPcs] /\ \A c \in Bufs : vpc'[c] \in Busy <=> vpc[c] \in Busy
  BY <1>1 DEF VdPcs, Busy
<1>3. VdTypeOK'
  BY <1>2 DEF VdInv, VdTypeOK, RwCall, VdPcs
<1>4. idx[b] = {}
  BY <1>1 DEF VdInv, ChainInv
<1> QED BY <1>2, <1>3, <1>4, QuietInv DEF RwCall

\* Waking the waiters for descriptors takes nobody out of virtio_disk_rw()'s
\* second half.
LEMMA WakeFreeFacts ==
  ASSUME NEW pc \in [Bufs -> VdPcs]
  PROVE  WakeFree(pc) \in [Bufs -> VdPcs]
         /\ \A c \in Bufs : WakeFree(pc)[c] \in Busy <=> pc[c] \in Busy
BY DEF WakeFree, VdPcs, Busy

\* alloc3_desc() fails.
LEMMA RwNoDescInv == ASSUME VdInv, NEW b \in Bufs, RwNoDesc(b) PROVE VdInv'
<1> DEFINE w == IF vfree = {} THEN vpc ELSE WakeFree(vpc)
<1>1. vpc \in [Bufs -> VdPcs] /\ vpc[b] = "alloc" /\ vpc' = [w EXCEPT ![b] = "freesleep"]
  BY DEF VdInv, VdTypeOK, RwNoDesc, VdPcs
<1>2. w \in [Bufs -> VdPcs] /\ \A c \in Bufs : w[c] \in Busy <=> vpc[c] \in Busy
  BY <1>1, WakeFreeFacts
<1> HIDE DEF w
<1>3. vpc' \in [Bufs -> VdPcs] /\ \A c \in Bufs : vpc'[c] \in Busy <=> vpc[c] \in Busy
  BY <1>1, <1>2 DEF VdPcs, Busy
<1>4. VdTypeOK'
  BY <1>3 DEF VdInv, VdTypeOK, RwNoDesc, VdPcs
<1> QED BY <1>3, <1>4, QuietInv DEF RwNoDesc

\* A sleeper that was woken too early sleeps again.
LEMMA RwAgainInv == ASSUME VdInv, NEW b \in Bufs, RwAgain(b) PROVE VdInv'
<1>1. vpc \in [Bufs -> VdPcs] /\ vpc[b] = "wait" /\ vpc' = [vpc EXCEPT ![b] = "bufsleep"]
  BY DEF VdInv, VdTypeOK, RwAgain, VdPcs
<1>2. vpc' \in [Bufs -> VdPcs] /\ \A c \in Bufs : vpc'[c] \in Busy <=> vpc[c] \in Busy
  BY <1>1 DEF VdPcs, Busy
<1>3. VdTypeOK'
  BY <1>2 DEF VdInv, VdTypeOK, RwAgain, VdPcs
<1> QED BY <1>2, <1>3, QuietInv DEF RwAgain

\* kill() wakes a caller out of either sleep.
LEMMA KillWakeInv == ASSUME VdInv, NEW b \in Bufs, KillWake(b) PROVE VdInv'
<1>1. vpc \in [Bufs -> VdPcs] /\ vpc[b] \in {"freesleep", "bufsleep"}
  BY DEF VdInv, VdTypeOK, KillWake, VdPcs
<1>2. vpc' = [vpc EXCEPT ![b] = IF vpc[b] = "freesleep" THEN "alloc" ELSE "wait"]
  BY DEF KillWake
<1>3. vpc' \in [Bufs -> VdPcs] /\ \A c \in Bufs : vpc'[c] \in Busy <=> vpc[c] \in Busy
  BY <1>1, <1>2 DEF VdPcs, Busy
<1>4. VdTypeOK'
  BY <1>3 DEF VdInv, VdTypeOK, KillWake, VdPcs
<1> QED BY <1>3, <1>4, QuietInv DEF KillWake

\* The ends of virtio_disk_intr().
LEMMA IntrEndsInv == ASSUME VdInv, IntrEnter \/ IntrExit PROVE VdInv'
<1>1. UNCHANGED <<vfree, desc, info, avail, used, used_idx, dev, bdisk, moved, vpc, idx, vpanic>>
  BY DEF IntrEnter, IntrExit
<1>2. vintr' \in BOOLEAN
  BY Zenon DEF IntrEnter, IntrExit
<1>3. VdTypeOK'
  BY <1>1, <1>2 DEF VdInv, VdTypeOK
<1> QED BY <1>1, <1>3, QuietInv

-----------------------------------------------------------------------------
(* The device and the interrupt handler move a head from ring to ring.     *)

\* The device takes the next head of the available ring.
LEMMA DevFetchInv == ASSUME VdInv, DevFetch PROVE VdInv'
<1> USE VirtioAssumption
<1> DEFINE a == dev.last
           s == a % NUM
           h == avail.ring[s]
           r == avail.ring
           c == (a + 1) % VWRAP
<1>1. /\ a \in 0..VWRAP - 1 /\ a \in Nat /\ dev.busy \subseteq Desc
      /\ r \in [Desc -> Heads] /\ avail.idx \in 0..VWRAP - 1
  BY DEF VdInv, VdTypeOK
<1>2. PICK q \in 0..NUM - 1 : avail.idx = (a + q) % VWRAP /\ RingOK(r, a, q)
  BY DEF VdInv, RingInv
<1>3. q # 0
  <2> SUFFICES ASSUME q = 0 PROVE FALSE
    OBVIOUS
  <2>1. avail.idx = a % VWRAP
    BY <1>1, <1>2
  <2>2. avail.idx = a
    BY <1>1, <2>1, ModSmall
  <2> QED BY <2>2 DEF DevFetch
<1>4. c \in 0..VWRAP - 1 /\ c % NUM = (a + 1) % NUM
  <2>1. a + 1 \in Int BY <1>1
  <2> QED BY <2>1, ModWrap
<1>5. Slot(a, 0) = s /\ s \in Desc
  <2>1. 0 \in Nat OBVIOUS
  <2>2. Slot(a, 0) \in Desc BY <1>1, <2>1, SlotFacts
  <2>3. Slot(a, 0) = a % NUM BY <1>1, SlotFacts
  <2> QED BY <2>2, <2>3
<1>6. OnceIn(r)
  BY DEF VdInv, PlaceInv
<1>7. /\ RingOK(Put(r, s, NUM), c, q - 1) /\ OnceIn(Put(r, s, NUM))
      /\ h \in Cells(r) /\ Cells(Put(r, s, NUM)) = Cells(r) \ {h}
      /\ Put(r, s, NUM) \in [Desc -> Heads]
  <2>1. q \in 1..NUM - 1 /\ c \in Nat BY <1>2, <1>3, <1>4
  <2> HIDE DEF a, r, c, s
  <2> QED BY <1>1, <1>2, <1>4, <1>5, <1>6, <2>1, RingPop DEF h, r
<1>8. /\ avail'.ring = Put(r, s, NUM) /\ avail'.idx = avail.idx
      /\ avail' = [ring |-> Put(r, s, NUM), idx |-> avail.idx]
  BY DEF DevFetch, Put, VdInv, VdTypeOK
<1>9. /\ dev'.last = c /\ dev'.busy = dev.busy \cup {h}
      /\ dev' = [last |-> c, busy |-> dev.busy \cup {h}]
  BY DEF DevFetch
<1>10. UNCHANGED <<vfree, desc, info, used, used_idx, bdisk, moved, vpc, idx, vintr, vpanic>>
  BY DEF DevFetch
<1>11. avail.idx = (c + (q - 1)) % VWRAP
  <2>1. a + 1 \in Int /\ q - 1 \in Int /\ c \in Int BY <1>1, <1>2, <1>4
  <2>2. c % VWRAP = (a + 1) % VWRAP BY <1>4, ModSmall
  <2>3. (c + (q - 1)) % VWRAP = ((a + 1) + (q - 1)) % VWRAP
    <3>1. Cong(VWRAP, c, a + 1) BY <2>1, <2>2 DEF Cong
    <3> HIDE DEF a, c
    <3> QED BY <2>1, <3>1, CongAdd
  <2>4. (a + 1) + (q - 1) = a + q BY <1>1, <1>2
  <2> QED BY <1>2, <2>3, <2>4
<1>12. h \in Desc
  BY <1>1, <1>5, <1>7 DEF Cells, Heads
<1> HIDE DEF a, s, h, r, c
<1>13. VdTypeOK'
  <2>1. avail' \in [ring : [Desc -> Heads], idx : 0..VWRAP - 1]
    BY <1>1, <1>7, <1>8
  <2>2. dev' \in [last : 0..VWRAP - 1, busy : SUBSET Desc]
    BY <1>1, <1>4, <1>9, <1>12
  <2> QED BY <1>10, <2>1, <2>2 DEF VdInv, VdTypeOK
<1>14. ChainInv' /\ OwnerInv'
  BY <1>10, SameChains DEF VdInv, VdTypeOK
<1>15. RingInv'
  <2>1. q - 1 \in 0..NUM - 1 BY <1>2, <1>3
  <2> QED BY <1>7, <1>8, <1>9, <1>10, <1>11, <2>1 DEF VdInv, RingInv
<1>16. /\ Queued = Cells(r) /\ Queued' = Cells(r) \ {h} /\ Finished' = Finished
  BY <1>7, <1>8, <1>10, Places DEF r
<1>17. PlaceInv'
  <2>1. UNION {idx'[b] : b \in bdisk'} = UNION {idx[b] : b \in bdisk}
    BY <1>10
  <2>2. /\ Queued \cap dev.busy = {} /\ Queued \cap Finished = {} /\ dev.busy \cap Finished = {}
        /\ UNION {idx[b] : b \in bdisk} = Queued \cup dev.busy \cup Finished
        /\ OnceIn(used.ring)
    BY DEF VdInv, PlaceInv
  <2>3. OnceIn(avail'.ring) /\ OnceIn(used'.ring)
    BY <1>7, <1>8, <1>10, <2>2
  <2>4. Queued' \cup dev'.busy \cup Finished' = Queued \cup dev.busy \cup Finished
    BY <1>7, <1>9, <1>16
  <2>5. Queued' \cap dev'.busy = {} /\ Queued' \cap Finished' = {} /\ dev'.busy \cap Finished' = {}
    BY <1>7, <1>9, <1>16, <2>2
  <2> QED BY <2>1, <2>2, <2>3, <2>4, <2>5 DEF PlaceInv
<1>18. MovedInv'
  BY <1>10, <1>16 DEF VdInv, MovedInv
<1> QED BY <1>13, <1>14, <1>15, <1>17, <1>18 DEF VdInv

\* The device finishes a chain, in any order.
LEMMA DevDoneInv == ASSUME VdInv, NEW i \in Desc, DevDone(i) PROVE VdInv'
<1> USE VirtioAssumption
<1> DEFINE a == used_idx
           r == used.ring
           s == used.id % NUM
           d == (used.id + 1) % VWRAP
<1>1. /\ a \in Desc /\ a \in Nat /\ dev.busy \subseteq Desc /\ dev.last \in 0..VWRAP - 1
      /\ r \in [Desc -> Heads] /\ used.id \in 0..VWRAP - 1 /\ used.id \in Int
  BY DEF VdInv, VdTypeOK, Desc
<1>2. PICK n \in 0..NUM - 1 : s = (a + n) % NUM /\ RingOK(r, a, n)
  BY DEF VdInv, RingInv
<1>3. s = Slot(a, n)
  BY <1>2 DEF Slot
<1>4. /\ OnceIn(r) /\ Queued \cap dev.busy = {} /\ Queued \cap Finished = {}
      /\ dev.busy \cap Finished = {} /\ OnceIn(avail.ring)
      /\ Active = Queued \cup dev.busy \cup Finished
  BY DEF VdInv, PlaceInv, Active
<1>5. i \in dev.busy
  BY DEF DevDone
<1>6. Finished = Cells(r) /\ i \notin Cells(r)
  BY <1>4, <1>5, Places
<1>7. /\ RingOK(Put(r, s, i), a, n + 1) /\ OnceIn(Put(r, s, i))
      /\ Cells(Put(r, s, i)) = Cells(r) \cup {i} /\ Put(r, s, i) \in [Desc -> Heads]
  <2> HIDE DEF a, r, s
  <2> QED BY <1>1, <1>2, <1>3, <1>4, <1>6, RingPush
<1>8. PICK c \in bdisk, m, l \in Desc :
           /\ c \in Bufs /\ IsChain(c, i, m, l)
           /\ \A e \in Bufs : i \in idx[e] => e = c
           /\ m \notin Active
  <2>1. i \in Active BY <1>4, <1>5
  <2> QED BY <2>1, ActiveFacts DEF VdInv
<1>9. n + 1 \in 0..NUM - 1
  <2>1. m # i /\ m \notin Finished BY <1>4, <1>8 DEF IsChain
  <2>2. m \notin Cells(Put(r, s, i)) BY <1>6, <1>7, <2>1
  <2>3. n + 1 \in 0..NUM BY <1>2
  <2> HIDE DEF a, r, s
  <2> QED BY <1>1, <1>7, <1>8, <2>2, <2>3, RingRoom
<1>10. /\ used' = [ring |-> Put(r, s, i), id |-> d]
       /\ used'.ring = Put(r, s, i) /\ used'.id = d
  BY DEF DevDone, Put
<1>11. /\ dev' = [last |-> dev.last, busy |-> dev.busy \ {i}]
       /\ dev'.last = dev.last /\ dev'.busy = dev.busy \ {i}
  BY DEF DevDone, VdInv, VdTypeOK
<1>12. /\ moved' = moved \cup {c}
       /\ UNCHANGED <<vfree, desc, info, avail, used_idx, bdisk, vpc, idx, vintr, vpanic>>
  BY <1>8 DEF DevDone, IsChain
<1>13. d \in 0..VWRAP - 1 /\ d % NUM = (a + (n + 1)) % NUM
  <2>1. used.id + 1 \in Int BY <1>1
  <2>2. d \in 0..VWRAP - 1 /\ d % NUM = (used.id + 1) % NUM BY <2>1, ModWrap
  <2>3. a + n \in Int /\ 1 \in Int BY <1>1, <1>2
  <2>4. (used.id + 1) % NUM = ((a + n) + 1) % NUM
    <3>1. Cong(NUM, used.id, a + n) BY <1>1, <1>2, <2>3 DEF Cong
    <3> QED BY <2>3, <3>1, CongAdd
  <2>5. (a + n) + 1 = a + (n + 1) BY <1>1, <1>2
  <2> QED BY <2>2, <2>4, <2>5
<1> HIDE DEF a, s, r, d
<1>14. VdTypeOK'
  <2>1. used' \in [ring : [Desc -> Heads], id : 0..VWRAP - 1]
    BY <1>7, <1>10, <1>13
  <2>2. dev' \in [last : 0..VWRAP - 1, busy : SUBSET Desc]
    BY <1>1, <1>11
  <2>3. moved' \subseteq Bufs
    BY <1>8, <1>12 DEF VdInv, VdTypeOK
  <2> QED BY <1>12, <2>1, <2>2, <2>3 DEF VdInv, VdTypeOK
<1>15. ChainInv' /\ OwnerInv'
  BY <1>12, SameChains DEF VdInv, VdTypeOK
<1>16. RingInv'
  BY <1>7, <1>9, <1>10, <1>11, <1>12, <1>13 DEF VdInv, RingInv, a
<1>17. Queued' = Queued /\ Finished' = Finished \cup {i}
  BY <1>6, <1>7, <1>10, <1>12, Places
<1>18. PlaceInv'
  <2>1. UNION {idx'[b] : b \in bdisk'} = Active
    BY <1>12 DEF Active
  <2>2. OnceIn(avail'.ring) /\ OnceIn(used'.ring)
    BY <1>4, <1>7, <1>10, <1>12
  <2>3. Queued' \cup dev'.busy \cup Finished' = Queued \cup dev.busy \cup Finished
    BY <1>5, <1>11, <1>17
  <2>4. Queued' \cap dev'.busy = {} /\ Queued' \cap Finished' = {} /\ dev'.busy \cap Finished' = {}
    BY <1>4, <1>5, <1>11, <1>17
  <2> QED BY <1>4, <2>1, <2>2, <2>3, <2>4 DEF PlaceInv
<1>19. MovedInv'
  BY <1>8, <1>12, <1>17 DEF VdInv, MovedInv
<1> QED BY <1>14, <1>15, <1>16, <1>18, <1>19 DEF VdInv

\* virtio_disk_intr() takes one element of the used ring.
LEMMA IntrOneInv == ASSUME VdInv, IntrOne PROVE VdInv'
<1> USE VirtioAssumption
<1> DEFINE a == used_idx
           r == used.ring
           h == r[a]
           u == (a + 1) % NUM
<1>1. /\ a \in Desc /\ a \in Nat /\ a \in 0..NUM - 1
      /\ r \in [Desc -> Heads] /\ used.id \in 0..VWRAP - 1
  BY DEF VdInv, VdTypeOK, Desc
<1>2. PICK n \in 0..NUM - 1 : used.id % NUM = (a + n) % NUM /\ RingOK(r, a, n)
  BY DEF VdInv, RingInv
<1>3. n # 0
  <2> SUFFICES ASSUME n = 0 PROVE FALSE
    OBVIOUS
  <2>1. a + n = a BY <1>1
  <2> QED BY <1>2, <2>1 DEF IntrOne
<1>4. a % NUM = a
  BY <1>1, ModSmall
<1>5. Slot(a, 0) = a
  BY <1>1, <1>4, SlotFacts
<1>6. u \in 0..NUM - 1 /\ u % NUM = (a + 1) % NUM
  <2>1. a + 1 \in Int BY <1>1
  <2>2. u \in 0..NUM - 1 BY <2>1, ModDef
  <2> QED BY <2>2, ModSmall
<1>7. /\ OnceIn(r) /\ Queued \cap dev.busy = {} /\ Queued \cap Finished = {}
      /\ dev.busy \cap Finished = {} /\ OnceIn(avail.ring)
      /\ Active = Queued \cup dev.busy \cup Finished
  BY DEF VdInv, PlaceInv, Active
<1>8. /\ RingOK(Put(r, a, NUM), u, n - 1) /\ OnceIn(Put(r, a, NUM))
      /\ h \in Cells(r) /\ Cells(Put(r, a, NUM)) = Cells(r) \ {h}
      /\ Put(r, a, NUM) \in [Desc -> Heads]
  <2>1. n \in 1..NUM - 1 /\ u \in Nat BY <1>2, <1>3, <1>6
  <2>2. /\ r \in [Desc -> Heads] /\ a \in Nat /\ RingOK(r, a, n) /\ OnceIn(r)
        /\ u % NUM = (a + 1) % NUM /\ Slot(a, 0) = a
    BY <1>1, <1>2, <1>5, <1>6, <1>7
  <2> HIDE DEF a, r, u
  <2>3. /\ RingOK(Put(r, Slot(a, 0), NUM), u, n - 1)
        /\ OnceIn(Put(r, Slot(a, 0), NUM)) /\ r[Slot(a, 0)] \in Cells(r)
        /\ Cells(Put(r, Slot(a, 0), NUM)) = Cells(r) \ {r[Slot(a, 0)]}
        /\ Put(r, Slot(a, 0), NUM) \in [Desc -> Heads]
    BY <2>1, <2>2, RingPop, SMTT(30)
  <2> QED BY <2>2, <2>3, Zenon DEF h
<1>9. Finished = Cells(r)
  BY Places
<1>10. PICK c \in bdisk, m, l \in Desc :
           /\ c \in Bufs /\ IsChain(c, h, m, l) /\ h \in Desc
           /\ \A e \in Bufs : h \in idx[e] => e = c
  <2>1. h \in Active BY <1>7, <1>8, <1>9
  <2> QED BY <2>1, ActiveFacts DEF VdInv
<1>11. idx[c] = {h} /\ info[h] = c
  BY <1>10 DEF IsChain
<1>12. /\ used' = [ring |-> Put(r, a, NUM), id |-> used.id]
       /\ used'.ring = Put(r, a, NUM) /\ used'.id = used.id /\ used_idx' = u
  BY DEF IntrOne, Put, VdInv, VdTypeOK
<1>13. /\ bdisk' = bdisk \ {c} /\ vpc' = WakeBuf(vpc, c)
       /\ UNCHANGED <<vfree, desc, info, avail, dev, moved, idx, vintr, vpanic>>
  BY <1>11 DEF IntrOne
<1>14. used.id % NUM = (u + (n - 1)) % NUM
  <2>1. a + 1 \in Int /\ n - 1 \in Int /\ u \in Int BY <1>1, <1>2, <1>6
  <2>2. (u + (n - 1)) % NUM = ((a + 1) + (n - 1)) % NUM
    <3>1. Cong(NUM, u, a + 1) BY <1>6, <2>1 DEF Cong
    <3> HIDE DEF a, u
    <3> QED BY <2>1, <3>1, CongAdd, ZenonT(40)
  <2>3. (a + 1) + (n - 1) = a + n BY <1>1, <1>2
  <2> QED BY <1>2, <2>2, <2>3
<1> HIDE DEF a, r, h, u
<1>15. vpc' \in [Bufs -> VdPcs] /\ \A b \in Bufs : vpc'[b] \in Busy <=> vpc[b] \in Busy
  <2>1. vpc \in [Bufs -> VdPcs] BY DEF VdInv, VdTypeOK, VdPcs
  <2> QED BY <1>10, <1>13, <2>1 DEF WakeBuf, VdPcs, Busy
<1>16. VdTypeOK'
  <2>1. used' \in [ring : [Desc -> Heads], id : 0..VWRAP - 1]
    BY <1>1, <1>8, <1>12
  <2>2. used_idx' \in Desc
    BY <1>6, <1>12 DEF Desc
  <2>3. bdisk' \subseteq Bufs
    BY <1>13 DEF VdInv, VdTypeOK
  <2> QED BY <1>13, <1>15, <2>1, <2>2, <2>3 DEF VdInv, VdTypeOK, VdPcs
<1>17. ChainInv' /\ OwnerInv'
  BY <1>13, <1>15, SameChains DEF VdInv, VdTypeOK
<1>18. RingInv'
  <2>1. n - 1 \in 0..NUM - 1 BY <1>2, <1>3
  <2> QED BY <1>8, <1>12, <1>13, <1>14, <2>1 DEF VdInv, RingInv
<1>19. Queued' = Queued /\ Finished' = Finished \ {h} /\ h \in Finished
  BY <1>8, <1>9, <1>12, <1>13, Places
<1>20. UNION {idx'[b] : b \in bdisk'} = Active \ {h}
  <2>1. \A k : k \in UNION {idx'[b] : b \in bdisk'} <=> \E b \in bdisk : b # c /\ k \in idx[b]
    BY <1>13
  <2>2. \A k : k \in Active <=> \E b \in bdisk : k \in idx[b]
    BY DEF Active
  <2>3. bdisk \subseteq Bufs
    BY DEF VdInv, VdTypeOK
  <2>4. \A b \in bdisk : h \in idx[b] => b = c
    BY <1>10, <2>3
  <2> QED BY <1>11, <2>1, <2>2, <2>4
<1>21. PlaceInv'
  <2>2. OnceIn(avail'.ring) /\ OnceIn(used'.ring)
    BY <1>7, <1>8, <1>12, <1>13
  <2>3. Queued' \cup dev'.busy \cup Finished' = (Queued \cup dev.busy \cup Finished) \ {h}
    BY <1>7, <1>13, <1>19
  <2>4. Queued' \cap dev'.busy = {} /\ Queued' \cap Finished' = {} /\ dev'.busy \cap Finished' = {}
    BY <1>7, <1>13, <1>19
  <2> QED BY <1>7, <1>20, <2>2, <2>3, <2>4 DEF PlaceInv
<1>22. MovedInv'
  BY <1>10, <1>11, <1>13, <1>19 DEF VdInv, MovedInv
<1> QED BY <1>16, <1>17, <1>18, <1>21, <1>22 DEF VdInv

-----------------------------------------------------------------------------
(* Taking and giving back a chain.                                         *)

\* alloc3_desc() succeeds and the head is published.
LEMMA RwSubmitInv == ASSUME VdInv, NEW b \in Bufs, RwSubmit(b) PROVE VdInv'
<1> USE VirtioAssumption
<1>1. /\ vfree \subseteq Desc /\ vfree \subseteq Nat /\ IsFiniteSet(vfree) /\ Cardinality(vfree) >= 3
  <2>1. vfree \subseteq Desc BY DEF VdInv, VdTypeOK
  <2>2. IsFiniteSet(Desc) BY FS_Interval DEF Desc
  <2>3. vfree \in SUBSET Desc BY <2>1
  <2>4. IsFiniteSet(vfree) BY <2>2, <2>3, FS_Subset
  <2>5. Desc \subseteq Nat BY DEF Desc
  <2> QED BY <2>1, <2>4, <2>5 DEF RwSubmit
<1>2. PICK x, y, z \in vfree :
           /\ x # y /\ y # z /\ x # z
           /\ Least3 = {x, y, z}
           /\ Nth(vfree, 0) = x
           /\ Nth(Least3, 0) = x /\ Nth(Least3, 1) = y /\ Nth(Least3, 2) = z
  BY <1>1, ThreeLeast
<1>3. x \in Desc /\ y \in Desc /\ z \in Desc
  BY <1>1, <1>2
<1>4. /\ vfree' = vfree \ {x, y, z} /\ bdisk' = bdisk \cup {b}
      /\ info' = [info EXCEPT ![x] = b] /\ idx' = [idx EXCEPT ![b] = {x}]
      /\ vpc' = [vpc EXCEPT ![b] = "bufsleep"] /\ vpc[b] = "alloc"
      /\ avail' = Post(avail, x)
      /\ UNCHANGED <<used, used_idx, dev, moved, vintr, vpanic>>
  BY <1>2 DEF RwSubmit
<1>5. desc' = [i \in Desc |-> IF i \in {x, y, z} THEN Chain(b, Least3, i) ELSE desc[i]]
  BY <1>2 DEF RwSubmit
<1>6. /\ Chain(b, Least3, x) = [b |-> b, next |-> {y}]
      /\ Chain(b, Least3, y) = [b |-> b, next |-> {z}]
      /\ Chain(b, Least3, z) = [b |-> b, next |-> {}]
  BY <1>2 DEF Chain
<1>7. /\ desc'[x] = [b |-> b, next |-> {y}]
      /\ desc'[y] = [b |-> b, next |-> {z}]
      /\ desc'[z] = [b |-> b, next |-> {}]
      /\ \A i \in Desc : i \notin {x, y, z} => desc'[i] = desc[i]
  BY <1>3, <1>5, <1>6
<1>8. /\ idx \in [Bufs -> SUBSET Desc] /\ info \in [Desc -> Bufs \cup {NoBuf}]
      /\ vpc \in [Bufs -> VdPcs]
      /\ desc \in [Desc -> [b : Bufs \cup {NoBuf}, next : SUBSET Desc]]
  BY DEF VdInv, VdTypeOK, VdPcs
<1>9. /\ idx'[b] = {x} /\ \A c \in Bufs : c # b => idx'[c] = idx[c]
      /\ info'[x] = b /\ \A i \in Desc : i # x => info'[i] = info[i]
      /\ vpc'[b] \in Busy /\ \A c \in Bufs : c # b => vpc'[c] = vpc[c]
      /\ vpc[b] \notin Busy
  BY <1>3, <1>4, <1>8 DEF Busy
<1>10. IsChain(b, x, y, z)'
  BY <1>2, <1>7, <1>9 DEF IsChain
<1>11. Held(b)' = {x, y, z}
  BY <1>3, <1>10, HeldFactsNext
<1>12. idx[b] = {} /\ Held(b) = {} /\ b \notin bdisk
  <2>1. b \notin bdisk BY <1>9 DEF VdInv, ChainInv, Busy
  <2> QED BY <1>9, <2>1, HeldFacts DEF VdInv
<1>13. ASSUME NEW c \in Bufs, c # b, vpc[c] \in Busy
       PROVE  /\ \E h, m, l \in Desc : IsChain(c, h, m, l)'
              /\ Held(c)' = Held(c)
  <2>1. PICK h, m, l \in Desc : IsChain(c, h, m, l) /\ Held(c) = {h, m, l}
    BY <1>13, HeldFacts DEF VdInv
  <2>2. \A i \in {h, m, l} : i \notin {x, y, z}
    BY <1>2, <2>1 DEF VdInv, OwnerInv
  <2>3. IsChain(c, h, m, l)'
    BY <1>7, <1>9, <1>13, <2>1, <2>2 DEF IsChain
  <2>4. Held(c)' = {h, m, l}
    BY <2>3, HeldFactsNext
  <2> QED BY <2>1, <2>3, <2>4
<1>14. ASSUME NEW c \in Bufs, c # b, vpc[c] \notin Busy
       PROVE  idx'[c] = {} /\ Held(c)' = Held(c)
  <2>1. idx[c] = {} /\ Held(c) = {} BY <1>14, HeldFacts DEF VdInv
  <2>2. idx'[c] = {} BY <1>9, <1>14, <2>1
  <2>3. Held(c)' = {} BY <2>2 DEF Held
  <2> QED BY <2>1, <2>2, <2>3
<1>15. ChainInv'
  <2>1. ASSUME NEW c \in Bufs
        PROVE  IF vpc'[c] \in {"bufsleep", "wait"}
                 THEN \E h, m, l \in Desc : IsChain(c, h, m, l)'
                 ELSE idx'[c] = {}
    <3>1. CASE c = b
      BY <1>3, <1>9, <1>10, <3>1 DEF Busy
    <3>2. CASE c # b
      BY <1>9, <1>13, <1>14, <3>2 DEF Busy
    <3> QED BY <3>1, <3>2
  <2>2. \A c \in bdisk' : vpc'[c] \in {"bufsleep", "wait"}
    BY <1>4, <1>9 DEF VdInv, ChainInv, VdTypeOK, Busy
  <2> QED BY <2>1, <2>2 DEF ChainInv
<1>16. \A c \in Bufs : c # b => Held(c)' = Held(c)
  BY <1>13, <1>14
<1>17. OwnerInv'
  <2>1. \A c \in Bufs : Held(c) \cap vfree = {}
    BY DEF VdInv, OwnerInv
  <2>2. \A c \in Bufs : Held(c)' \cap vfree' = {}
    BY <1>4, <1>11, <1>16, <2>1
  <2>3. \A c, e \in Bufs : c # e => Held(c)' \cap Held(e)' = {}
    <3> TAKE c, e \in Bufs
    <3> HAVE c # e
    <3>1. CASE c = b BY <1>2, <1>11, <1>16, <2>1, <3>1
    <3>2. CASE e = b BY <1>2, <1>11, <1>16, <2>1, <3>2
    <3>3. CASE c # b /\ e # b BY <1>16, <3>3 DEF VdInv, OwnerInv
    <3> QED BY <3>1, <3>2, <3>3
  <2>4. \A i \in Desc : i \in vfree' \/ \E c \in Bufs : i \in Held(c)'
    <3> TAKE i \in Desc
    <3>1. CASE i \in {x, y, z} BY <1>11, <3>1
    <3>2. CASE i \in vfree \ {x, y, z} BY <1>4, <3>2
    <3>3. CASE i \notin vfree
      <4>1. PICK c \in Bufs : i \in Held(c) BY <3>3 DEF VdInv, OwnerInv
      <4>2. c # b BY <1>12, <4>1
      <4> QED BY <1>16, <4>1, <4>2
    <3> QED BY <3>1, <3>2, <3>3
  <2> QED BY <2>2, <2>3, <2>4 DEF OwnerInv
<1>18. x \notin Active /\ y \notin Active
  BY <1>2, FreeNotActive DEF VdInv
<1>19. /\ OnceIn(avail.ring) /\ Queued \cap dev.busy = {} /\ Queued \cap Finished = {}
       /\ dev.busy \cap Finished = {} /\ OnceIn(used.ring)
       /\ Active = Queued \cup dev.busy \cup Finished
  BY DEF VdInv, PlaceInv, Active
<1> DEFINE a == dev.last
           r == avail.ring
           s == avail.idx % NUM
           d == (avail.idx + 1) % VWRAP
<1>20. /\ a \in Nat /\ r \in [Desc -> Heads] /\ avail.idx \in 0..VWRAP - 1 /\ avail.idx \in Int
  BY DEF VdInv, VdTypeOK
<1>21. PICK q \in 0..NUM - 1 : avail.idx = (a + q) % VWRAP /\ RingOK(r, a, q)
  BY DEF VdInv, RingInv
<1>22. s = Slot(a, q)
  <2>1. a + q \in Int BY <1>20, <1>21
  <2>2. ((a + q) % VWRAP) % NUM = (a + q) % NUM BY <2>1, ModWrap, ZenonT(40)
  <2> QED BY <1>21, <2>2 DEF Slot
<1>23. Queued = Cells(r) /\ x \notin Cells(r) /\ y \notin Cells(r)
  BY <1>18, <1>19, Places
<1>24. /\ RingOK(Put(r, s, x), a, q + 1) /\ OnceIn(Put(r, s, x))
       /\ Cells(Put(r, s, x)) = Cells(r) \cup {x} /\ Put(r, s, x) \in [Desc -> Heads]
  <2> HIDE DEF a, r, s
  <2> QED BY <1>3, <1>19, <1>20, <1>21, <1>22, <1>23, RingPush DEF r
<1>25. q + 1 \in 0..NUM - 1
  <2>1. y \notin Cells(Put(r, s, x)) BY <1>2, <1>23, <1>24
  <2>2. q + 1 \in 0..NUM BY <1>21
  <2> HIDE DEF a, r, s
  <2> QED BY <1>3, <1>20, <1>24, <2>1, <2>2, RingRoom
<1>26. /\ avail' = [ring |-> Put(r, s, x), idx |-> d]
       /\ avail'.ring = Put(r, s, x) /\ avail'.idx = d
  BY <1>4 DEF Post, Put
<1>27. d \in 0..VWRAP - 1 /\ d = (a + (q + 1)) % VWRAP
  <2>1. a + q \in Int /\ 1 \in Int /\ avail.idx + 1 \in Int BY <1>20, <1>21
  <2>2. avail.idx % VWRAP = (a + q) % VWRAP BY <1>20, <1>21, ModSmall
  <2>3. Cong(VWRAP, avail.idx, a + q) BY <1>20, <2>1, <2>2 DEF Cong
  <2>4. d = ((a + q) + 1) % VWRAP BY <2>1, <2>3, CongAdd
  <2>5. (a + q) + 1 = a + (q + 1) BY <1>20, <1>21
  <2>6. d \in 0..VWRAP - 1 BY <2>1, ModDef
  <2> QED BY <2>4, <2>5, <2>6
<1> HIDE DEF a, r, s, d
<1>28. VdTypeOK'
  <2>1. desc' \in [Desc -> [b : Bufs \cup {NoBuf}, next : SUBSET Desc]]
    <3> DEFINE R == [b : Bufs \cup {NoBuf}, next : SUBSET Desc]
    <3>1. /\ [b |-> b, next |-> {y}] \in R /\ [b |-> b, next |-> {z}] \in R
          /\ [b |-> b, next |-> {}] \in R
      BY <1>3
    <3>2. \A i \in Desc : desc'[i] \in R
      BY <1>7, <1>8, <3>1
    <3>3. desc' = [i \in Desc |-> desc'[i]]
      BY <1>5
    <3> HIDE DEF R
    <3>4. desc' \in [Desc -> R]
      BY <3>2, <3>3
    <3> QED BY <3>4 DEF R
  <2>2. info' \in [Desc -> Bufs \cup {NoBuf}] /\ idx' \in [Bufs -> SUBSET Desc]
        /\ vpc' \in [Bufs -> VdPcs]
    BY <1>3, <1>4, <1>8 DEF VdPcs
  <2>3. avail' \in [ring : [Desc -> Heads], idx : 0..VWRAP - 1]
    BY <1>24, <1>26, <1>27
  <2>4. vfree' \subseteq Desc /\ bdisk' \subseteq Bufs
    BY <1>4 DEF VdInv, VdTypeOK
  <2> QED BY <1>4, <2>1, <2>2, <2>3, <2>4 DEF VdInv, VdTypeOK, VdPcs
<1>29. RingInv'
  BY <1>4, <1>24, <1>25, <1>26, <1>27 DEF VdInv, RingInv, a
<1>30. Queued' = Queued \cup {x} /\ Finished' = Finished
  BY <1>4, <1>23, <1>24, <1>26, Places
<1>31. PlaceInv'
  <2>1. UNION {idx'[c] : c \in bdisk'} = Active \cup {x}
    <3>1. \A k : k \in UNION {idx'[c] : c \in bdisk'} <=> \E c \in bdisk' : k \in idx'[c]
      OBVIOUS
    <3>2. \A k : k \in Active <=> \E c \in bdisk : k \in idx[c]
      BY DEF Active
    <3>3. \A c \in bdisk : c # b /\ idx'[c] = idx[c]
      BY <1>9, <1>12 DEF VdInv, VdTypeOK
    <3> QED BY <1>4, <1>9, <3>1, <3>2, <3>3
  <2>2. OnceIn(avail'.ring) /\ OnceIn(used'.ring)
    BY <1>4, <1>19, <1>24, <1>26
  <2>3. dev'.busy = dev.busy
    BY <1>4
  <2>4. Queued' \cup dev'.busy \cup Finished' = Active \cup {x}
    BY <1>19, <1>30, <2>3
  <2>5. Queued' \cap dev'.busy = {} /\ Queued' \cap Finished' = {} /\ dev'.busy \cap Finished' = {}
    BY <1>18, <1>19, <1>30, <2>3
  <2> QED BY <2>1, <2>2, <2>4, <2>5 DEF PlaceInv
<1>32. MovedInv'
  <2>1. x \notin Finished
    BY <1>18, <1>19
  <2> QED BY <1>4, <1>9, <1>30, <2>1 DEF VdInv, MovedInv
<1> QED BY <1>15, <1>17, <1>28, <1>29, <1>31, <1>32 DEF VdInv

\* free_chain() gives back a chain that the device is done with.
LEMMA RwReturnInv == ASSUME VdInv, NEW b \in Bufs, RwReturn(b) PROVE VdInv'
<1> USE VirtioAssumption
<1>1. /\ vpc[b] = "wait" /\ vpc[b] \in Busy /\ b \notin bdisk
  BY DEF RwReturn, Busy
<1>2. PICK x, y, z \in Desc : IsChain(b, x, y, z) /\ Held(b) = {x, y, z}
  BY <1>1, HeldFacts DEF VdInv
<1>3. FreedBy(b) = Held(b)
  BY HeldIs
<1>4. /\ info' = [i \in Desc |-> IF i \in idx[b] THEN NoBuf ELSE info[i]]
      /\ vfree' = vfree \cup {x, y, z}
      /\ desc' = [i \in Desc |-> IF i \in {x, y, z} THEN NoDesc ELSE desc[i]]
      /\ vpc' = [WakeFree(vpc) EXCEPT ![b] = "idle"]
      /\ idx' = [idx EXCEPT ![b] = {}]
      /\ UNCHANGED <<avail, used, used_idx, dev, bdisk, moved, vintr>>
  BY <1>2, <1>3 DEF RwReturn
<1>5. Held(b) \cap vfree = {}
  BY DEF VdInv, OwnerInv
<1>6. vpanic' = FALSE
  <2>1. vpanic' = (vpanic \/ FreedBy(b) \cap vfree # {})
    BY DEF RwReturn
  <2>2. FreedBy(b) \cap vfree = {}
    BY <1>3, <1>5
  <2>3. vpanic = FALSE
    BY DEF VdInv, VdTypeOK
  <2> QED BY <2>1, <2>2, <2>3, Zenon
<1>7. /\ idx \in [Bufs -> SUBSET Desc] /\ info \in [Desc -> Bufs \cup {NoBuf}]
      /\ vpc \in [Bufs -> VdPcs]
      /\ desc \in [Desc -> [b : Bufs \cup {NoBuf}, next : SUBSET Desc]]
  BY DEF VdInv, VdTypeOK, VdPcs
<1>8. WakeFree(vpc) \in [Bufs -> VdPcs] /\ \A c \in Bufs : WakeFree(vpc)[c] \in Busy <=> vpc[c] \in Busy
  BY <1>7, WakeFreeFacts
<1>9. /\ idx'[b] = {} /\ \A c \in Bufs : c # b => idx'[c] = idx[c]
      /\ \A i \in Desc : i \notin {x, y, z} => info'[i] = info[i] /\ desc'[i] = desc[i]
      /\ vpc'[b] \notin Busy /\ vpc' \in [Bufs -> VdPcs]
      /\ \A c \in Bufs : c # b => (vpc'[c] \in Busy <=> vpc[c] \in Busy)
  <2>1. idx'[b] = {} /\ \A c \in Bufs : c # b => idx'[c] = idx[c]
    BY <1>4, <1>7
  <2>2. \A i \in Desc : i \notin {x, y, z} => info'[i] = info[i] /\ desc'[i] = desc[i]
    BY <1>2, <1>4 DEF IsChain
  <2>3. vpc'[b] \notin Busy /\ vpc' \in [Bufs -> VdPcs]
    BY <1>4, <1>8 DEF Busy, VdPcs
  <2>4. \A c \in Bufs : c # b => (vpc'[c] \in Busy <=> vpc[c] \in Busy)
    BY <1>4, <1>8
  <2> QED BY <2>1, <2>2, <2>3, <2>4
<1>10. ASSUME NEW c \in Bufs, c # b, vpc[c] \in Busy
       PROVE  /\ \E h, m, l \in Desc : IsChain(c, h, m, l)'
              /\ Held(c)' = Held(c)
  <2>1. PICK h, m, l \in Desc : IsChain(c, h, m, l) /\ Held(c) = {h, m, l}
    BY <1>10, HeldFacts DEF VdInv
  <2>2. \A i \in {h, m, l} : i \notin {x, y, z}
    BY <1>2, <1>10, <2>1 DEF VdInv, OwnerInv
  <2>3. IsChain(c, h, m, l)'
    BY <1>9, <1>10, <2>1, <2>2 DEF IsChain
  <2>4. Held(c)' = {h, m, l}
    BY <2>3, HeldFactsNext
  <2> QED BY <2>1, <2>3, <2>4
<1>11. ASSUME NEW c \in Bufs, c # b, vpc[c] \notin Busy
       PROVE  idx'[c] = {} /\ Held(c)' = Held(c)
  <2>1. idx[c] = {} /\ Held(c) = {} BY <1>11, HeldFacts DEF VdInv
  <2>2. idx'[c] = {} BY <1>9, <1>11, <2>1
  <2>3. Held(c)' = {} BY <2>2 DEF Held
  <2> QED BY <2>1, <2>2, <2>3
<1>12. Held(b)' = {}
  BY <1>9 DEF Held
<1>13. ChainInv'
  <2>1. ASSUME NEW c \in Bufs
        PROVE  IF vpc'[c] \in {"bufsleep", "wait"}
                 THEN \E h, m, l \in Desc : IsChain(c, h, m, l)'
                 ELSE idx'[c] = {}
    <3>1. CASE c = b
      BY <1>9, <3>1 DEF Busy
    <3>2. CASE c # b
      BY <1>9, <1>10, <1>11, <3>2 DEF Busy
    <3> QED BY <3>1, <3>2
  <2>2. \A c \in bdisk' : vpc'[c] \in {"bufsleep", "wait"}
    <3>1. \A c \in bdisk : c \in Bufs /\ c # b /\ vpc[c] \in Busy
      BY <1>1 DEF VdInv, ChainInv, VdTypeOK, Busy
    <3> QED BY <1>4, <1>9, <3>1 DEF Busy
  <2> QED BY <2>1, <2>2 DEF ChainInv
<1>14. \A c \in Bufs : c # b => Held(c)' = Held(c)
  BY <1>10, <1>11
<1>15. OwnerInv'
  <2>1. \A c \in Bufs : Held(c)' \cap vfree' = {}
    BY <1>2, <1>4, <1>12, <1>14 DEF VdInv, OwnerInv
  <2>2. \A c, e \in Bufs : c # e => Held(c)' \cap Held(e)' = {}
    BY <1>12, <1>14 DEF VdInv, OwnerInv
  <2>3. \A i \in Desc : i \in vfree' \/ \E c \in Bufs : i \in Held(c)'
    BY <1>2, <1>4, <1>14 DEF VdInv, OwnerInv
  <2> QED BY <2>1, <2>2, <2>3 DEF OwnerInv
<1>16. VdTypeOK'
  <2>1. desc' \in [Desc -> [b : Bufs \cup {NoBuf}, next : SUBSET Desc]]
    <3>1. NoDesc \in [b : Bufs \cup {NoBuf}, next : SUBSET Desc]
      BY DEF NoDesc
    <3> QED BY <1>4, <1>7, <3>1
  <2>2. info' \in [Desc -> Bufs \cup {NoBuf}] /\ idx' \in [Bufs -> SUBSET Desc]
    BY <1>4, <1>7
  <2>3. vfree' \subseteq Desc
    BY <1>4 DEF VdInv, VdTypeOK
  <2> QED BY <1>4, <1>6, <1>9, <2>1, <2>2, <2>3 DEF VdInv, VdTypeOK, VdPcs
<1>17. RingInv'
  BY <1>4 DEF VdInv, RingInv
<1>18. Queued' = Queued /\ Finished' = Finished
  BY <1>4 DEF Queued, Finished
<1>19. PlaceInv'
  <2>1. UNION {idx'[c] : c \in bdisk'} = UNION {idx[c] : c \in bdisk}
    <3>1. \A c \in bdisk : c \in Bufs /\ c # b
      BY <1>1 DEF VdInv, VdTypeOK
    <3> QED BY <1>4, <1>9, <3>1
  <2> QED BY <1>4, <1>18, <2>1 DEF VdInv, PlaceInv
<1>20. MovedInv'
  BY <1>4, <1>9, <1>18 DEF VdInv, MovedInv
<1> QED BY <1>13, <1>15, <1>16, <1>17, <1>19, <1>20 DEF VdInv

-----------------------------------------------------------------------------
(* The theorems.                                                           *)

\* Every step of the driver, of the device and of a killed caller keeps VdInv.
LEMMA StepInv == VdInv /\ [VdNext]_vdVars => VdInv'
<1> SUFFICES ASSUME VdInv, [VdNext]_vdVars PROVE VdInv'
  OBVIOUS
<1>1. ASSUME NEW b \in Bufs, RwCall(b) PROVE VdInv' BY <1>1, RwCallInv
<1>2. ASSUME NEW b \in Bufs, RwNoDesc(b) PROVE VdInv' BY <1>2, RwNoDescInv
<1>3. ASSUME NEW b \in Bufs, RwSubmit(b) PROVE VdInv' BY <1>3, RwSubmitInv
<1>4. ASSUME NEW b \in Bufs, RwAgain(b) PROVE VdInv' BY <1>4, RwAgainInv
<1>5. ASSUME NEW b \in Bufs, RwReturn(b) PROVE VdInv' BY <1>5, RwReturnInv
<1>6. ASSUME NEW b \in Bufs, KillWake(b) PROVE VdInv' BY <1>6, KillWakeInv
<1>7. ASSUME NEW b \in Bufs, DevDoneFor(b) PROVE VdInv'
  <2>1. PICK i \in Desc : DevDone(i) BY <1>7 DEF DevDoneFor
  <2> QED BY <2>1, DevDoneInv
<1>8. CASE IntrEnter \/ IntrExit BY <1>8, IntrEndsInv
<1>9. CASE IntrOne BY <1>9, IntrOneInv
<1>10. CASE DevFetch BY <1>10, DevFetchInv
<1>11. CASE UNCHANGED vdVars
  <2>1. UNCHANGED <<vfree, desc, info, avail, used, used_idx, dev, bdisk, moved, vpc, idx, vintr, vpanic>>
    BY <1>11 DEF vdVars
  <2>2. VdTypeOK'
    BY <2>1 DEF VdInv, VdTypeOK
  <2> QED BY <2>1, <2>2, QuietInv
<1> QED BY <1>1, <1>2, <1>3, <1>4, <1>5, <1>6, <1>7, <1>8, <1>9, <1>10, <1>11 DEF VdNext

\* The strengthened invariant holds always.
THEOREM VirtioInvariant == VdSpec => []VdInv
<1>1. VdInit => VdInv BY VdInitInv
<1>2. VdInv /\ [VdNext]_vdVars => VdInv' BY StepInv
<1> QED BY <1>1, <1>2, PTL DEF VdSpec

\* The driver's variables keep their types, and free_desc() never panics.
THEOREM VirtioTypeCorrect == VdSpec => []VdTypeOK
<1>1. VdInv => VdTypeOK BY DEF VdInv
<1> QED BY <1>1, VirtioInvariant, PTL

\* b->disk is set for as many buffers as there are heads on their way.
LEMMA ActiveCount ==
  ASSUME VdInv
  PROVE  Cardinality(Queued) + Cardinality(dev.busy) + Cardinality(Finished)
           = Cardinality(bdisk)
<1> USE VirtioAssumption
<1>1. IsFiniteSet(bdisk) /\ bdisk \subseteq Bufs
  <2>1. bdisk \in SUBSET Bufs BY DEF VdInv, VdTypeOK
  <2> QED BY <2>1, FS_Subset
<1>2. /\ Queued \cap dev.busy = {} /\ Queued \cap Finished = {} /\ dev.busy \cap Finished = {}
      /\ Active = (Queued \cup dev.busy) \cup Finished
  BY DEF VdInv, PlaceInv, Active
<1> DEFINE f == [b \in bdisk |-> CHOOSE h \in Desc : idx[b] = {h}]
<1>3. \A b \in bdisk : f[b] \in Desc /\ idx[b] = {f[b]}
  <2> TAKE b \in bdisk
  <2>1. b \in Bufs /\ vpc[b] \in {"bufsleep", "wait"}
    BY <1>1 DEF VdInv, ChainInv
  <2>2. \E h \in Desc : idx[b] = {h}
    BY <2>1 DEF VdInv, ChainInv, IsChain
  <2> QED BY <2>2
<1>4. \A b \in bdisk : f[b] \in Active
  BY <1>3 DEF Active
<1>5. f \in [bdisk -> Active]
  BY <1>4
<1>6. \A i \in Active : \E b \in bdisk : f[b] = i
  BY <1>3 DEF Active
<1>7. \A b, c \in bdisk : f[b] = f[c] => b = c
  <2> TAKE b, c \in bdisk
  <2> HAVE f[b] = f[c]
  <2>1. b \in Bufs /\ c \in Bufs /\ f[b] \in idx[b] /\ f[b] \in idx[c] BY <1>1, <1>3
  <2>2. f[b] \in Held(b) /\ f[b] \in Held(c) BY <2>1, HeldFacts DEF VdInv
  <2> QED BY <2>1, <2>2 DEF VdInv, OwnerInv
<1> HIDE DEF f
<1>8. f \in Bijection(bdisk, Active)
  BY <1>5, <1>6, <1>7 DEF Bijection, Injection, Surjection, IsInjective
<1>9. IsFiniteSet(Active) /\ Cardinality(Active) = Cardinality(bdisk)
  <2>1. ExistsBijection(bdisk, Active) BY <1>8 DEF ExistsBijection
  <2> QED BY <1>1, <2>1, FS_Bijection
<1> DEFINE Q == Queued
           B == dev.busy
           F == Finished
<1>10. Q \in SUBSET Active /\ B \in SUBSET Active /\ F \in SUBSET Active
       /\ Active = (Q \cup B) \cup F /\ Q \cap B = {} /\ (Q \cup B) \cap F = {}
  BY <1>2
<1> HIDE DEF Q, B, F
<1>11. IsFiniteSet(Q) /\ IsFiniteSet(B) /\ IsFiniteSet(F)
  BY <1>9, <1>10, FS_Subset
<1>12. Cardinality(Q) \in Nat /\ Cardinality(B) \in Nat /\ Cardinality(F) \in Nat
  BY <1>11, FS_CardinalityType
<1>13. IsFiniteSet(Q \cup B) /\ Cardinality(Q \cup B) = Cardinality(Q) + Cardinality(B) - Cardinality(Q \cap B)
  BY <1>11, FS_Union
<1>14. Cardinality((Q \cup B) \cup F)
         = Cardinality(Q \cup B) + Cardinality(F) - Cardinality((Q \cup B) \cap F)
  BY <1>11, <1>13, FS_Union
<1>15. Cardinality({}) = 0
  BY FS_EmptySet
<1>16. Cardinality(Active) = Cardinality(Q) + Cardinality(B) + Cardinality(F)
  <2>1. Cardinality(Q \cap B) = 0 /\ Cardinality((Q \cup B) \cap F) = 0
    BY <1>10, <1>15
  <2>2. Cardinality(Active) = Cardinality((Q \cup B) \cup F)
    BY <1>10
  <2>3. Cardinality(Q \cup B) = Cardinality(Q) + Cardinality(B)
    BY <1>12, <1>13, <2>1
  <2>4. Cardinality((Q \cup B) \cup F) = Cardinality(Q \cup B) + Cardinality(F)
    BY <1>12, <1>14, <2>1, <2>3
  <2> QED BY <2>2, <2>3, <2>4
<1> QED BY <1>9, <1>16 DEF Q, B, F

\* The invariant contains the property that MCMemDiskSafety.cfg checks.
LEMMA InvImpliesDescOwned == VdInv => DescOwned
<1> SUFFICES ASSUME VdInv PROVE DescOwned
  OBVIOUS
<1>1. ~vpanic
  BY Zenon DEF VdInv, VdTypeOK
<1>2. ASSUME NEW b \in Bufs
      PROVE  /\ Held(b) \subseteq Desc
             /\ vpc[b] \in {"bufsleep", "wait"} => Cardinality(Held(b)) = 3
  <2>1. CASE vpc[b] \in Busy
    <3>1. PICK h, m, l \in Desc : IsChain(b, h, m, l) /\ Held(b) = {h, m, l}
      BY <2>1, HeldFacts DEF VdInv
    <3>2. h # m /\ m # l /\ h # l
      BY <3>1 DEF IsChain
    <3>3. Cardinality({h, m, l}) = 3
      BY <3>2, CardTriple
    <3> QED BY <3>1, <3>3
  <2>2. CASE vpc[b] \notin Busy
    BY <2>2, HeldFacts DEF VdInv, Busy
  <2> QED BY <2>1, <2>2
<1>3. Desc = vfree \cup UNION {Held(b) : b \in Bufs}
  <2>1. vfree \subseteq Desc
    BY DEF VdInv, VdTypeOK
  <2>2. UNION {Held(b) : b \in Bufs} \subseteq Desc
    BY <1>2
  <2>3. \A i \in Desc : i \in vfree \/ i \in UNION {Held(b) : b \in Bufs}
    BY DEF VdInv, OwnerInv
  <2> QED BY <2>1, <2>2, <2>3
<1>4. \A b \in Bufs : Held(b) \cap vfree = {} /\ \A c \in Bufs \ {b} : Held(b) \cap Held(c) = {}
  BY DEF VdInv, OwnerInv
<1>5. \A b \in Bufs : idx[b] # {} /\ b \notin bdisk => b \in moved
  BY DEF VdInv, MovedInv
<1>6. UNION {idx[b] : b \in bdisk} = Queued \cup dev.busy \cup Finished
  BY DEF VdInv, PlaceInv
<1>7. Cardinality(Queued) + Cardinality(dev.busy) + Cardinality(Finished) = Cardinality(bdisk)
  BY ActiveCount
<1> QED BY <1>1, <1>2, <1>3, <1>4, <1>5, <1>6, <1>7 DEF DescOwned

\* For every number of descriptors and buffers and every width of the indices,
\* the descriptors are divided between the free list and the calls in progress,
\* free_desc() never panics, each head is in one place, and b->disk is cleared
\* only for a transfer that has been done.
THEOREM DescriptorsOwned == VdSpec => []DescOwned
<1>1. VdInv => DescOwned BY InvImpliesDescOwned
<1> QED BY <1>1, VirtioInvariant, PTL
=============================================================================
