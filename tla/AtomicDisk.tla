---------------------------- MODULE AtomicDisk ----------------------------
(* What the logging layer promises the file system: system calls update   *)
(* blocks in memory, and a crash takes the disk back to a moment at which *)
(* no system call was between begin_op() and end_op().                    *)
CONSTANTS Procs, Home

VARIABLES mem,      \* block contents as the running kernel sees them
          stable,   \* block contents a crash would leave
          active    \* the processes inside a file system operation

vars == <<mem, stable, active>>

Init == mem = stable /\ active = {}

Begin(p) == p \notin active /\ active' = active \cup {p}
              /\ UNCHANGED <<mem, stable>>

End(p) == p \in active /\ active' = active \ {p} /\ UNCHANGED <<mem, stable>>

Write(p) == /\ p \in active
            /\ \E b \in Home : mem' = [mem EXCEPT ![b] = mem'[b]]
            /\ UNCHANGED <<stable, active>>

Commit == active = {} /\ stable' = mem /\ UNCHANGED <<mem, active>>

Crash == mem' = stable /\ active' = {} /\ UNCHANGED stable

Next == \/ Commit \/ Crash
        \/ \E p \in Procs : Begin(p) \/ End(p) \/ Write(p)

Spec == Init /\ [][Next]_vars
===========================================================================
