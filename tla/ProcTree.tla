----------------------------- MODULE ProcTree -----------------------------
(* What fork(), exit() and wait() promise, without locks, scans or        *)
(* sleeping: a tree of processes in which a process gets a fresh pid and  *)
(* a parent, exits only once its children have been handed to init, and   *)
(* stays a zombie until its own parent frees it.                          *)
EXTENDS Integers

CONSTANTS Slots, initproc, NoProc

VARIABLES status,   \* "free", "live" or "zombie"
          parent,   \* the parent's slot
          pid,      \* 0 in a free slot
          fresh     \* no process has had this pid or a larger one

vars == <<status, parent, pid, fresh>>

Init ==
  /\ status = [s \in Slots |-> IF s = initproc THEN "live" ELSE "free"]
  /\ parent = [s \in Slots |-> NoProc]
  /\ pid = [s \in Slots |-> IF s = initproc THEN 1 ELSE 0]
  /\ fresh = 2

Fork(p, c) ==
  /\ status[p] = "live" /\ status[c] = "free"
  /\ status' = [status EXCEPT ![c] = "live"]
  /\ parent' = [parent EXCEPT ![c] = p]
  /\ pid' = [pid EXCEPT ![c] = fresh]
  /\ fresh' = fresh + 1

\* A fork that fails may use up a pid.
FailedFork ==
  /\ fresh' = fresh + 1
  /\ UNCHANGED <<status, parent, pid>>

\* An exiting process hands a child to init.
GiveAway(p, c) ==
  /\ p # initproc /\ status[p] = "live" /\ parent[c] = p
  /\ parent' = [parent EXCEPT ![c] = initproc]
  /\ UNCHANGED <<status, pid, fresh>>

Exit(p) ==
  /\ p # initproc /\ status[p] = "live"
  /\ \A c \in Slots : parent[c] # p
  /\ status' = [status EXCEPT ![p] = "zombie"]
  /\ UNCHANGED <<parent, pid, fresh>>

Reap(p, c) ==
  /\ status[p] = "live" /\ parent[c] = p /\ status[c] = "zombie"
  /\ status' = [status EXCEPT ![c] = "free"]
  /\ parent' = [parent EXCEPT ![c] = NoProc]
  /\ pid' = [pid EXCEPT ![c] = 0]
  /\ UNCHANGED fresh

Next == \/ FailedFork
        \/ \E p \in Slots : Exit(p)
        \/ \E p, c \in Slots : Fork(p, c) \/ GiveAway(p, c) \/ Reap(p, c)

Spec == Init /\ [][Next]_vars
===========================================================================
