---------------------------- MODULE MCLogCpuFile ----------------------------
(* The log under crashes, CPUs under timer interrupts and the file table, in  *)
(* one run: each behaviour exercises one of the three, which share no state   *)
(* here, and the others keep their initial state.                             *)
EXTENDS MCLog, Sched, File

VARIABLE part

PartInit == part \in {"log", "cpus", "files"} /\ Init /\ ScInit /\ FlInit
PartNext ==
  /\ \/ part = "log" /\ Next /\ UNCHANGED <<scVars, flVars>>
     \/ part = "cpus" /\ ScNext /\ UNCHANGED <<vars, flVars>>
     \/ part = "files" /\ FlNext /\ UNCHANGED <<vars, scVars>>
  /\ UNCHANGED part
PartSpec == PartInit /\ [][PartNext]_<<vars, scVars, flVars, part>>
=============================================================================
