---------------------------- MODULE MCFsConsole ----------------------------
(* Names and inodes, and the console, in one run: each behaviour exercises    *)
(* one of the two, which share no state, and the other keeps its initial      *)
(* state.  Processes are interchangeable in both.                             *)
EXTENDS MCFs, Console

VARIABLE part

PartInit == part \in {"fs", "console"} /\ Init /\ CsInit
PartNext == /\ \/ part = "fs" /\ Next /\ UNCHANGED csVars
               \/ part = "console" /\ CsNext /\ UNCHANGED vars
            /\ UNCHANGED part
PartSpec == PartInit /\ [][PartNext]_<<vars, csVars, part>>
=============================================================================
