--------------------------- MODULE MCLogDataShell ---------------------------
(* The log's space, the contents of files and the shells, in one run: each    *)
(* behaviour exercises one of the three, which share no state here, and the   *)
(* others keep their initial state.                                           *)
EXTENDS MCLog, FileData, Shell

VARIABLE part

\* Short lines of all characters, longer ones of words, blanks and redirections.
Lines == {[chars |-> Chars, max |-> 5], [chars |-> {"a", " ", "<", ">"}, max |-> 7]}

PartInit == /\ part \in {"log", "data", "shell"} /\ Init /\ FdInit /\ ShInit
            /\ \A i \in FInums : part = "data" <=> fs.size[i] > 0
PartNext ==
  /\ \/ part = "log" /\ Next /\ UNCHANGED <<fdVars, line>>
     \/ part = "data" /\ FdNext /\ UNCHANGED <<vars, line>>
     \/ part = "shell" /\ ShNext /\ UNCHANGED <<vars, fdVars>>
  /\ UNCHANGED part
\* The only liveness is the log's.
PartSpec == /\ PartInit /\ [][PartNext]_<<vars, fdVars, line, part>>
            /\ Fairness
=============================================================================
