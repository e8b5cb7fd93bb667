------------------------------ MODULE MCBcache ------------------------------
(* Bcache for TLC.                                                         *)
EXTENDS Bcache, TLC
CONSTANTS p1, p2, p3, k1, k2, k3, k4

\* Processes and blocks are interchangeable; the safety properties treat them so.
Symmetry == Permutations(Procs) \cup Permutations(Blocks)
=============================================================================
