------------------------------- MODULE MCLog -------------------------------
(* Model checking of Log: the sizes are in the configurations.             *)
EXTENDS Log, TLC

CONSTANTS p1, p2, p3

Two == {p1, p2}
Three == {p1, p2, p3}
SymTwo == Permutations(Two)
SymThree == Permutations(Three)
============================================================================
