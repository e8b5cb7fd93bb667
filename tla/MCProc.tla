------------------------------ MODULE MCProc ------------------------------
(* Model checking of Proc: the bounds are in the configurations.          *)
EXTENDS Proc
===========================================================================
