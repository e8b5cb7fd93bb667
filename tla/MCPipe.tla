------------------------------- MODULE MCPipe -------------------------------
(* Pipe for TLC.                                                           *)
EXTENDS Pipe
CONSTANTS p1, p2, p3, a, b
=============================================================================
