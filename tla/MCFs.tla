-------------------------------- MODULE MCFs --------------------------------
(* Fs for TLC.                                                             *)
EXTENDS Fs, TLC
CONSTANTS p1, p2

Abs(names) == [abs |-> TRUE, path |-> names]
Rel(names) == [abs |-> FALSE, path |-> names]

\* A directory a and the file b: names in the root and in a, "." as a last
\* element, and calls relative to the current directory.
SmallCalls ==
  {sys_mkdir(Rel(<<"a">>)), sys_mknod(Rel(<<"a">>)),
   sys_create(Abs(<<"a", "b">>)), sys_create(Abs(<<"a", ".">>)),
   sys_open(Rel(<<"b">>)),
   sys_unlink(Abs(<<"a">>)), sys_unlink(Rel(<<"b">>)), sys_unlink(Abs(<<"a", ".">>)),
   sys_link(Abs(<<"b">>), Abs(<<"a", "b">>)), sys_chdir(Abs(<<"a">>))}

\* Directories inside each other, removed while one is the current directory.
DotdotCalls ==
  {sys_mkdir(Abs(<<"a">>)), sys_mkdir(Abs(<<"a", "b">>)), sys_chdir(Abs(<<"a", "b">>)),
   sys_unlink(Abs(<<"a", "b">>)), sys_unlink(Abs(<<"a">>)), sys_chdir(Rel(<<"..">>))}

Symmetry == Permutations(Procs)
=============================================================================
