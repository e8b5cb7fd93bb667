-------------------------------- MODULE MCVm --------------------------------
(* Vm for TLC.                                                             *)
EXTENDS Vm
SmallDeltas == {1, 3, -1, -4, -20}
Seg(v, msz, fsz, r) == [vaddr |-> v, memsz |-> msz, filesz |-> fsz, readable |-> r]
SmallPrograms ==
  {<<Seg(0, 3, 3, TRUE)>>, <<Seg(0, 2, 2, TRUE), Seg(2, 1, 0, TRUE)>>,
   <<Seg(0, 2, 2, TRUE), Seg(3, 1, 1, TRUE)>>, <<Seg(0, 2, 1, FALSE)>>, <<Seg(0, 1, 2, TRUE)>>, <<>>}
\* A program of two segments that can be loaded whenever memory suffices.
GoodPrograms == {<<Seg(0, 2, 2, TRUE), Seg(2, 1, 0, TRUE)>>}
=============================================================================
