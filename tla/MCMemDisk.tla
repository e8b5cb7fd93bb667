----------------------------- MODULE MCMemDisk -----------------------------
(* User memory, the disk driver and the buddy allocator, in one run: each      *)
(* behaviour exercises one of the three, which share no state, and the others *)
(* keep their initial state.                                                  *)
EXTENDS MCVm, Virtio, Buddy

VARIABLE part

SmallHeaps == {320, 500, 512, 728}

PartInit == /\ part \in {"vm", "virtio", "buddy"}
            /\ VmInit /\ VdInit /\ BdInit
            /\ part = "buddy" \/ bd.end = 512
            /\ part = "vm" \/ held = {}
PartNext ==
  /\ \/ part = "vm" /\ VmNext /\ UNCHANGED <<vdVars, bdVars>>
     \/ part = "virtio" /\ VdNext /\ UNCHANGED <<vmVars, bdVars>>
     \/ part = "buddy" /\ BdNext /\ UNCHANGED <<vmVars, vdVars>>
  /\ UNCHANGED part
\* The only liveness is the disk driver's.
PartSpec == PartInit /\ [][PartNext]_<<vmVars, vdVars, bdVars, part>> /\ VdFair
=============================================================================
