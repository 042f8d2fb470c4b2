----------------------------- MODULE MCVmixPolling -----------------------------
(***************************************************************************)
(* Small instances of VmixPolling: one production, two addresses.          *)
(***************************************************************************)
EXTENDS VmixPolling, TLC

ObjectSymmetry == Permutations(Instances)
=============================================================================
