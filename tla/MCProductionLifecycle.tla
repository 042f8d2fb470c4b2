------------------------- MODULE MCProductionLifecycle -------------------------
(***************************************************************************)
(* Small instances of ProductionLifecycle.                                 *)
(***************************************************************************)
EXTENDS ProductionLifecycle, TLC

EveryStatus == Statuses
ClientSymmetry == Permutations(Clients)
=============================================================================
