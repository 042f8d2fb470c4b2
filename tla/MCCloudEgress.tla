------------------------------ MODULE MCCloudEgress ----------------------------
(***************************************************************************)
(* Small instances of CloudEgress.                                         *)
(***************************************************************************)
EXTENDS CloudEgress, TLC

Anonymous == Permutations(Clients) \cup Permutations(Egresses) \cup Permutations(Destinations)
=============================================================================
