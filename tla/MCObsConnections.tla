-------------------------- MODULE MCObsConnections --------------------------
(***************************************************************************)
(* Small instances of ObsConnections: one production with the default      *)
(* connection, an added one, and the id connectObs falls back to.          *)
(***************************************************************************)
EXTENDS ObsConnections, TLC

CONSTANTS prod, main, extra, fallback

MCOwner == [c \in Conns |-> prod]
MCDefault == [q \in {prod} |-> main]
MCFallback == [q \in {prod} |-> fallback]

ObjectSymmetry == Permutations(Instances)
=============================================================================
