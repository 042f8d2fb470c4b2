-------------------------------- MODULE MCStudio --------------------------------
(***************************************************************************)
(* Small instances of what runs beside the engines: schedules over cloud   *)
(* streams, SRS hubs, OBS connections that are up, the slots of guests,    *)
(* and overlays with their match.  They share no state: a behaviour is one *)
(* of a single component, chosen at the start.                             *)
(***************************************************************************)
EXTENDS StreamScheduler, SrsHub, ObsRuntime, GuestSlots, Scoreboard, TLC

VARIABLE component

studioVars == <<component, schedulerVars, hubVars, runtimeVars, guestVars, scoreVars>>

StudioInit ==
  /\ component \in {"scheduler", "hub", "runtime", "guests", "score"}
  /\ SchedulerInit /\ HubInit /\ RuntimeInit /\ GuestInit /\ ScoreInit
  /\ ~app /\ (component # "guests" => engineType = "OBS")

NextOf ==
  \/ /\ component = "scheduler" /\ SchedulerNext
     /\ UNCHANGED <<hubVars, runtimeVars, guestVars, scoreVars>>
  \/ /\ component = "hub" /\ HubNext
     /\ UNCHANGED <<schedulerVars, runtimeVars, guestVars, scoreVars>>
  \/ /\ component = "runtime" /\ RuntimeNext
     /\ UNCHANGED <<schedulerVars, hubVars, guestVars, scoreVars>>
  \/ /\ component = "guests" /\ GuestNext
     /\ UNCHANGED <<schedulerVars, hubVars, runtimeVars, scoreVars>>
  \/ /\ component = "score" /\ ScoreNext
     /\ UNCHANGED <<schedulerVars, hubVars, runtimeVars, guestVars>>

StudioNext == NextOf /\ UNCHANGED component

StudioSpec == StudioInit /\ [][StudioNext]_studioVars

\* The types of the state of every component.
StudioTypeOK ==
  SchedulerTypeOK /\ HubTypeOK /\ RuntimeTypeOK /\ GuestTypeOK /\ ScoreTypeOK

Anonymous ==
  Permutations(Ticks) \cup Permutations(Egresses) \cup Permutations(Objects)
=============================================================================
