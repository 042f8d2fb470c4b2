--------------------------------- MODULE SrsHub ---------------------------------
(***************************************************************************)
(* The fan-out hub of a production: FFmpeg processes that send its ingest  *)
(* to its destinations:                                                    *)
(*   src/streaming/srs/srs.service.ts             the hubs                 *)
(*   src/streaming/srs/ffmpeg-compositor.service.ts   its layouts          *)
(*   src/streaming/srs/srs-webhook.controller.ts  the end of the ingest    *)
(*   src/streaming/streaming.service.ts           the requests             *)
(*                                                                         *)
(* A hub holds its processes; stopping it tells them to end and forgets    *)
(* them.  The end of a process is handled later, and FFmpeg, which catches *)
(* the signal, may end with a code: its handler then cannot tell that the  *)
(* process was told to, and looks whether the production has a hub.        *)
(***************************************************************************)
EXTENDS Naturals, Sequences, FiniteSets

CONSTANTS
  Hubs,           \* productions, by the hub each may have
  Targets,        \* their enabled destinations
  Processes,      \* processes that may exist
  MaxHubRequests  \* bound on requests

ASSUME HubAssumption == MaxHubRequests \in Nat

VARIABLES
  active,       \* the map: the productions that have a hub,
  hubs,         \*   and the processes it holds
  process,      \* the processes of the operating system
  hubRequests   \* requests so far

hubVars == <<active, hubs, process, hubRequests>>

(***************************************************************************)
(* A layout composes sources: those of its preset, or those its regions    *)
(* name by their index.                                                    *)
(***************************************************************************)
Preset == {"studio", "pip", "split-h", "split-v", "triple-h", "grid-4", "custom"}

Layout ==
  [preset : Preset, regions : {<<>>} \cup [1 .. 1 -> 0 .. 1] \cup [1 .. 2 -> 0 .. 1]]

\* defaultSourceKeys: how many inputs FFmpeg is given.  No regions are two.
Inputs(layout) ==
  CASE layout.preset \in {"studio", "triple-h"} -> 3
    [] layout.preset = "grid-4" -> 4
    [] OTHER -> IF layout.regions = <<>> THEN 2 ELSE Len(layout.regions)

\* buildFilter: the inputs its graph refers to.
Composed(layout) ==
  CASE layout.preset = "studio" -> IF Inputs(layout) > 2 THEN 0 .. 2 ELSE 0 .. 1
    [] layout.preset \in {"pip", "split-h", "split-v"} -> 0 .. 1
    [] layout.preset = "triple-h" -> 0 .. 2
    [] layout.preset = "grid-4" -> 0 .. 3
    [] layout.preset = "custom" -> {layout.regions[n] : n \in DOMAIN layout.regions}

Fits(layout) == \A n \in Composed(layout) : n < Inputs(layout)

(***************************************************************************)
(* A process sends for a hub to its targets, a copy of the ingest or what  *)
(* a layout composes.  It is revived when it was started by the exit of a  *)
(* process its hub did not hold, or restarts such a one.                   *)
(***************************************************************************)
Ffmpeg ==
  [hub : Hubs, to : SUBSET Targets, sends : {"copy", "preset", "regions"}, fits : BOOLEAN,
   told : BOOLEAN, revived : BOOLEAN]

Dead == [to |-> {}]

Live(f) == process[f] # Dead

Told(ps) == [f \in Processes |-> IF f \in ps /\ Live(f) THEN [process[f] EXCEPT !.told = TRUE]
                                 ELSE process[f]]

HubRequest == hubRequests < MaxHubRequests /\ hubRequests' = hubRequests + 1

\* An id the operating system may give.
Free(f) == ~Live(f) /\ \A h \in Hubs : f \notin hubs[h]

\* Mutant: the processes of the hub that is replaced are not told to end.
Replaced_Silently(h) == process

\* stopHub, with which startHub begins.
Replaced(h) == Told(hubs[h])

\* The processes are spawned and held in the turn in which the hub before was stopped.
Spawns(h, started, sends, fits) ==
  /\ active' = active \cup {h}
  /\ hubs' = [hubs EXCEPT ![h] = DOMAIN started]
  /\ process' = [f \in Processes |->
       IF f \in DOMAIN started
       THEN [hub |-> h, to |-> started[f], sends |-> sends, fits |-> fits,
             told |-> FALSE, revived |-> FALSE]
       ELSE Replaced(h)[f]]

\* One process for each destination.
StartHub(h, ts) ==
  /\ HubRequest
  /\ ts # {}
  /\ \E fs \in SUBSET {f \in Processes : Free(f)} :
       /\ Cardinality(fs) = Cardinality(ts)
       /\ \E to \in [fs -> ts] :
            /\ \A f, g \in fs : to[f] = to[g] => f = g
            /\ Spawns(h, [f \in fs |-> {to[f]}], "copy", TRUE)

\* A layout: one process composes the sources and sends to all, and is not restarted.
StartCompositeHub(h, ts, layout) ==
  /\ HubRequest
  /\ ts # {}
  /\ \E f \in Processes :
       /\ Free(f)
       /\ Spawns(h, [g \in {f} |-> ts],
                 IF layout.regions = <<>> THEN "preset" ELSE "regions", Fits(layout))

\* stopSrsHub, by a request or by SRS when the publisher is gone.
StopHub(h) ==
  /\ h \in active
  /\ HubRequest
  /\ process' = Told(hubs[h])
  /\ active' = active \ {h}
  /\ hubs' = [hubs EXCEPT ![h] = {}]

\* Mutant: a process that restarts is not held.
Respawns_Unheld(f, g) ==
  /\ process' = [process EXCEPT ![f] = Dead,
       ![g] = [process[f] EXCEPT !.told = FALSE, !.revived = @ \/ f \notin hubs[process[f].hub]]]
  /\ hubs' = [hubs EXCEPT ![process[f].hub] = @ \ {f}]

\* It takes the place of f, or is added to a hub that does not hold f.
Respawns(f, g) ==
  /\ process' = [process EXCEPT ![f] = Dead,
       ![g] = [process[f] EXCEPT !.told = FALSE, !.revived = @ \/ f \notin hubs[process[f].hub]]]
  /\ hubs' = [hubs EXCEPT ![process[f].hub] = (@ \ {f}) \cup {g}]

\* exit, with the signal that f was sent: nothing is done.
ExitsBySignal(f) ==
  /\ Live(f) /\ process[f].told
  /\ process' = [process EXCEPT ![f] = Dead]
  /\ UNCHANGED <<active, hubs, hubRequests>>

\* error: the program could not be run, and nothing is done.
SpawnFails(f) ==
  /\ Live(f)
  /\ process' = [process EXCEPT ![f] = Dead]
  /\ UNCHANGED <<active, hubs, hubRequests>>

\* exit with a code: it is restarted, if it is of a kind that is and there is a hub.
Exits(f) ==
  /\ Live(f)
  /\ IF process[f].sends = "copy" /\ process[f].hub \in active
     THEN \E g \in Processes : Free(g) /\ Respawns(f, g)
     ELSE process' = [process EXCEPT ![f] = Dead] /\ UNCHANGED hubs
  /\ UNCHANGED <<active, hubRequests>>

HubInit ==
  /\ active = {}
  /\ hubs = [h \in Hubs |-> {}]
  /\ process = [f \in Processes |-> Dead]
  /\ hubRequests = 0

HubNext ==
  \/ \E h \in Hubs :
       \/ \E ts \in SUBSET Targets :
            StartHub(h, ts) \/ \E layout \in Layout : StartCompositeHub(h, ts, layout)
       \/ StopHub(h)
  \/ \E f \in Processes : ExitsBySignal(f) \/ SpawnFails(f) \/ Exits(f)

HubSpec == HubInit /\ [][HubNext]_hubVars

-----------------------------------------------------------------------------
\* The types of the state; only what is in the map holds processes.
HubTypeOK ==
  /\ active \subseteq Hubs
  /\ hubs \in [Hubs -> SUBSET Processes]
  /\ process \in [Processes -> Ffmpeg \cup {Dead}]
  /\ hubRequests \in 0 .. MaxHubRequests
  /\ \A h \in Hubs \ active : hubs[h] = {}

\* What sends is held by its hub or was told to end; a destination is sent to once, unless
\* a process that was stopped with an earlier hub has come back in this one; and a preset
\* is given the sources it composes, unless regions are sent with it.
SendersAreHeld ==
  /\ \A f \in Processes :
       Live(f) => process[f].told \/ f \in hubs[process[f].hub]
  /\ \A h \in Hubs : \A f, g \in hubs[h] :
       Live(f) /\ Live(g) /\ f # g /\ process[f].to \cap process[g].to # {} =>
         process[f].revived \/ process[g].revived
  /\ \A f \in Processes : Live(f) /\ process[f].sends # "regions" => process[f].fits
=============================================================================
