------------------------------ MODULE CloudEgress ------------------------------
(***************************************************************************)
(* Cloud streams, cloud recordings and streaming destinations of one       *)
(* production:                                                             *)
(*   src/streaming/streaming.service.ts               start, stop          *)
(*   src/streaming/streaming-destinations.service.ts  the destinations     *)
(*   src/streaming/livekit.service.ts                 egresses (external)  *)
(*   src/websockets/gateways/core.gateway.ts          activeState          *)
(*                                                                         *)
(* Each start reads rows, starts an egress in LiveKit and stores its id;   *)
(* each stop reads the id, stops the egress and clears the id.  Between    *)
(* any two of these, other requests run.  An egress whose id no row holds  *)
(* goes on until LiveKit ends it: no request can stop it.                  *)
(*                                                                         *)
(* The ids of streams and recordings are columns of the production.  Those *)
(* of destinations are an entry of its JSON column activeState, which is   *)
(* read, changed and written back as a whole.                              *)
(***************************************************************************)
EXTENDS Naturals

CONSTANTS
  Destinations,  \* ids of streaming destinations
  Egresses,      \* LiveKit egress ids
  Clients,       \* requests that may run at the same time
  None,          \* null
  MaxRequests,   \* bound on requests
  MaxFailures    \* bound on calls that fail

Cloud == {"stream", "recording"}
Slots == Cloud \cup Destinations

ASSUME ConstantsAssumption ==
  /\ Cloud \cap Destinations = {}
  /\ None \notin Slots \cup Egresses
  /\ None \notin [isEnabled : BOOLEAN, isActive : BOOLEAN]
  /\ MaxRequests \in Nat /\ MaxFailures \in Nat

VARIABLES
  running,      \* LiveKit: what each running egress is for, None when it is not
  column,       \* activeEgressId ("stream") and activeRecordingId ("recording")
  noted,        \* activeState.destinationEgresses
  destination,  \* the StreamingDestination rows, None when there is none
  app,          \* engineType is APP: no engine streams natively
  synced,       \* destinationEgresses as a client last read activeState
  handler,      \* what each request holds between its statements
  requests,     \* requests so far
  failures      \* failed calls so far

rows == <<column, noted, destination, app>>
vars == <<running, rows, synced, handler, requests, failures>>

StreamingDestination == [isEnabled : BOOLEAN, isActive : BOOLEAN]

(***************************************************************************)
(* A request before its next call: the egress it started or will stop, and *)
(* destinationEgresses as it read them.                                    *)
(***************************************************************************)
Handling ==
  [op : {"start", "stop"}, slot : Slots, seen : [Destinations -> Egresses \cup {None}],
   egress : Egresses \cup {None}, step : {"egress", "write", "rollback", "mark"}]

Idle == [step |-> "idle"]

At(c, op, step) == handler[c] # Idle /\ handler[c].op = op /\ handler[c].step = step

Advances(c, step) == handler' = [handler EXCEPT ![c].step = step]

Ends(c) == handler' = [handler EXCEPT ![c] = Idle]

\* An id LiveKit has given to nobody.
FreshEgress(e) ==
  /\ running[e] = None
  /\ \A slot \in Cloud : column[slot] # e
  /\ \A d \in Destinations : noted[d] # e /\ synced[d] # e
  /\ \A c \in Clients :
       handler[c] # Idle => /\ handler[c].egress # e
                            /\ \A d \in Destinations : handler[c].seen[d] # e

\* An id no StreamingDestination row has had.
FreshDestination(d) ==
  /\ destination[d] = None /\ noted[d] = None /\ synced[d] = None
  /\ \A e \in Egresses : running[e] # d
  /\ \A c \in Clients : handler[c] # Idle => handler[c].slot # d /\ handler[c].seen[d] = None

Request == requests < MaxRequests /\ requests' = requests + 1 /\ UNCHANGED failures

Fails == failures < MaxFailures /\ failures' = failures + 1 /\ UNCHANGED requests

Succeeds == UNCHANGED <<requests, failures>>

IsActive(d) == destination[d] # None /\ destination[d].isActive

(***************************************************************************)
(* startCloudStream, startCloudRecording, startDestination                 *)
(***************************************************************************)
MayStart(slot) ==
  \/ /\ slot = "stream" /\ column[slot] = None
     /\ \E d \in Destinations : destination[d] # None /\ destination[d].isEnabled
  \/ slot = "recording" /\ column[slot] = None
  \/ slot \in Destinations /\ destination[slot] # None /\ ~IsActive(slot)

\* An engine streams to a destination by itself, without an egress.
StartReads(c, slot) ==
  /\ handler[c] = Idle
  /\ MayStart(slot)
  /\ handler' = [handler EXCEPT ![c] =
       [op |-> "start", slot |-> slot, seen |-> noted, egress |-> None,
        step |-> IF slot \in Destinations /\ ~app THEN "mark" ELSE "egress"]]
  /\ Request
  /\ UNCHANGED <<running, rows, synced>>

EgressStarts(c) ==
  /\ At(c, "start", "egress")
  /\ \E e \in Egresses :
       /\ FreshEgress(e)
       /\ running' = [running EXCEPT ![e] = handler[c].slot]
       /\ handler' = [handler EXCEPT ![c].egress = e, ![c].step = "write"]
  /\ Succeeds
  /\ UNCHANGED <<rows, synced>>

\* LiveKit refuses, or its answer is lost after it started the egress.
EgressStartFails(c) ==
  /\ At(c, "start", "egress")
  /\ \/ UNCHANGED running
     \/ \E e \in Egresses :
          FreshEgress(e) /\ running' = [running EXCEPT ![e] = handler[c].slot]
  /\ Ends(c)
  /\ Fails
  /\ UNCHANGED <<rows, synced>>

\* Mutant: only the entry of the last destination is kept.
EgressIsStored_Replaces(c) ==
  /\ At(c, "start", "write")
  /\ IF handler[c].slot \in Cloud
     THEN /\ column' = [column EXCEPT ![handler[c].slot] = handler[c].egress]
          /\ Ends(c)
          /\ UNCHANGED noted
     ELSE /\ noted' = [d \in Destinations |->
                         IF d = handler[c].slot THEN handler[c].egress ELSE None]
          /\ Advances(c, "mark")
          /\ UNCHANGED column
  /\ Succeeds
  /\ UNCHANGED <<running, destination, app, synced>>

EgressIsStored(c) ==
  /\ At(c, "start", "write")
  /\ IF handler[c].slot \in Cloud
     THEN /\ column' = [column EXCEPT ![handler[c].slot] = handler[c].egress]
          /\ Ends(c)
          /\ UNCHANGED noted
     ELSE /\ noted' = [handler[c].seen EXCEPT ![handler[c].slot] = handler[c].egress]
          /\ Advances(c, "mark")
          /\ UNCHANGED column
  /\ Succeeds
  /\ UNCHANGED <<running, destination, app, synced>>

\* Mutant: a stream whose id cannot be stored is left running.
StoreFails_NoRollback(c) ==
  /\ At(c, "start", "write")
  /\ Ends(c)
  /\ Fails
  /\ UNCHANGED <<running, rows, synced>>

\* Only the start of a stream stops what it started when its id cannot be stored.
StoreFails(c) ==
  /\ At(c, "start", "write")
  /\ IF handler[c].slot = "stream" THEN Advances(c, "rollback") ELSE Ends(c)
  /\ Fails
  /\ UNCHANGED <<running, rows, synced>>

RollsBack(c) ==
  /\ At(c, "start", "rollback")
  /\ \/ running' = [running EXCEPT ![handler[c].egress] = None] /\ Succeeds
     \/ UNCHANGED running /\ Fails
  /\ Ends(c)
  /\ UNCHANGED <<rows, synced>>

(***************************************************************************)
(* stopCloudStream, stopCloudRecording, stopDestination                    *)
(***************************************************************************)
\* Mutant: the stop does not ask for the id of the stream or recording.
StopReads_Unasked(c, slot) ==
  LET egress == IF slot \in Cloud THEN column[slot]
                ELSE IF app THEN noted[slot] ELSE None
  IN /\ handler[c] = Idle
     /\ slot \in Destinations => IsActive(slot)
     /\ handler' = [handler EXCEPT ![c] =
          [op |-> "stop", slot |-> slot, seen |-> noted, egress |-> egress,
           step |-> IF egress = None THEN "mark" ELSE "egress"]]
     /\ Request
     /\ UNCHANGED <<running, rows, synced>>

\* Without an egress to stop the destination is only marked.
StopReads(c, slot) ==
  LET egress == IF slot \in Cloud THEN column[slot]
                ELSE IF app THEN noted[slot] ELSE None
  IN /\ handler[c] = Idle
     /\ slot \in Cloud => egress # None
     /\ slot \in Destinations => IsActive(slot)
     /\ handler' = [handler EXCEPT ![c] =
          [op |-> "stop", slot |-> slot, seen |-> noted, egress |-> egress,
           step |-> IF egress = None THEN "mark" ELSE "egress"]]
     /\ Request
     /\ UNCHANGED <<running, rows, synced>>

\* The id is cleared whether or not LiveKit could stop the egress.
EgressStops(c) ==
  /\ At(c, "stop", "egress")
  /\ \/ running' = [running EXCEPT ![handler[c].egress] = None] /\ Succeeds
     \/ UNCHANGED running /\ Fails
  /\ Advances(c, "write")
  /\ UNCHANGED <<rows, synced>>

StopIsStored(c) ==
  /\ At(c, "stop", "write")
  /\ IF handler[c].slot \in Cloud
     THEN /\ column' = [column EXCEPT ![handler[c].slot] = None]
          /\ Ends(c)
          /\ UNCHANGED noted
     ELSE /\ noted' = [handler[c].seen EXCEPT ![handler[c].slot] = None]
          /\ Advances(c, "mark")
          /\ UNCHANGED column
  /\ Succeeds
  /\ UNCHANGED <<running, destination, app, synced>>

StopStoreFails(c) ==
  /\ At(c, "stop", "write")
  /\ Ends(c)
  /\ Fails
  /\ UNCHANGED <<running, rows, synced>>

\* The last statement of a start or stop of a destination; its row may be gone.
Marks(c) ==
  LET d == handler[c].slot
  IN /\ handler[c] # Idle /\ handler[c].step = "mark"
     /\ destination' = IF destination[d] = None THEN destination
                       ELSE [destination EXCEPT ![d].isActive = (handler[c].op = "start")]
     /\ Ends(c)
     /\ Succeeds
     /\ UNCHANGED <<running, column, noted, app, synced>>

MarkFails(c) ==
  /\ handler[c] # Idle /\ handler[c].step = "mark"
  /\ Ends(c)
  /\ Fails
  /\ UNCHANGED <<running, rows, synced>>

(***************************************************************************)
(* Requests of a single statement, and LiveKit                             *)
(***************************************************************************)
\* production.state_sync: a client reads the whole column.
StateSyncs ==
  /\ synced' = noted
  /\ UNCHANGED <<running, rows, handler, requests, failures>>

\* production.state_update_persist: a client's state replaces the whole column,
\* built from what it read or without the ids.
StatePersists ==
  /\ Request
  /\ noted' \in {synced, [d \in Destinations |-> None]}
  /\ UNCHANGED <<running, column, destination, app, synced, handler>>

\* create, update, toggleActive and remove of a destination.
DestinationChanges(d, new) ==
  /\ Request
  /\ destination[d] = None => FreshDestination(d) /\ new # None /\ ~new.isActive
  /\ destination' = [destination EXCEPT ![d] = new]
  /\ UNCHANGED <<running, column, noted, app, synced, handler>>

SwitchEngine ==
  /\ Request
  /\ app' = ~app
  /\ UNCHANGED <<running, column, noted, destination, synced, handler>>

EgressEnds(e) ==
  /\ running[e] # None
  /\ running' = [running EXCEPT ![e] = None]
  /\ UNCHANGED <<rows, synced, handler, requests, failures>>

Init ==
  /\ running = [e \in Egresses |-> None]
  /\ column = [slot \in Cloud |-> None]
  /\ noted = [d \in Destinations |-> None]
  /\ destination = [d \in Destinations |-> [isEnabled |-> TRUE, isActive |-> FALSE]]
  /\ app \in BOOLEAN
  /\ synced = noted
  /\ handler = [c \in Clients |-> Idle]
  /\ requests = 0
  /\ failures = 0

Handler(c) ==
  \/ \E slot \in Slots : StartReads(c, slot) \/ StopReads(c, slot)
  \/ EgressStarts(c) \/ EgressStartFails(c)
  \/ EgressIsStored(c) \/ StoreFails(c) \/ RollsBack(c)
  \/ EgressStops(c) \/ StopIsStored(c) \/ StopStoreFails(c)
  \/ Marks(c) \/ MarkFails(c)

Next ==
  \/ \E c \in Clients : Handler(c)
  \/ StateSyncs
  \/ StatePersists
  \/ \E d \in Destinations, new \in StreamingDestination \cup {None} :
       DestinationChanges(d, new)
  \/ SwitchEngine
  \/ \E e \in Egresses : EgressEnds(e)

Spec == Init /\ [][Next]_vars

-----------------------------------------------------------------------------
(***************************************************************************)
(* Properties                                                              *)
(***************************************************************************)

Holding(c) ==
  handler[c] # Idle =>
    /\ At(c, "start", "egress") => handler[c].egress = None
    /\ At(c, "stop", "egress") => handler[c].egress # None
    /\ handler[c].op = "stop" /\ handler[c].slot \in Destinations /\ handler[c].step # "mark" =>
         handler[c].egress = handler[c].seen[handler[c].slot]
    /\ handler[c].step \in {"write", "rollback"} => handler[c].egress # None
    /\ handler[c].step = "rollback" => handler[c].op = "start" /\ handler[c].slot = "stream"
    /\ handler[c].step = "mark" => handler[c].slot \in Destinations

\* The types of the state, and that a handler has the egress its next call is about.
TypeOK ==
  /\ running \in [Egresses -> Slots \cup {None}]
  /\ column \in [Cloud -> Egresses \cup {None}]
  /\ noted \in [Destinations -> Egresses \cup {None}]
  /\ destination \in [Destinations -> StreamingDestination \cup {None}]
  /\ app \in BOOLEAN
  /\ synced \in [Destinations -> Egresses \cup {None}]
  /\ handler \in [Clients -> Handling \cup {Idle}]
  /\ requests \in 0 .. MaxRequests
  /\ failures \in 0 .. MaxFailures
  /\ \A c \in Clients : Holding(c)

\* Some request can stop e, now or when the request that holds its id is done.
Owned(e) ==
  \/ \E slot \in Cloud : column[slot] = e
  \/ \E d \in Destinations :
       /\ noted[d] = e
       /\ destination[d] # None
       /\ IsActive(d) \/ \E c \in Clients : At(c, "start", "mark") /\ handler[c].slot = d
  \/ \E c \in Clients :
       handler[c] # Idle /\ handler[c].egress = e /\ handler[c].step # "mark"

\* c is about to write over ids it has not read, or for a row that is gone.
StaleWrite(c) ==
  /\ handler[c] # Idle /\ handler[c].step = "write"
  /\ \/ /\ handler[c].slot \in Cloud
        /\ column[handler[c].slot] # IF handler[c].op = "start" THEN None
                                                               ELSE handler[c].egress
     \/ /\ handler[c].slot \in Destinations
        /\ noted # handler[c].seen \/ destination[handler[c].slot] = None

\* c is about to replace a note it has read: startDestination asks only for isActive.
Restarts(c) ==
  /\ At(c, "start", "write")
  /\ handler[c].slot \in Destinations /\ handler[c].seen[handler[c].slot] # None

\* c is about to mark a destination stopped whose egress is noted.
StaleMark(c) ==
  At(c, "stop", "mark") /\ noted[handler[c].slot] # None

\* c is about to clear the id of an egress that LiveKit did not stop.
Unstopped(c) ==
  At(c, "stop", "write") /\ running[handler[c].egress] # None

\* A call of c fails, and not the one that startCloudStream rolls back.
Unhandled(c) ==
  /\ failures' # failures /\ handler'[c] # handler[c]
  /\ ~(At(c, "start", "write") /\ handler[c].slot = "stream")

\* An operator takes the ids or the destinations away under the egresses.
Withdrawn ==
  handler' = handler /\ requests' # requests /\ <<noted, destination>>' # <<noted, destination>>

\* Every way to lose an egress: an egress that some request could stop stays so, however
\* starts and stops interleave, unless a call fails that nothing rolls back, a write or a
\* mark acts on a stale read, a start replaces a note, the id of an egress that did not
\* stop is cleared, or an operator withdraws the ids or the row.
LossIsExplained ==
  \A e \in Egresses :
    Owned(e) /\ running'[e] # None /\ ~Owned(e)' =>
      \/ Withdrawn
      \/ \E c \in Clients : \/ StaleWrite(c) \/ Restarts(c) \/ StaleMark(c)
                            \/ Unstopped(c) \/ Unhandled(c)

EgressStaysOwned == [][LossIsExplained]_vars
=============================================================================
