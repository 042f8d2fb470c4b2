-------------------------- MODULE ProductionLifecycle --------------------------
(***************************************************************************)
(* The life of a production's row:                                         *)
(*   src/productions/productions.service.ts         create, update, remove,*)
(*                                                  restore                *)
(*   src/productions/productions-state.service.ts   updateState, rehearsal *)
(*   src/productions/production-state.machine.ts    the allowed transitions*)
(*   src/productions/productions-templates.service.ts  clone, templates    *)
(*                                                                         *)
(* updateState, toggleRehearsal, remove and restore read the row, decide   *)
(* on what they read and write in a second statement that names the row by *)
(* id only; the requests of other clients run in between.  update is one   *)
(* transaction, which holds the row until it commits or rolls back, except *)
(* that the connections it saves are written outside of it.                *)
(*                                                                         *)
(* Abstracted: names, members and rules; of the connections, whether an    *)
(* enabled one of each engine exists.                                      *)
(***************************************************************************)
EXTENDS Naturals

CONSTANTS
  Productions,   \* production ids
  Clients,       \* requests that may run at the same time
  FormStatuses,  \* statuses the forms of create and update carry
  None,          \* absent
  MaxRequests    \* bound on requests

Statuses == {"DRAFT", "SETUP", "ACTIVE", "ARCHIVED"}
EngineTypes == {"OBS", "VMIX", "APP"}

Production ==
  [status : Statuses, engineType : EngineTypes, isRehearsal : BOOLEAN,
   deleted : BOOLEAN]

ASSUME ConstantsAssumption ==
  /\ FormStatuses \subseteq Statuses
  /\ None \notin Statuses \cup EngineTypes
  /\ None \notin BOOLEAN /\ None \notin Production
  /\ MaxRequests \in Nat

VARIABLES
  row,        \* the Production rows, None before they are created
  obs, vmix,  \* productions with an enabled OBS, vMix connection
  request,    \* what each client's handler holds between its statements
  requests    \* requests so far

vars == <<row, obs, vmix, request, requests>>

\* assertValidTransition.
AllowedTransitions ==
  [DRAFT    |-> {"SETUP", "ARCHIVED"},
   SETUP    |-> {"ACTIVE", "DRAFT"},
   ACTIVE   |-> {"ARCHIVED"},
   ARCHIVED |-> {}]

\* validateEngineConnection.
HasEngine(p) ==
  \/ row[p].engineType = "OBS" /\ p \in obs
  \/ row[p].engineType = "VMIX" /\ p \in vmix
  \/ row[p].engineType = "APP"

Live(p) == row[p] # None /\ ~row[p].deleted

(***************************************************************************)
(* A handler between two statements holds the row as it read it, with its  *)
(* connections, and the data of the update it is about to write.           *)
(***************************************************************************)
Idle == [op |-> "idle"]

Seen(p) == [row |-> row[p], engine |-> HasEngine(p)]

\* The data of an update: None is a column it leaves alone.
Data ==
  [status : Statuses \cup {None}, engineType : EngineTypes \cup {None},
   isRehearsal : BOOLEAN \cup {None}, deleted : BOOLEAN \cup {None}]

Nothing ==
  [status |-> None, engineType |-> None, isRehearsal |-> None, deleted |-> None]

\* Mutant: a column the form leaves out is blanked.
Updated_Blanks(old, data) == [column \in DOMAIN old |-> data[column]]

Updated(old, data) ==
  [column \in DOMAIN old |-> IF data[column] = None THEN old[column] ELSE data[column]]

Reads(c, op, p, data) ==
  /\ request[c] = Idle
  /\ requests < MaxRequests
  /\ requests' = requests + 1
  /\ request' = [request EXCEPT ![c] = [op |-> op, id |-> p, data |-> data,
                                        seen |-> Seen(p)]]

\* A transaction of update holds the row.
Locked(p) == \E c \in Clients : request[c].op = "update" /\ request[c].id = p

Ends(c) == request' = [request EXCEPT ![c] = Idle] /\ UNCHANGED requests

\* The second statement updates the row by id, whatever it has become.
Writes(c) ==
  /\ request[c].op = "write"
  /\ ~Locked(request[c].id)
  /\ row' = [row EXCEPT ![request[c].id] = Updated(@, request[c].data)]
  /\ Ends(c)
  /\ UNCHANGED <<obs, vmix>>

(***************************************************************************)
(* updateState and toggleRehearsal                                         *)
(***************************************************************************)

\* Mutant: the engine is not checked before going live.
UpdateStateReads_NoEngineCheck(c, p, status) ==
  /\ Live(p)
  /\ status \in AllowedTransitions[row[p].status]
  /\ Reads(c, "write", p, [Nothing EXCEPT !.status = status])
  /\ UNCHANGED <<row, obs, vmix>>

UpdateStateReads(c, p, status) ==
  /\ Live(p)
  /\ status \in AllowedTransitions[row[p].status]
  /\ status = "ACTIVE" => HasEngine(p)
  /\ Reads(c, "write", p, [Nothing EXCEPT !.status = status])
  /\ UNCHANGED <<row, obs, vmix>>

ToggleRehearsalReads(c, p, enabled) ==
  /\ Live(p)
  /\ ~(enabled /\ row[p].status = "ARCHIVED")
  /\ Reads(c, "write", p, [Nothing EXCEPT !.isRehearsal = enabled])
  /\ UNCHANGED <<row, obs, vmix>>

(***************************************************************************)
(* remove and restore                                                      *)
(***************************************************************************)

\* Mutant: the status is not checked.
RemoveReads_Active(c, p) ==
  /\ Live(p)
  /\ Reads(c, "write", p, [Nothing EXCEPT !.deleted = TRUE])
  /\ UNCHANGED <<row, obs, vmix>>

RemoveReads(c, p) ==
  /\ Live(p)
  /\ row[p].status # "ACTIVE"
  /\ Reads(c, "write", p, [Nothing EXCEPT !.deleted = TRUE])
  /\ UNCHANGED <<row, obs, vmix>>

RestoreReads(c, p) ==
  /\ row[p] # None /\ row[p].deleted
  /\ Reads(c, "write", p, [Nothing EXCEPT !.deleted = FALSE, !.status = "DRAFT"])
  /\ UNCHANGED <<row, obs, vmix>>

(***************************************************************************)
(* update: the form may set the status, change the engine and save the     *)
(* connections.  The connections are written at once, the rest when the    *)
(* transaction commits; a rollback leaves the connections.                 *)
(***************************************************************************)
UpdateForm ==
  [status : FormStatuses \cup {None}, engineType : EngineTypes \cup {None},
   isRehearsal : {None}, deleted : {None}]

\* Those with an enabled connection after p's configuration was saved.
Saved(enabled, p, config) ==
  IF config = None THEN enabled
  ELSE IF config THEN enabled \cup {p} ELSE enabled \ {p}

UpdateBegins(c, p, form, obsConfig, vmixConfig) ==
  /\ row[p] # None
  /\ ~Locked(p)
  /\ Reads(c, "update", p, form)
  /\ obs' = Saved(obs, p, obsConfig)
  /\ vmix' = Saved(vmix, p, vmixConfig)
  /\ UNCHANGED row

UpdateCommits(c) ==
  LET p == request[c].id
      engine == request[c].data.engineType
  IN /\ request[c].op = "update"
     /\ row' = [row EXCEPT ![p] = Updated(@, request[c].data)]
     /\ obs' = IF engine \in {"VMIX", "APP"} THEN obs \ {p} ELSE obs
     /\ vmix' = IF engine \in {"OBS", "APP"} THEN vmix \ {p} ELSE vmix
     /\ Ends(c)

UpdateRollsBack(c) ==
  /\ request[c].op = "update"
  /\ Ends(c)
  /\ UNCHANGED <<row, obs, vmix>>

(***************************************************************************)
(* Requests of a single statement: new rows, and the connections' own      *)
(* (obs.service.ts, vmix.service.ts).                                      *)
(***************************************************************************)
Single ==
  /\ requests < MaxRequests
  /\ requests' = requests + 1
  /\ \E c \in Clients : request[c] = Idle
  /\ UNCHANGED request

New(status, engine) ==
  [status |-> status, engineType |-> engine, isRehearsal |-> FALSE, deleted |-> FALSE]

Create(p, status, engine) ==
  /\ Single
  /\ row[p] = None
  /\ row' = [row EXCEPT ![p] = New(status, engine)]
  /\ UNCHANGED <<obs, vmix>>

\* A clone starts as a draft, without connections.
CloneProduction(p, source) ==
  Live(source) /\ Create(p, "DRAFT", row[source].engineType)

\* Templates are not rows of this table and outlive the production they came from.
CreateFromTemplate(p, engine) == Create(p, "DRAFT", engine)

SaveConnection(p, engine, enabled) ==
  /\ Single
  /\ row[p] # None
  /\ obs' = IF engine = "OBS" THEN Saved(obs, p, enabled) ELSE obs
  /\ vmix' = IF engine = "VMIX" THEN Saved(vmix, p, enabled) ELSE vmix
  /\ UNCHANGED row

Init ==
  /\ row = [p \in Productions |-> None]
  /\ obs = {}
  /\ vmix = {}
  /\ request = [c \in Clients |-> Idle]
  /\ requests = 0

NewRow ==
  \E p \in Productions :
    \/ \E status \in FormStatuses \cup {"DRAFT"}, engine \in EngineTypes :
         Create(p, status, engine)
    \/ \E engine \in EngineTypes : CreateFromTemplate(p, engine)
    \/ \E source \in Productions : CloneProduction(p, source)

Handler(c) ==
  \/ Writes(c)
  \/ UpdateCommits(c)
  \/ UpdateRollsBack(c)
  \/ \E p \in Productions :
       \/ \E status \in Statuses : UpdateStateReads(c, p, status)
       \/ \E enabled \in BOOLEAN : ToggleRehearsalReads(c, p, enabled)
       \/ RemoveReads(c, p)
       \/ RestoreReads(c, p)
       \/ \E form \in UpdateForm, obsConfig, vmixConfig \in BOOLEAN \cup {None} :
            UpdateBegins(c, p, form, obsConfig, vmixConfig)

Connections ==
  \E p \in Productions, engine \in {"OBS", "VMIX"}, enabled \in BOOLEAN :
    SaveConnection(p, engine, enabled)

Next == NewRow \/ Connections \/ \E c \in Clients : Handler(c)

Spec == Init /\ [][Next]_vars

-----------------------------------------------------------------------------
(***************************************************************************)
(* Properties                                                              *)
(***************************************************************************)

Request ==
  {Idle} \cup [op : {"write", "update"}, id : Productions, data : Data,
               seen : [row : Production, engine : BOOLEAN]]

\* A handler only ever writes to a row that exists.
TypeOK ==
  /\ row \in [Productions -> Production \cup {None}]
  /\ obs \subseteq Productions /\ vmix \subseteq Productions
  /\ request \in [Clients -> Request]
  /\ requests \in 0 .. MaxRequests
  /\ \A c \in Clients : request[c] # Idle => row[request[c].id] # None

\* Some handler is about to write p on the strength of a row that has changed since.
StaleRead(p) ==
  \E c \in Clients :
    /\ request[c].op = "write"
    /\ request[c].id = p
    /\ request[c].seen # Seen(p)

Restored(p) == row[p].deleted /\ ~row'[p].deleted

Transition(p) == row[p] # None /\ row'[p].status # row[p].status

\* production-state.machine.ts: "Any transition not listed here is rejected".
\* restore, which resets the status, is not a transition.
TransitionsAreListed ==
  [][\A p \in Productions :
       Transition(p) /\ ~Restored(p) =>
         row'[p].status \in AllowedTransitions[row[p].status]]_vars

\* What can go wrong with updateState goes wrong only by acting on a stale read: a
\* transition that is not listed, or going live without a connection
\* ("cannot go ACTIVE without a configured connection"), is written by a handler
\* whose row or connections changed after it read them.
StateGoesWrongOnlyWhenStale ==
  [][\A p \in Productions :
       /\ Transition(p) /\ ~Restored(p)
       /\ \/ row'[p].status \notin AllowedTransitions[row[p].status]
          \/ row'[p].status = "ACTIVE" /\ ~HasEngine(p)
       => StaleRead(p)]_vars

\* Likewise an active production is deleted, which remove refuses ("No se puede
\* eliminar una producción activa"), or a deleted one activated, only by a handler
\* that read the row before another one wrote it.
DeletedActiveOnlyWhenStale ==
  [][\A p \in Productions :
       /\ row[p] # None /\ ~(row[p].deleted /\ row[p].status = "ACTIVE")
       /\ row'[p].deleted /\ row'[p].status = "ACTIVE"
       => StaleRead(p)]_vars

\* The state machine and the guard of remove are broken only by handlers that act on
\* a row another handler has written since they read it.
WritesGoWrongOnlyWhenStale ==
  StateGoesWrongOnlyWhenStale /\ DeletedActiveOnlyWhenStale
=============================================================================
