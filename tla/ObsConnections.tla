--------------------------- MODULE ObsConnections ---------------------------
(***************************************************************************)
(* The runtime manager of OBS WebSocket connections:                       *)
(*   src/obs/obs-connection.manager.ts  life cycle of a connection         *)
(*   src/obs/obs-state.store.ts         the three maps                     *)
(*   src/obs/obs-event-handler.ts       the ConnectionClosed listener      *)
(*   src/obs/obs.service.ts             the operator's requests            *)
(*                                                                         *)
(* The backend is one Node.js process: a handler runs to its next await    *)
(* without interruption, so one action is one such turn.  What is awaited  *)
(* (obs.connect, the bootstrap calls, a heartbeat) or scheduled (the       *)
(* reconnect timer) ends in an action of its own, and between the two any  *)
(* other turn may run: in particular the instance may have been torn down  *)
(* and replaced meanwhile.  Such an orphan is no longer in the store, but  *)
(* its pending attempt still resolves or rejects.                          *)
(*                                                                         *)
(* Abstracted: the scene/stream/record data of an instance, the length of  *)
(* the backoff (and the attempt counter and alert that only depend on it), *)
(* and the screenshot loop.  The heartbeat flag stands for the heartbeat   *)
(* and the stats intervals, which are started and stopped together.        *)
(***************************************************************************)
EXTENDS Naturals, FiniteSets

CONSTANTS
  Productions,   \* production ids
  Conns,         \* connection ids: rows of ObsConnection, and the fallback ids
  Owner,         \* Owner[c] is the production of connection c
  Default,       \* Default[p] is the id of the row named 'default'
  Fallback,      \* Fallback[p] is the id connectObs uses when p has no primary row
  Urls,          \* engine addresses
  Instances,     \* identities of ObsInstance objects
  None,          \* undefined / absent
  MaxOps,        \* bound on operator requests
  MaxRestarts    \* bound on process restarts

ASSUME ConstantsAssumption ==
  /\ Owner \in [Conns -> Productions]
  /\ Default \in [Productions -> Conns]
  /\ Fallback \in [Productions -> Conns]
  /\ \A p \in Productions : Owner[Default[p]] = p /\ Owner[Fallback[p]] = p
  /\ None \notin Conns \cup Instances \cup Urls \cup Productions
  /\ None \notin [url : Urls \cup {None}, pw : {"none", "plain", "cipher"}]
  /\ MaxOps \in Nat /\ MaxRestarts \in Nat

VARIABLES
  mgr,           \* the memory of ObsConnectionManager and ObsStateStore
  db,            \* db[c] is the ObsConnection row c, or None
  ops,           \* operator requests so far
  restarts       \* process restarts so far

vars == <<mgr, db, ops, restarts>>

\* Ids that can be a row: connectObs makes up the others from a production id.
Rows == Conns \ {Fallback[p] : p \in Productions}

(***************************************************************************)
(* Address and password of an attempt.  The password is absent, in clear,  *)
(* or the ciphertext FieldCipherService wrote to the row.                  *)
(***************************************************************************)
Config == [url : Urls \cup {None}, pw : {"none", "plain", "cipher"}]

\* What an operator's form holds.
Submitted == [url : Urls, pw : {"none", "plain"}]

Encrypted(cfg) == IF cfg.pw = "plain" THEN [cfg EXCEPT !.pw = "cipher"] ELSE cfg
Decrypted(cfg) == IF cfg.pw = "cipher" THEN [cfg EXCEPT !.pw = "plain"] ELSE cfg

\* The OBS server refuses the ciphertext where it expects the password.
Accepted(cfg) == cfg.pw # "cipher"

Row == [cfg : Config, isPrimary : BOOLEAN, isEnabled : BOOLEAN]

NoConfig == [url |-> None, pw |-> "none"]

(***************************************************************************)
(* An ObsInstance: timer is the configuration captured by the closure of   *)
(* the armed reconnect timer, phase the progress of the connectObsById     *)
(* call that created it, open whether its socket still owes the handler a  *)
(* ConnectionClosed event.                                                 *)
(***************************************************************************)
Phase == {"unused", "connecting", "bootstrap", "running", "failed"}

ObsInstance ==
  [conn : Conns \cup {None}, cfg : Config, isConnected : BOOLEAN,
   timer : Config \cup {None}, phase : Phase, heartbeat : BOOLEAN,
   open : BOOLEAN]

Unused ==
  [conn |-> None, cfg |-> NoConfig, isConnected |-> FALSE, timer |-> None,
   phase |-> "unused", heartbeat |-> FALSE, open |-> FALSE]

NewInstance(c, cfg) ==
  [Unused EXCEPT !.conn = c, !.cfg = cfg, !.phase = "connecting"]

\* The store, the instances (stored or orphaned) and the connected flag of the
\* last obs.connection.state event of each production.
Manager ==
  [connections : [Conns -> Instances \cup {None}],
   productionMap : [Productions -> SUBSET Conns],
   primaryMap : [Productions -> Conns \cup {None}],
   inst : [Instances -> ObsInstance],
   announced : [Productions -> BOOLEAN]]

Stored(s, i) == \E c \in Conns : s.connections[c] = i

\* The connectObsById call that created the object has not returned.
Pending(o) == o.phase \in {"connecting", "bootstrap"}

\* Objects free for reuse: nothing refers to them and no attempt is pending.
Free(s) ==
  {i \in Instances : ~Stored(s, i) /\ ~Pending(s.inst[i])}

(***************************************************************************)
(* The manager's procedures, as functions of its memory s.                 *)
(***************************************************************************)

\* teardownInstance: every timer cleared, listeners removed, socket closed,
\* entry deleted.  Nothing refers to the object any more, unless the
\* connectObsById call that created it is still pending.
\* Mutant: the reconnect timer survives the teardown.
Released_KeepsTimer(o) == [o EXCEPT !.heartbeat = FALSE, !.open = FALSE]

Released(o) ==
  IF Pending(o)
  THEN [o EXCEPT !.timer = None, !.heartbeat = FALSE, !.open = FALSE]
  ELSE Unused

TeardownInstance(s, c) ==
  [s EXCEPT !.connections[c] = None,
            !.inst[s.connections[c]] = Released(@)]

\* scheduleReconnect: acts on whatever instance the store holds now.
ScheduleReconnect(s, c, cfg) ==
  LET e == s.connections[c]
  IN IF e = None \/ s.inst[e].timer # None
     THEN s
     ELSE [s EXCEPT !.inst[e].timer = cfg]

\* connectObsById: skipped when the same configuration is already up or
\* scheduled.
AlreadyServed(s, c, cfg) ==
  LET e == s.connections[c]
  IN /\ e # None
     /\ s.inst[e].cfg = cfg
     /\ s.inst[e].isConnected \/ s.inst[e].timer # None

\* Mutant: only a primary connection is added to productionMap.
ConnectObsById_MapsPrimaryOnly(s, c, cfg, isPrimary, i) ==
  IF AlreadyServed(s, c, cfg)
  THEN s
  ELSE LET t == IF s.connections[c] = None THEN s ELSE TeardownInstance(s, c)
           p == Owner[c]
       IN [t EXCEPT !.productionMap[p] = IF isPrimary THEN @ \cup {c} ELSE @,
                    !.primaryMap[p] = IF isPrimary THEN c ELSE @,
                    !.connections[c] = i,
                    !.inst[i] = NewInstance(c, cfg)]

\* Mutant: setPrimary is passed the object instead of the connection id.
ConnectObsById_PrimaryIsObject(s, c, cfg, isPrimary, i) ==
  IF AlreadyServed(s, c, cfg)
  THEN s
  ELSE LET t == IF s.connections[c] = None THEN s ELSE TeardownInstance(s, c)
           p == Owner[c]
       IN [t EXCEPT !.productionMap[p] = @ \cup {c},
                    !.primaryMap[p] = IF isPrimary THEN i ELSE @,
                    !.connections[c] = i,
                    !.inst[i] = NewInstance(c, cfg)]

\* connectObsById up to its await of obs.connect; i is the new object.
ConnectObsById(s, c, cfg, isPrimary, i) ==
  IF AlreadyServed(s, c, cfg)
  THEN s
  ELSE LET t == IF s.connections[c] = None THEN s ELSE TeardownInstance(s, c)
           p == Owner[c]
       IN [t EXCEPT !.productionMap[p] = @ \cup {c},
                    !.primaryMap[p] = IF isPrimary THEN c ELSE @,
                    !.connections[c] = i,
                    !.inst[i] = NewInstance(c, cfg)]

\* disconnectObs: every connection of the production goes.
DisconnectObs(s, p) ==
  LET gone == s.productionMap[p]
  IN [s EXCEPT
        !.connections = [c \in Conns |-> IF c \in gone THEN None ELSE @[c]],
        !.inst = [i \in Instances |->
                    IF \E c \in gone : s.connections[c] = i
                    THEN Released(@[i]) ELSE @[i]],
        !.productionMap[p] = {},
        !.primaryMap[p] = None,
        !.announced[p] = FALSE]

\* manualReconnect: always as primary, with the configuration in memory.
ManualReconnect(s, c, i) ==
  LET e == s.connections[c]
  IN IF e = None
     THEN s
     ELSE ConnectObsById([s EXCEPT !.inst[e].timer = None],
                         c, s.inst[e].cfg, TRUE, i)

(***************************************************************************)
(* What is awaited or scheduled completes.                                 *)
(***************************************************************************)

\* obs.connect resolves.
ConnectSucceeds(i) ==
  LET o == mgr.inst[i]
  IN /\ o.phase = "connecting"
     /\ Accepted(o.cfg)
     /\ mgr' = [mgr EXCEPT
                  !.inst[i] = [o EXCEPT !.isConnected = TRUE, !.timer = None,
                                        !.phase = "bootstrap",
                                        !.open = Stored(mgr, i)],
                  !.announced[Owner[o.conn]] = TRUE]
     /\ UNCHANGED <<db, ops, restarts>>

\* Mutant: the listeners of a torn down instance are still attached.
ConnectFails_ListenersStay(i) ==
  LET o == mgr.inst[i]
      failed == [mgr EXCEPT !.inst[i] = IF Stored(mgr, i)
                                        THEN [@ EXCEPT !.phase = "failed"]
                                        ELSE Unused]
  IN /\ o.phase = "connecting"
     /\ \E heard \in BOOLEAN :
          mgr' = ScheduleReconnect(
                   [failed EXCEPT !.announced[Owner[o.conn]] = @ /\ ~heard],
                   o.conn, o.cfg)
     /\ UNCHANGED <<db, ops, restarts>>

\* obs.connect rejects.  An instance that still has its listeners may hear
\* ConnectionClosed first, which announces the loss and schedules the same
\* reconnect.
ConnectFails(i) ==
  LET o == mgr.inst[i]
      failed == [mgr EXCEPT !.inst[i] = IF Stored(mgr, i)
                                        THEN [@ EXCEPT !.phase = "failed"]
                                        ELSE Unused]
  IN /\ o.phase = "connecting"
     /\ \E heard \in {FALSE, Stored(mgr, i)} :
          mgr' = ScheduleReconnect(
                   [failed EXCEPT !.announced[Owner[o.conn]] = @ /\ ~heard],
                   o.conn, o.cfg)
     /\ UNCHANGED <<db, ops, restarts>>

\* Mutant: startHeartbeat clears the interval after arming it.
BootstrapEnds_StopsHeartbeat(i) ==
  /\ mgr.inst[i].phase = "bootstrap"
  /\ mgr' = [mgr EXCEPT !.inst[i].phase = "running", !.inst[i].heartbeat = FALSE]
  /\ UNCHANGED <<db, ops, restarts>>

\* bootstrapInitialState returns and the pollers start, with no look at the
\* store.
BootstrapEnds(i) ==
  /\ mgr.inst[i].phase = "bootstrap"
  /\ mgr' = [mgr EXCEPT !.inst[i].phase = "running", !.inst[i].heartbeat = TRUE]
  /\ UNCHANGED <<db, ops, restarts>>

\* Mutant: the listener schedules no reconnect.
ConnectionClosed_NoReconnect(i) ==
  LET o == mgr.inst[i]
  IN /\ o.open
     /\ mgr' = [mgr EXCEPT !.inst[i].open = FALSE, !.inst[i].isConnected = FALSE,
                           !.announced[Owner[o.conn]] = FALSE]
     /\ UNCHANGED <<db, ops, restarts>>

\* The ConnectionClosed listener, removed by a teardown.
ConnectionClosed(i) ==
  LET o == mgr.inst[i]
      closed == [mgr EXCEPT !.inst[i].open = FALSE, !.inst[i].isConnected = FALSE,
                            !.announced[Owner[o.conn]] = FALSE]
  IN /\ o.open
     /\ mgr' = ScheduleReconnect(closed, o.conn, o.cfg)
     /\ UNCHANGED <<db, ops, restarts>>

\* A heartbeat goes unanswered: the socket is told to close, and its
\* ConnectionClosed follows.
HeartbeatFails(i) ==
  /\ mgr.inst[i].heartbeat /\ mgr.inst[i].isConnected
  /\ mgr' = [mgr EXCEPT !.inst[i].isConnected = FALSE]
  /\ UNCHANGED <<db, ops, restarts>>

\* Mutant: the callback leaves reconnectTimeout set.
ReconnectTimerFires_KeepsTimeout(i) ==
  LET o == mgr.inst[i]
  IN /\ o.timer # None
     /\ \E j \in Free(mgr) :
          mgr' = ConnectObsById(mgr, o.conn, o.timer, FALSE, j)
     /\ UNCHANGED <<db, ops, restarts>>

\* The reconnect timer fires with the configuration its closure captured.
ReconnectTimerFires(i) ==
  LET o == mgr.inst[i]
  IN /\ o.timer # None
     /\ \E j \in Free(mgr) :
          mgr' = ConnectObsById([mgr EXCEPT !.inst[i].timer = None],
                                o.conn, o.timer, FALSE, j)
     /\ UNCHANGED <<db, ops, restarts>>

(***************************************************************************)
(* The operator's requests.  The row is written and, when the write        *)
(* returns, the manager is called: one step here.                          *)
(***************************************************************************)
Request == ops < MaxOps /\ ops' = ops + 1 /\ UNCHANGED restarts

RowsOf(p) == {c \in Rows : Owner[c] = p /\ db[c] # None}
PrimaryRows(p) == {c \in RowsOf(p) : db[c].isPrimary}

\* A new row has a new uuid: no object, not even an orphan, was made for it.
Fresh(c) == db[c] # None \/ \A i \in Instances : mgr.inst[i].conn # c

SaveConnection(p, cfg, enabled) ==
  LET c == Default[p]
  IN /\ Request
     /\ Fresh(c)
     /\ db' = [db EXCEPT ![c] = [cfg |-> Encrypted(cfg), isPrimary |-> TRUE,
                                 isEnabled |-> enabled]]
     /\ \E i \in Free(mgr) :
          mgr' = IF enabled THEN ConnectObsById(mgr, c, cfg, TRUE, i)
                            ELSE DisconnectObs(mgr, p)

\* primary is what the form says or, when it says nothing, whether this is the
\* production's first row.
AddConnection(c, cfg, primary, enabled) ==
  LET demoted == [d \in Conns |->
                    IF primary /\ d \in PrimaryRows(Owner[c])
                    THEN [db[d] EXCEPT !.isPrimary = FALSE] ELSE db[d]]
  IN /\ Request
     /\ db[c] = None /\ Fresh(c)
     /\ db' = [demoted EXCEPT ![c] = [cfg |-> Encrypted(cfg), isPrimary |-> primary,
                                      isEnabled |-> enabled]]
     /\ \E i \in Free(mgr) :
          mgr' = IF enabled THEN ConnectObsById(mgr, c, cfg, primary, i) ELSE mgr

RemoveConnection(c) ==
  LET p == Owner[c]
      left == RowsOf(p) \ {c}
      removed == [db EXCEPT ![c] = None]
  IN /\ Request
     /\ db[c] # None
     /\ mgr' = DisconnectObs(mgr, p)
     /\ IF db[c].isPrimary /\ left # {}
        THEN \E next \in left :
               db' = [removed EXCEPT ![next] = [@ EXCEPT !.isPrimary = TRUE]]
        ELSE db' = removed

\* reconnect with a connection id: manualReconnect, then connectObsById again
\* with the decrypted password.
Reconnect(c) ==
  /\ Request
  /\ db[c] # None
  /\ \E i, j \in Free(mgr) :
       /\ i # j
       /\ mgr' = ConnectObsById(ManualReconnect(mgr, c, i), c,
                                Decrypted(db[c].cfg), db[c].isPrimary, j)
  /\ UNCHANGED db

\* reconnect without one: the primary row's connection only.
ReconnectPrimary(p) ==
  /\ Request
  /\ \E c \in PrimaryRows(p), i \in Free(mgr) : mgr' = ManualReconnect(mgr, c, i)
  /\ UNCHANGED db

\* productions.update to another engine disables the rows and emits
\* engine.connection.update without a url; handleConnectionUpdate connects
\* whatever the event holds.
SwitchEngine(p) ==
  /\ Request
  /\ db' = [c \in Conns |-> IF c \in RowsOf(p) THEN [db[c] EXCEPT !.isEnabled = FALSE]
                                               ELSE db[c]]
  /\ \E c \in IF PrimaryRows(p) # {} THEN PrimaryRows(p) ELSE {Fallback[p]},
        i \in Free(mgr) :
       mgr' = ConnectObsById(mgr, c, NoConfig, TRUE, i)

(***************************************************************************)
(* The process restarts: its memory is gone, loadAllConnections connects   *)
(* every enabled row with the password as stored.                          *)
(***************************************************************************)
Enabled == {c \in Rows : db[c] # None /\ db[c].isEnabled}

LoadAllConnections(f, primary) ==
  [connections |-> [c \in Conns |-> IF c \in Enabled THEN f[c] ELSE None],
   productionMap |-> [p \in Productions |-> {c \in Enabled : Owner[c] = p}],
   primaryMap |-> primary,
   inst |-> [i \in Instances |->
               IF \E c \in Enabled : f[c] = i
               THEN LET c == CHOOSE c \in Enabled : f[c] = i
                    IN NewInstance(c, db[c].cfg)
               ELSE Unused],
   announced |-> [p \in Productions |-> FALSE]]

Restart ==
  /\ restarts < MaxRestarts
  /\ restarts' = restarts + 1
  /\ \E f \in [Enabled -> Instances],
        primary \in [Productions -> Conns \cup {None}] :
       /\ \A c, d \in Enabled : f[c] = f[d] => c = d
       /\ \A p \in Productions :
            LET candidates == {c \in Enabled : Owner[c] = p /\ db[c].isPrimary}
            IN primary[p] \in IF candidates = {} THEN {None} ELSE candidates
       /\ mgr' = LoadAllConnections(f, primary)
  /\ UNCHANGED <<db, ops>>

(***************************************************************************)
(* The specification: a process started on an empty table.                 *)
(***************************************************************************)
Init ==
  /\ mgr = [connections |-> [c \in Conns |-> None],
            productionMap |-> [p \in Productions |-> {}],
            primaryMap |-> [p \in Productions |-> None],
            inst |-> [i \in Instances |-> Unused],
            announced |-> [p \in Productions |-> FALSE]]
  /\ db = [c \in Conns |-> None]
  /\ ops = 0
  /\ restarts = 0

Operator ==
  \/ \E p \in Productions, cfg \in Submitted, enabled \in BOOLEAN :
       SaveConnection(p, cfg, enabled)
  \/ \E c \in Rows, cfg \in Submitted, primary, enabled \in BOOLEAN :
       AddConnection(c, cfg, primary, enabled)
  \/ \E c \in Rows : RemoveConnection(c)
  \/ \E c \in Rows : Reconnect(c)
  \/ \E p \in Productions : ReconnectPrimary(p)
  \/ \E p \in Productions : SwitchEngine(p)

Engine ==
  \E i \in Instances :
    \/ ConnectSucceeds(i)
    \/ ConnectFails(i)
    \/ BootstrapEnds(i)
    \/ ConnectionClosed(i)
    \/ HeartbeatFails(i)
    \/ ReconnectTimerFires(i)

Next == Operator \/ Engine \/ Restart

Spec == Init /\ [][Next]_vars

(***************************************************************************)
(* Fairness: the event loop fires an armed timer, a pending obs.connect    *)
(* and a bootstrap come to an end, and a socket told to close reports it.  *)
(* Nothing is assumed of operators, restarts, spontaneous drops or of an   *)
(* attempt succeeding.  The timer's fairness is strong only because of the *)
(* finite set of Instances: a callback that finds none free would wait     *)
(* here, and never does in the process.                                    *)
(***************************************************************************)
AttemptEnds(i) == ConnectSucceeds(i) \/ ConnectFails(i)
ClosingEnds(i) == ConnectionClosed(i) /\ ~mgr.inst[i].isConnected

FairSpec ==
  /\ Spec
  /\ \A i \in Instances :
       /\ SF_vars(ReconnectTimerFires(i))
       /\ WF_vars(AttemptEnds(i))
       /\ WF_vars(BootstrapEnds(i))
       /\ WF_vars(ClosingEnds(i))

-----------------------------------------------------------------------------
(***************************************************************************)
(* Properties                                                              *)
(***************************************************************************)

TypeOK ==
  /\ mgr \in Manager
  /\ db \in [Conns -> Row \cup {None}]
  /\ ops \in 0 .. MaxOps
  /\ restarts \in 0 .. MaxRestarts

\* No connection is forgotten: an instance in the store is being attempted, has
\* a reconnect timer armed, or has a socket whose closing will schedule one
\* (scheduleReconnect: "retries indefinitely").
NoForgottenConnection ==
  \A c \in Conns :
    LET o == mgr.inst[mgr.connections[c]]
    IN mgr.connections[c] # None =>
         o.phase = "connecting" \/ o.timer # None \/ o.open

\* disconnectObs walks productionMap: an instance in the store that is not in the
\* map of its production could never be stopped.
EveryConnectionCanBeStopped ==
  \A c \in Conns :
    mgr.connections[c] # None => c \in mgr.productionMap[Owner[c]]

\* A connection that is up and past its bootstrap is watched by a heartbeat, so a
\* silent engine is noticed.
ConnectedIsWatched ==
  \A c \in Conns :
    LET o == mgr.inst[mgr.connections[c]]
    IN mgr.connections[c] # None /\ o.isConnected /\ o.phase = "running" =>
         o.heartbeat /\ o.open

\* What the store holds stays under control: every connection in it is still being
\* worked on, within reach of disconnectObs, and watched while it is up.
ConnectionsAreHeld ==
  NoForgottenConnection /\ EveryConnectionCanBeStopped /\ ConnectedIsWatched

\* With a single connection in the production, clients that follow
\* obs.connection.state never see the engine down while the store holds it up.
ConnectedIsAnnounced ==
  \A c \in Conns :
    /\ mgr.connections[c] # None
    /\ mgr.inst[mgr.connections[c]].isConnected
    /\ mgr.productionMap[Owner[c]] = {c}
    => mgr.announced[Owner[c]]

\* A connection that was disconnected comes back only by a request or a restart,
\* never by a timer or an attempt left over from before (teardownInstance clears
\* the timer, scheduleReconnect returns when the store has no instance).
NoResurrection ==
  [][\A c \in Conns :
       mgr.connections[c] = None /\ mgr'.connections[c] # None =>
         ops' # ops \/ restarts' # restarts]_vars

\* Reconnects never give up: a connection in the store is, again and again, up or
\* being attempted (scheduleReconnect: "retries indefinitely").
RetriesIndefinitely ==
  \A c \in Conns :
    []<>(mgr.connections[c] # None =>
           \/ mgr.inst[mgr.connections[c]].isConnected
           \/ mgr.inst[mgr.connections[c]].phase = "connecting")

\* obs.service.ts, removeConnection: disconnectObs "will only remove specific
\* connection via productionMap": the other connections stay.
RemoveKeepsOthers ==
  [][\A c \in Rows : RemoveConnection(c) =>
       \A d \in Conns \ {c} : mgr'.connections[d] = mgr.connections[d]]_vars

=============================================================================
