-------------------------------- MODULE Presence --------------------------------
(***************************************************************************)
(* Who is in a production, and how its members are shown:                  *)
(*   src/websockets/presence.service.ts             the maps and timers    *)
(*   src/websockets/gateways/core.gateway.ts        connections and joins  *)
(*   src/websockets/gateways/intercom.gateway.ts    the status of members  *)
(*                                                                         *)
(* Connecting and joining ask the database first: the socket may be gone   *)
(* when they record it.  A user whose last recorded socket goes is kept    *)
(* for a grace period, in one production.  Whoever changes a list is to    *)
(* broadcast it to the production.                                         *)
(***************************************************************************)
EXTENDS Naturals

CONSTANTS
  Users,        \* user ids
  Productions,  \* ids of productions
  Sockets,      \* socket ids; none is used twice
  UserOf,       \* the user whose token each socket carries
  None,         \* undefined
  MaxMessages   \* bound on messages of clients

ASSUME PresenceAssumption ==
  /\ UserOf \in [Sockets -> Users]
  /\ {None, "none"} \cap Productions = {}
  /\ MaxMessages \in Nat

VARIABLES
  socket,               \* where each socket is in its life
  asking,               \* the production each socket's handler looks up, with its caller
  current,              \* client.data.productionId
  room,                 \* Socket.IO: the sockets in the room of each production
  activeSockets,        \* the status of each recorded socket
  productionToSockets,  \* the sockets associated with each production
  reconnecting,         \* users in their grace period, and the production that shows it
  told,                 \* the list each production was sent last
  messages              \* messages so far

presenceVars ==
  <<socket, asking, current, room, activeSockets, productionToSockets, reconnecting, told,
    messages>>

\* BUSY is any text a command, an acknowledgement or the member has set.
Status == {"IDLE", "OFFLINE", "BUSY"}

ASSUME NoneIsNoStatus == None \notin Status

Asking == [by : {"connect", "join"}, production : Productions]

Grace == [production : Productions \cup {None}]

NoGrace == [production |-> "none"]

SocketsOf(u) == {s \in Sockets : UserOf[s] = u /\ activeSockets[s] # None}

\* getPresenceForProduction: a user is shown by the sockets associated, else as reconnecting.
Members(p) ==
  [u \in Users |->
     LET shown == {activeSockets[s] : s \in productionToSockets[p] \cap SocketsOf(u)}
     IN IF shown = {} /\ reconnecting[u].production = p THEN {"RECONNECTING"} ELSE shown]

\* broadcastToProduction, after the changes of the step.
BroadcastsTo(ps) ==
  told' = [p \in Productions |-> IF p \in ps THEN Members(p)' ELSE told[p]]

Message == messages < MaxMessages /\ messages' = messages + 1

-----------------------------------------------------------------------------
\* Mutant: a user who comes back leaves the timer running.
UpsertPresence_KeepsTimer(s, ps) ==
  /\ activeSockets' = [activeSockets EXCEPT ![s] = "IDLE"]
  /\ productionToSockets' =
       [p \in Productions |-> IF p \in ps THEN productionToSockets[p] \cup {s}
                              ELSE productionToSockets[p]]
  /\ UNCHANGED reconnecting

\* upsertPresence: the timer of the user is cleared, whichever production it was for.
UpsertPresence(s, ps) ==
  /\ activeSockets' = [activeSockets EXCEPT ![s] = "IDLE"]
  /\ reconnecting' = [reconnecting EXCEPT ![UserOf[s]] = NoGrace]
  /\ productionToSockets' =
       [p \in Productions |-> IF p \in ps THEN productionToSockets[p] \cup {s}
                              ELSE productionToSockets[p]]

\* Mutant: every socket that goes starts the grace period of its user.
RemovePresence_Always(s) ==
  LET in == {p \in Productions : s \in productionToSockets[p]}
  IN /\ IF activeSockets[s] # None
        THEN \E waiting \in IF in = {} THEN {None} ELSE in :
               reconnecting' = [reconnecting EXCEPT ![UserOf[s]] = [production |-> waiting]]
        ELSE UNCHANGED reconnecting
     /\ activeSockets' = [activeSockets EXCEPT ![s] = None]
     /\ productionToSockets' = [p \in Productions |-> productionToSockets[p] \ {s}]

\* removePresence: the grace period starts with the last socket of the user, for whichever
\* of its productions comes first in the map.
RemovePresence(s) ==
  LET in == {p \in Productions : s \in productionToSockets[p]}
  IN /\ IF SocketsOf(UserOf[s]) = {s}
        THEN \E waiting \in IF in = {} THEN {None} ELSE in :
               reconnecting' = [reconnecting EXCEPT ![UserOf[s]] = [production |-> waiting]]
        ELSE UNCHANGED reconnecting
     /\ activeSockets' = [activeSockets EXCEPT ![s] = None]
     /\ productionToSockets' = [p \in Productions |-> productionToSockets[p] \ {s}]

Enters(s, p) ==
  /\ room' = [room EXCEPT ![p] = IF socket[s] = "open" THEN @ \cup {s} ELSE @]
  /\ current' = [current EXCEPT ![s] = p]

-----------------------------------------------------------------------------
\* handleConnection: without a production in the query there is nothing to look up.
Connects(s, p) ==
  /\ socket[s] = "new"
  /\ socket' = [socket EXCEPT ![s] = "open"]
  /\ asking' = [asking EXCEPT ![s] = IF p = None THEN {} ELSE
                                       {[by |-> "connect", production |-> p]}]
  /\ UNCHANGED <<current, room, activeSockets, productionToSockets, reconnecting, told, messages>>

\* handleConnection resumes, also for a socket that has gone since.
ConnectionIsRecorded(s, p) ==
  LET question == [by |-> "connect", production |-> p]
  IN /\ question \in asking[s]
     /\ asking' = [asking EXCEPT ![s] = @ \ {question}]
     /\ UpsertPresence(s, {p})
     /\ Enters(s, p)
     /\ BroadcastsTo({p})
     /\ UNCHANGED <<socket, messages>>

\* handleDisconnect.
Goes(s) ==
  /\ socket[s] = "open"
  /\ socket' = [socket EXCEPT ![s] = "gone"]
  /\ room' = [p \in Productions |-> room[p] \ {s}]
  /\ RemovePresence(s)
  /\ BroadcastsTo({current[s]} \ {None})
  /\ UNCHANGED <<current, messages>>

Disconnects(s) == Goes(s) /\ UNCHANGED asking

\* There is no such production, or it is of another tenant.
ConnectionIsRefused(s, p) ==
  LET question == [by |-> "connect", production |-> p]
  IN /\ question \in asking[s]
     /\ asking' = [asking EXCEPT ![s] = @ \ {question}]
     /\ \/ Goes(s)
        \/ /\ socket[s] = "gone"
           /\ UNCHANGED <<socket, current, room, activeSockets, productionToSockets,
                          reconnecting, told, messages>>

\* production.join: the socket is associated, and not recorded.
Joins(s, p) ==
  /\ Message
  /\ socket[s] = "open"
  /\ asking' = [asking EXCEPT ![s] = @ \cup {[by |-> "join", production |-> p]}]
  /\ UNCHANGED <<socket, current, room, activeSockets, productionToSockets, reconnecting, told>>

JoinIsRecorded(s, p) ==
  LET question == [by |-> "join", production |-> p]
  IN /\ question \in asking[s]
     /\ asking' = [asking EXCEPT ![s] = @ \ {question}]
     /\ productionToSockets' = [productionToSockets EXCEPT ![p] = @ \cup {s}]
     /\ Enters(s, p)
     /\ UNCHANGED <<socket, activeSockets, reconnecting, messages>>
     /\ BroadcastsTo({p})

JoinIsRefused(s, p) ==
  LET question == [by |-> "join", production |-> p]
  IN /\ question \in asking[s]
     /\ asking' = [asking EXCEPT ![s] = @ \ {question}]
     /\ UNCHANGED <<socket, current, room, activeSockets, productionToSockets, reconnecting,
                    told, messages>>

\* production.leave: only the room is left.
Leaves(s, p) ==
  /\ Message
  /\ socket[s] = "open"
  /\ room' = [room EXCEPT ![p] = @ \ {s}]
  /\ UNCHANGED <<socket, asking, current, activeSockets, productionToSockets, reconnecting>>
  /\ BroadcastsTo({p})

\* user.identify, in which join returns at once.
Identifies(s, p) ==
  /\ Message
  /\ socket[s] = "open"
  /\ UpsertPresence(s, {p} \ {None})
  /\ IF p = None THEN UNCHANGED <<room, current>> ELSE Enters(s, p)
  /\ BroadcastsTo({p} \ {None})
  /\ UNCHANGED <<socket, asking>>

-----------------------------------------------------------------------------
\* The maps and sockets when only statuses change.
StatusesChange(ss, status) ==
  /\ activeSockets' = [s \in Sockets |->
       IF s \in ss /\ activeSockets[s] # None THEN status ELSE activeSockets[s]]
  /\ UNCHANGED <<socket, asking, current, room, productionToSockets, reconnecting>>

\* heartbeat brings a member back from OFFLINE, and broadcasts nothing.
Heartbeats(s) ==
  /\ socket[s] = "open" /\ activeSockets[s] = "OFFLINE"
  /\ StatusesChange({s}, "IDLE")
  /\ BroadcastsTo({})
  /\ UNCHANGED messages

\* Mutant: the interval marks the sockets and broadcasts nothing.
CleanUp_Silent(ss) ==
  /\ ss # {} /\ \A s \in ss : activeSockets[s] \in {"IDLE", "BUSY"}
  /\ StatusesChange(ss, "OFFLINE")
  /\ BroadcastsTo({})
  /\ UNCHANGED messages

\* startPresenceCleanup: sockets silent for a minute, whatever has become of them.
CleanUp(ss) ==
  /\ ss # {} /\ \A s \in ss : activeSockets[s] \in {"IDLE", "BUSY"}
  /\ StatusesChange(ss, "OFFLINE")
  /\ BroadcastsTo({p \in Productions : productionToSockets[p] # {}})
  /\ UNCHANGED messages

\* crew.status_update and command.ack: the message names the production to be told, if any.
SetsStatus(s, p) ==
  /\ Message
  /\ socket[s] = "open"
  /\ StatusesChange({s}, "BUSY")
  /\ BroadcastsTo({p} \ {None})

\* command.send: the command is shown as the status of its targets in the room.
CommandIsSent(p, targets) ==
  /\ Message
  /\ targets \subseteq room[p]
  /\ StatusesChange(targets, "BUSY")
  /\ BroadcastsTo({p})

\* The timer of startReconnectGrace.
GraceExpires(u) ==
  /\ reconnecting[u] # NoGrace
  /\ reconnecting' = [reconnecting EXCEPT ![u] = NoGrace]
  /\ UNCHANGED <<socket, asking, current, room, activeSockets, productionToSockets, messages>>
  /\ BroadcastsTo({reconnecting[u].production} \ {None})

\* The process dies and starts again; clients come back on other sockets.
GatewayRestarts ==
  /\ socket' = [s \in Sockets |-> IF socket[s] = "new" THEN "new" ELSE "gone"]
  /\ asking' = [s \in Sockets |-> {}]
  /\ current' = [s \in Sockets |-> None]
  /\ room' = [p \in Productions |-> {}]
  /\ activeSockets' = [s \in Sockets |-> None]
  /\ productionToSockets' = [p \in Productions |-> {}]
  /\ reconnecting' = [u \in Users |-> NoGrace]
  /\ UNCHANGED <<told, messages>>

PresenceInit ==
  /\ socket = [s \in Sockets |-> "new"]
  /\ asking = [s \in Sockets |-> {}]
  /\ current = [s \in Sockets |-> None]
  /\ room = [p \in Productions |-> {}]
  /\ activeSockets = [s \in Sockets |-> None]
  /\ productionToSockets = [p \in Productions |-> {}]
  /\ reconnecting = [u \in Users |-> NoGrace]
  /\ told = [p \in Productions |-> [u \in Users |-> {}]]
  /\ messages = 0

PresenceNext ==
  \/ \E s \in Sockets :
       \/ \E p \in Productions \cup {None} :
            Connects(s, p) \/ Identifies(s, p) \/ SetsStatus(s, p)
       \/ Disconnects(s)
       \/ Heartbeats(s)
       \/ \E p \in Productions :
            \/ ConnectionIsRecorded(s, p) \/ ConnectionIsRefused(s, p)
            \/ Joins(s, p) \/ JoinIsRecorded(s, p) \/ JoinIsRefused(s, p)
            \/ Leaves(s, p)
  \/ \E ss \in SUBSET Sockets : CleanUp(ss)
  \/ \E p \in Productions, targets \in SUBSET Sockets : CommandIsSent(p, targets)
  \/ \E u \in Users : GraceExpires(u)
  \/ GatewayRestarts

PresenceSpec == PresenceInit /\ [][PresenceNext]_presenceVars

-----------------------------------------------------------------------------
(***************************************************************************)
(* Properties                                                              *)
(***************************************************************************)

\* The types of the state; a user in the grace period has no recorded socket.
PresenceTypeOK ==
  /\ socket \in [Sockets -> {"new", "open", "gone"}]
  /\ asking \in [Sockets -> SUBSET Asking]
  /\ current \in [Sockets -> Productions \cup {None}]
  /\ room \in [Productions -> SUBSET Sockets]
  /\ activeSockets \in [Sockets -> Status \cup {None}]
  /\ productionToSockets \in [Productions -> SUBSET Sockets]
  /\ reconnecting \in [Users -> Grace \cup {NoGrace}]
  /\ messages \in 0 .. MaxMessages
  /\ \A u \in Users : reconnecting[u] # NoGrace => SocketsOf(u) = {}

InSeveral(s) ==
  \E p, q \in Productions : p # q /\ s \in productionToSockets[p] \cap productionToSockets[q]

RecordedFor(s, p) ==
  Identifies(s, p) \/ (p \in Productions /\ ConnectionIsRecorded(s, p))

\* A production hears of every change of its list, but for four: a heartbeat that ends
\* OFFLINE, a user who is recorded, or reports, for another production or for none, a change
\* of a socket that is in several productions, and a restart.
ChangesAreBroadcast ==
  [][\A p \in Productions :
       Members(p)' # Members(p) =>
         \/ told'[p] = Members(p)'
         \/ \E s \in Sockets : Heartbeats(s)
         \/ \E s \in Sockets, q \in (Productions \cup {None}) \ {p} :
              RecordedFor(s, q) \/ SetsStatus(s, q)
         \/ \E s \in Sockets : InSeveral(s) /\ activeSockets'[s] # activeSockets[s]
         \/ GatewayRestarts]_presenceVars

\* The roster that the maps and timers stand for.
Online == {u \in Users : SocketsOf(u) # {}}

RosterOf ==
  [u \in Users |-> [p \in Productions |->
     IF productionToSockets[p] \cap SocketsOf(u) # {} THEN "present"
     ELSE IF reconnecting[u].production = p THEN "reconnecting" ELSE "absent"]]

R == INSTANCE Roster WITH online <- Online, roster <- RosterOf

\* The maps and timers keep the promise of Roster: nobody vanishes from a production
\* without being shown as reconnecting, but by leaving one of several connections.
RosterIsKept == R!RosterSpec
=============================================================================
