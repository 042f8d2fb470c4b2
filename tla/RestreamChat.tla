------------------------------ MODULE RestreamChat ------------------------------
(***************************************************************************)
(* The WebSocket over which the chat of one production's Restream account  *)
(* comes in (src/social/restream-chat.service.ts), and the requests that   *)
(* link and unlink the account (src/social/restream-oauth.controller.ts).  *)
(*                                                                         *)
(* The maps know one socket and one heartbeat timer of a production, while *)
(* connecting awaits the database and Restream, and a socket that is       *)
(* closed reports it later.                                                *)
(***************************************************************************)
EXTENDS Naturals, FiniteSets

CONSTANTS
  ChatSockets,   \* WebSockets; none is used twice
  ConnectRuns,   \* runs of connectProduction that may be in progress at once
  NoSocket,      \* undefined
  MaxLinks,      \* bound on links and unlinks
  MaxLosses      \* bound on failing calls and restarts

ASSUME ChatAssumption ==
  /\ NoSocket \notin ChatSockets
  /\ IsFiniteSet(ChatSockets) /\ IsFiniteSet(ConnectRuns)
  /\ MaxLinks \in Nat /\ MaxLosses \in Nat

VARIABLES
  tokenRow,        \* the restreamConnection row, and whether its token is about to expire
  unlinking,       \* disconnect has yet to delete the row
  chatSocket,      \* where each socket is in its life
  connection,      \* connections: the socket of the production
  heartbeat,       \* heartbeatTimers: the socket whose timer is known
  strayTimers,     \* sockets with a running timer that the map has forgotten
  connecting,      \* the runs of connectProduction
  reconnects,      \* timers that will connect again
  crossed,         \* history: two runs of connectProduction, or two sockets, overlapped
  chatRequests,    \* links and unlinks so far
  losses           \* failures so far

chatVars ==
  <<tokenRow, unlinking, chatSocket, connection, heartbeat, strayTimers, connecting, reconnects,
    crossed, chatRequests, losses>>

TokenRow == {"none", "fresh", "expiring"}

Fresh == {s \in ChatSockets : chatSocket[s] = "new"}
Open == {s \in ChatSockets : chatSocket[s] = "open"}

NoRun == [step |-> "idle"]
Running == {c \in ConnectRuns : connecting[c] # NoRun}

\* Mutant: connectProduction does not ask whether there is a connection.
BeginsConnect_Always(by) ==
  /\ \E c \in ConnectRuns \ Running :
       connecting' = [connecting EXCEPT ![c] = [step |-> "find", by |-> by]]
  /\ crossed' = (crossed \/ Running # {})

\* connectProduction begins, unless the map has a socket.
BeginsConnect(by) ==
  IF connection # NoSocket THEN UNCHANGED <<connecting, crossed>>
  ELSE /\ \E c \in ConnectRuns \ Running :
            connecting' = [connecting EXCEPT ![c] = [step |-> "find", by |-> by]]
       /\ crossed' = (crossed \/ Running # {})

Steps(c, step) == connecting' = [connecting EXCEPT ![c].step = step]
Returns(c) == connecting' = [connecting EXCEPT ![c] = NoRun]

\* resetHeartbeatTimer clears the timer the map knows, whose ever it is.
ResetsHeartbeat(s) == heartbeat' = s

\* openWebSocket.
OpensSocket(s) ==
  /\ chatSocket' = [chatSocket EXCEPT ![s] = "open"]
  /\ connection' = s
  /\ ResetsHeartbeat(s)

-----------------------------------------------------------------------------
\* The OAuth callback has the tokens: the row is upserted, and then the chat is connected.
LinksAccount ==
  /\ chatRequests < MaxLinks /\ chatRequests' = chatRequests + 1
  /\ tokenRow' = "fresh"
  /\ BeginsConnect("request")
  /\ UNCHANGED <<unlinking, chatSocket, connection, heartbeat, strayTimers, reconnects, losses>>

\* Time passes, and the token is within a minute of its end.
TokenExpires ==
  /\ tokenRow = "fresh"
  /\ tokenRow' = "expiring"
  /\ UNCHANGED <<unlinking, chatSocket, connection, heartbeat, strayTimers, connecting,
                 reconnects, crossed, chatRequests, losses>>

\* The row as connectProduction reads it; what it does next comes later.
FindsRow(c) ==
  /\ connecting[c] # NoRun /\ connecting[c].step = "find"
  /\ IF tokenRow = "none" THEN Returns(c)
     ELSE Steps(c, IF tokenRow = "fresh" THEN "open" ELSE "refresh")
  /\ UNCHANGED <<tokenRow, unlinking, chatSocket, connection, heartbeat, strayTimers, reconnects,
                 crossed, chatRequests, losses>>

\* refreshAccessToken: Restream answers with a token, or with none and the old one is kept.
RefreshesToken(c) ==
  /\ connecting[c] # NoRun /\ connecting[c].step = "refresh"
  /\ \/ tokenRow # "none" /\ tokenRow' = "fresh"
     \/ UNCHANGED tokenRow
  /\ Steps(c, "reread")
  /\ UNCHANGED <<unlinking, chatSocket, connection, heartbeat, strayTimers, reconnects, crossed,
                 chatRequests, losses>>

RereadsRow(c) ==
  /\ connecting[c] # NoRun /\ connecting[c].step = "reread"
  /\ IF tokenRow = "none" THEN Returns(c) ELSE Steps(c, "open")
  /\ UNCHANGED <<tokenRow, unlinking, chatSocket, connection, heartbeat, strayTimers, reconnects,
                 crossed, chatRequests, losses>>

ConnectOpens(c) ==
  /\ connecting[c] # NoRun /\ connecting[c].step = "open"
  /\ \E s \in Fresh : OpensSocket(s)
  /\ Returns(c)
  /\ UNCHANGED <<tokenRow, unlinking, strayTimers, reconnects, crossed, chatRequests, losses>>

\* A message of the chat, which a socket may still deliver while it is closing.
ReceivesMessage(s) ==
  /\ chatSocket[s] \in {"open", "closing"}
  /\ heartbeat # s
  /\ ResetsHeartbeat(s)
  /\ UNCHANGED <<tokenRow, unlinking, chatSocket, connection, strayTimers, connecting, reconnects,
                 crossed, chatRequests, losses>>

\* Mutant: the close event leaves the entry of the socket in the map.
HandlesClose_KeepsEntry(s) ==
  /\ chatSocket' = [chatSocket EXCEPT ![s] = "closed"]
  /\ UNCHANGED connection
  /\ heartbeat' = NoSocket
  /\ strayTimers' = strayTimers \cup ({heartbeat} \ {NoSocket})
  /\ reconnects' = reconnects + 1
  /\ crossed' = (crossed \/ connection \notin {s, NoSocket})
  /\ UNCHANGED <<tokenRow, unlinking, connecting, chatRequests>>

\* The close event: both entries of the production are deleted, whose ever they are, and the
\* timer is not cleared.
HandlesClose(s) ==
  /\ chatSocket' = [chatSocket EXCEPT ![s] = "closed"]
  /\ connection' = NoSocket
  /\ heartbeat' = NoSocket
  /\ strayTimers' = strayTimers \cup ({heartbeat} \ {NoSocket})
  /\ reconnects' = reconnects + 1
  /\ crossed' = (crossed \/ connection \notin {s, NoSocket})
  /\ UNCHANGED <<tokenRow, unlinking, connecting, chatRequests>>

\* Restream or the network closes the socket, or what was asked of it is done.
SocketCloses(s) ==
  /\ chatSocket[s] \in {"open", "closing"}
  /\ HandlesClose(s)
  /\ UNCHANGED losses

\* A heartbeat timer fires: it terminates its socket, which reports its closing later.
HeartbeatFires(s) ==
  /\ s = heartbeat \/ s \in strayTimers
  /\ chatSocket' = [chatSocket EXCEPT ![s] = IF @ = "open" THEN "closing" ELSE @]
  /\ strayTimers' = strayTimers \ {s}
  /\ UNCHANGED <<tokenRow, unlinking, connection, heartbeat, connecting, reconnects, crossed,
                 chatRequests, losses>>

\* The timer of five seconds after a close, which nothing cancels.
ReconnectFires ==
  /\ reconnects > 0
  /\ reconnects' = reconnects - 1
  /\ BeginsConnect("timer")
  /\ UNCHANGED <<tokenRow, unlinking, chatSocket, connection, heartbeat, strayTimers,
                 chatRequests, losses>>

\* disconnect: what the maps know is closed and cleared.
Disconnect ==
  /\ chatSocket' = [s \in ChatSockets |->
       IF s = connection /\ chatSocket[s] = "open" THEN "closing" ELSE chatSocket[s]]
  /\ connection' = NoSocket
  /\ heartbeat' = NoSocket

\* The request to unlink, which deletes the row after it.
UnlinksAccount ==
  /\ chatRequests < MaxLinks /\ chatRequests' = chatRequests + 1
  /\ Disconnect
  /\ unlinking' = TRUE
  /\ UNCHANGED <<tokenRow, strayTimers, connecting, reconnects, crossed, losses>>

DeletesRow ==
  /\ unlinking /\ unlinking' = FALSE
  /\ tokenRow' = "none"
  /\ UNCHANGED <<chatSocket, connection, heartbeat, strayTimers, connecting, reconnects, crossed,
                 chatRequests, losses>>

\* The process dies and starts again: onModuleInit connects what has a row.
Restarts ==
  /\ chatSocket' = [s \in ChatSockets |-> IF chatSocket[s] = "new" THEN "new" ELSE "closed"]
  /\ connection' = NoSocket /\ heartbeat' = NoSocket /\ strayTimers' = {}
  /\ unlinking' = FALSE
  /\ reconnects' = 0
  /\ \E c \in ConnectRuns :
       connecting' = [d \in ConnectRuns |->
         IF d = c /\ tokenRow # "none" THEN [step |-> "find", by |-> "start"] ELSE NoRun]
  /\ crossed' = FALSE
  /\ UNCHANGED <<tokenRow, chatRequests>>

\* A query of connectProduction throws, or the row to refresh is gone.  A request answers with
\* an error; in a timer nobody catches it and the process ends.
ConnectFails(c) ==
  /\ connecting[c] # NoRun
  /\ losses < MaxLosses /\ losses' = losses + 1
  /\ IF connecting[c].by = "timer" THEN Restarts
     ELSE /\ Returns(c)
          /\ UNCHANGED <<tokenRow, unlinking, chatSocket, connection, heartbeat, strayTimers,
                         reconnects, crossed, chatRequests>>

ProcessRestarts ==
  losses < MaxLosses /\ losses' = losses + 1 /\ Restarts

ChatInit ==
  /\ tokenRow = "none" /\ unlinking = FALSE
  /\ chatSocket = [s \in ChatSockets |-> "new"]
  /\ connection = NoSocket /\ heartbeat = NoSocket /\ strayTimers = {}
  /\ connecting = [c \in ConnectRuns |-> NoRun]
  /\ reconnects = 0
  /\ crossed = FALSE
  /\ chatRequests = 0 /\ losses = 0

ChatNext ==
  \/ LinksAccount \/ UnlinksAccount \/ DeletesRow \/ TokenExpires
  \/ ReconnectFires \/ ProcessRestarts
  \/ \E c \in ConnectRuns :
       FindsRow(c) \/ RefreshesToken(c) \/ RereadsRow(c) \/ ConnectOpens(c) \/ ConnectFails(c)
  \/ \E s \in ChatSockets : ReceivesMessage(s) \/ SocketCloses(s) \/ HeartbeatFires(s)

ChatSpec == ChatInit /\ [][ChatNext]_chatVars

-----------------------------------------------------------------------------
(***************************************************************************)
(* Properties                                                              *)
(***************************************************************************)

\* The types of the state.
ChatTypeOK ==
  /\ tokenRow \in TokenRow /\ unlinking \in BOOLEAN
  /\ chatSocket \in [ChatSockets -> {"new", "open", "closing", "closed"}]
  /\ connection \in ChatSockets \cup {NoSocket}
  /\ heartbeat \in ChatSockets \cup {NoSocket}
  /\ strayTimers \subseteq ChatSockets
  /\ reconnects \in 0 .. Cardinality(ChatSockets)
  /\ \A c \in Running : connecting[c].step \in {"find", "refresh", "reread", "open"}

\* As long as no two runs of connectProduction were in progress at once and no socket reported
\* its closing after its successor had taken its place: an open socket is the one the map
\* knows, so that a disconnect reaches it; the timer the map knows watches it, unless a late
\* message of a socket that is closing put that one's timer in its place; and a socket the map
\* knows is no closed one, which would keep every reconnection away.
OneChatConnection ==
  ~crossed =>
    /\ \A s \in Open :
         /\ connection = s
         /\ heartbeat # s => heartbeat # NoSocket /\ chatSocket[heartbeat] = "closing"
    /\ connection # NoSocket => chatSocket[connection] # "closed"
=============================================================================
