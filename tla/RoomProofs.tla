------------------------------- MODULE RoomProofs -------------------------------
(***************************************************************************)
(* Proofs about what people do, for any users, sockets, requests and rows: *)
(* who is in a room (the types, and the refinement of Roster), the         *)
(* recording of a call, the pins of a chat, accounts and logins,           *)
(* comments, commands and the chat of a platform, component by component;  *)
(* then the types of the composition.  Each component's part gives the     *)
(* inductive invariant behind its property.                                *)
(***************************************************************************)
EXTENDS MCRoom, FiniteSetTheorems, TLAPS

(***************************************************************************)
(* Presence: a recorded connection arrives in Roster, a removed one        *)
(* departs or partly departs, a timer expires, a restart crashes, and      *)
(* everything else stutters.                                               *)
(***************************************************************************)
\* How a user is shown in every production: a row of the roster.
Row(u) ==
  [p \in Productions |->
     IF productionToSockets[p] \cap SocketsOf(u) # {} THEN "present"
     ELSE IF reconnecting[u].production = p THEN "reconnecting" ELSE "absent"]

\* Nobody is recorded, removed or forgotten.
Unrecorded ==
  /\ UNCHANGED <<productionToSockets, reconnecting>>
  /\ activeSockets' \in [Sockets -> Status \cup {None}]
  /\ \A s \in Sockets : activeSockets'[s] = None <=> activeSockets[s] = None

-----------------------------------------------------------------------------
(***************************************************************************)
(* The types                                                               *)
(***************************************************************************)
LEMMA MessageTyped == PresenceTypeOK /\ Message => messages' \in 0 .. MaxMessages
  BY PresenceAssumption DEF PresenceTypeOK, Message

LEMMA StatusesChangeUnrecorded ==
  ASSUME PresenceTypeOK, NEW ss, NEW status \in Status, StatusesChange(ss, status)
  PROVE  Unrecorded
  BY NoneIsNoStatus DEF StatusesChange, Unrecorded, PresenceTypeOK

LEMMA UpsertTyped ==
  ASSUME PresenceTypeOK, NEW s \in Sockets, NEW ps, UpsertPresence(s, ps)
  PROVE  /\ activeSockets' \in [Sockets -> Status \cup {None}]
         /\ productionToSockets' \in [Productions -> SUBSET Sockets]
         /\ reconnecting' \in [Users -> Grace \cup {NoGrace}]
         /\ \A u \in Users : reconnecting'[u] # NoGrace => SocketsOf(u)' = {}
<1>1. UserOf[s] \in Users
  BY PresenceAssumption
<1>2. /\ activeSockets' \in [Sockets -> Status \cup {None}]
      /\ productionToSockets' \in [Productions -> SUBSET Sockets]
      /\ reconnecting' \in [Users -> Grace \cup {NoGrace}]
  BY <1>1 DEF UpsertPresence, PresenceTypeOK, Status
<1>3. ASSUME NEW u \in Users, reconnecting'[u] # NoGrace  PROVE SocketsOf(u)' = {}
  BY <1>1, <1>3 DEF UpsertPresence, PresenceTypeOK, SocketsOf
<1> QED  BY <1>2, <1>3

LEMMA RemoveTyped ==
  ASSUME PresenceTypeOK, NEW s \in Sockets, RemovePresence(s)
  PROVE  /\ activeSockets' \in [Sockets -> Status \cup {None}]
         /\ productionToSockets' \in [Productions -> SUBSET Sockets]
         /\ reconnecting' \in [Users -> Grace \cup {NoGrace}]
         /\ \A u \in Users : reconnecting'[u] # NoGrace => SocketsOf(u)' = {}
<1>1. UserOf[s] \in Users
  BY PresenceAssumption
<1>2. /\ activeSockets' = [activeSockets EXCEPT ![s] = None]
      /\ activeSockets' \in [Sockets -> Status \cup {None}]
      /\ productionToSockets' \in [Productions -> SUBSET Sockets]
  BY DEF RemovePresence, PresenceTypeOK
<1>3. \A u \in Users : SocketsOf(u)' = SocketsOf(u) \ {s}
  BY <1>2 DEF SocketsOf, PresenceTypeOK
<1>4. CASE SocketsOf(UserOf[s]) = {s}
  <2>1. PICK waiting \in Productions \cup {None} :
          reconnecting' = [reconnecting EXCEPT ![UserOf[s]] = [production |-> waiting]]
    BY <1>4 DEF RemovePresence
  <2>2. [production |-> waiting] \in Grace
    BY DEF Grace
  <2>3. reconnecting' \in [Users -> Grace \cup {NoGrace}]
    BY <2>1, <2>2 DEF PresenceTypeOK
  <2>4. \A u \in Users : reconnecting'[u] # NoGrace => SocketsOf(u)' = {}
    BY <1>1, <1>3, <1>4, <2>1 DEF PresenceTypeOK
  <2> QED  BY <1>2, <2>3, <2>4
<1>5. CASE SocketsOf(UserOf[s]) # {s}
  <2>1. UNCHANGED reconnecting
    BY <1>5 DEF RemovePresence
  <2> QED  BY <1>2, <1>3, <2>1 DEF PresenceTypeOK
<1> QED  BY <1>4, <1>5

LEMMA EntersTyped ==
  ASSUME PresenceTypeOK, NEW s \in Sockets, NEW p \in Productions, Enters(s, p)
  PROVE  /\ room' \in [Productions -> SUBSET Sockets]
         /\ current' \in [Sockets -> Productions \cup {None}]
  BY DEF PresenceTypeOK, Enters

LEMMA UnrecordedTyped ==
  ASSUME PresenceTypeOK, Unrecorded
  PROVE  /\ activeSockets' \in [Sockets -> Status \cup {None}]
         /\ productionToSockets' \in [Productions -> SUBSET Sockets]
         /\ reconnecting' \in [Users -> Grace \cup {NoGrace}]
         /\ \A u \in Users : reconnecting'[u] # NoGrace => SocketsOf(u)' = {}
  BY DEF PresenceTypeOK, Unrecorded, SocketsOf

LEMMA GoesTyped ==
  ASSUME PresenceTypeOK, NEW s \in Sockets, Goes(s), asking' \in [Sockets -> SUBSET Asking]
  PROVE  PresenceTypeOK'
<1>1. /\ socket' \in [Sockets -> {"new", "open", "gone"}]
      /\ room' \in [Productions -> SUBSET Sockets]
      /\ UNCHANGED <<current, messages>>
  BY DEF Goes, PresenceTypeOK
<1> QED  BY <1>1, RemoveTyped DEF Goes, PresenceTypeOK

LEMMA AnswerTyped ==
  ASSUME PresenceTypeOK, NEW s \in Sockets, NEW q, asking' = [asking EXCEPT ![s] = @ \ {q}]
  PROVE  asking' \in [Sockets -> SUBSET Asking]
  BY DEF PresenceTypeOK

LEMMA SocketStepTyped ==
  ASSUME PresenceTypeOK, NEW s \in Sockets, NEW p \in Productions,
         \/ ConnectionIsRecorded(s, p) \/ ConnectionIsRefused(s, p)
         \/ Joins(s, p) \/ JoinIsRecorded(s, p) \/ JoinIsRefused(s, p)
         \/ Leaves(s, p)
  PROVE  PresenceTypeOK'
<1>1. CASE ConnectionIsRecorded(s, p)
  <2>1. asking' \in [Sockets -> SUBSET Asking]
    BY <1>1, AnswerTyped DEF ConnectionIsRecorded
  <2>2. UNCHANGED <<socket, messages>>
    BY <1>1 DEF ConnectionIsRecorded
  <2> QED  BY <1>1, <2>1, <2>2, UpsertTyped, EntersTyped DEF ConnectionIsRecorded, PresenceTypeOK
<1>2. CASE ConnectionIsRefused(s, p)
  <2>1. asking' \in [Sockets -> SUBSET Asking]
    BY <1>2, AnswerTyped DEF ConnectionIsRefused
  <2>2. CASE Goes(s)
    BY <2>1, <2>2, GoesTyped
  <2>3. CASE UNCHANGED <<socket, current, room, activeSockets, productionToSockets,
                         reconnecting, told, messages>>
    BY <2>1, <2>3 DEF PresenceTypeOK, SocketsOf
  <2> QED  BY <1>2, <2>2, <2>3 DEF ConnectionIsRefused
<1>3. CASE Joins(s, p)
  <2>1. [by |-> "join", production |-> p] \in Asking
    BY DEF Asking
  <2>2. asking' \in [Sockets -> SUBSET Asking]
    BY <1>3, <2>1 DEF Joins, PresenceTypeOK
  <2> QED  BY <1>3, <2>2, MessageTyped DEF Joins, PresenceTypeOK, SocketsOf
<1>4. CASE JoinIsRecorded(s, p)
  <2>1. asking' \in [Sockets -> SUBSET Asking]
    BY <1>4, AnswerTyped DEF JoinIsRecorded
  <2>2. productionToSockets' \in [Productions -> SUBSET Sockets]
    BY <1>4 DEF JoinIsRecorded, PresenceTypeOK
  <2> QED  BY <1>4, <2>1, <2>2, EntersTyped DEF JoinIsRecorded, PresenceTypeOK, SocketsOf
<1>5. CASE JoinIsRefused(s, p)
  <2>1. asking' \in [Sockets -> SUBSET Asking]
    BY <1>5, AnswerTyped DEF JoinIsRefused
  <2> QED  BY <1>5, <2>1 DEF JoinIsRefused, PresenceTypeOK, SocketsOf
<1>6. CASE Leaves(s, p)
  BY <1>6, MessageTyped DEF Leaves, PresenceTypeOK, SocketsOf
<1> QED  BY <1>1, <1>2, <1>3, <1>4, <1>5, <1>6

LEMMA StatusStepTyped ==
  ASSUME PresenceTypeOK, Unrecorded, UNCHANGED <<socket, asking, current, room>>,
         messages' \in 0 .. MaxMessages
  PROVE  PresenceTypeOK'
  BY UnrecordedTyped DEF PresenceTypeOK

\* The steps that change statuses only.
LEMMA StatusStep ==
  ASSUME PresenceTypeOK,
         \/ \E s \in Sockets : Heartbeats(s)
         \/ \E s \in Sockets, p \in Productions \cup {None} : SetsStatus(s, p)
         \/ \E ss \in SUBSET Sockets : CleanUp(ss)
         \/ \E p \in Productions, targets \in SUBSET Sockets : CommandIsSent(p, targets)
  PROVE  /\ Unrecorded /\ UNCHANGED <<socket, asking, current, room>>
         /\ messages' \in 0 .. MaxMessages
<1>1. \E ss : \E status \in Status : StatusesChange(ss, status)
  BY DEF Heartbeats, SetsStatus, CleanUp, CommandIsSent, Status
<1>2. messages' \in 0 .. MaxMessages
  BY MessageTyped DEF Heartbeats, SetsStatus, CleanUp, CommandIsSent, PresenceTypeOK
<1> QED  BY <1>1, <1>2, StatusesChangeUnrecorded DEF StatusesChange

LEMMA ConnectsTyped ==
  ASSUME PresenceTypeOK, NEW s \in Sockets, NEW p \in Productions \cup {None}, Connects(s, p)
  PROVE  PresenceTypeOK'
<1> DEFINE asked == IF p = None THEN {} ELSE {[by |-> "connect", production |-> p]}
<1>1. asked \in SUBSET Asking
  BY DEF Asking
<1>2. asking' = [asking EXCEPT ![s] = asked] /\ socket' = [socket EXCEPT ![s] = "open"]
  BY DEF Connects
<1> HIDE DEF asked
<1>3. /\ asking' \in [Sockets -> SUBSET Asking]
      /\ socket' \in [Sockets -> {"new", "open", "gone"}]
  BY <1>1, <1>2 DEF PresenceTypeOK
<1> QED  BY <1>3 DEF Connects, PresenceTypeOK, SocketsOf

LEMMA IdentifiesTyped ==
  ASSUME PresenceTypeOK, NEW s \in Sockets, NEW p \in Productions \cup {None}, Identifies(s, p)
  PROVE  PresenceTypeOK'
<1>1. /\ room' \in [Productions -> SUBSET Sockets]
      /\ current' \in [Sockets -> Productions \cup {None}]
  BY EntersTyped DEF Identifies, PresenceTypeOK
<1>2. messages' \in 0 .. MaxMessages /\ UNCHANGED <<socket, asking>>
  BY MessageTyped DEF Identifies
<1>3. UpsertPresence(s, {p} \ {None})
  BY DEF Identifies
<1> HIDE DEF UpsertPresence
<1> QED  BY <1>1, <1>2, <1>3, UpsertTyped DEF PresenceTypeOK

LEMMA PresenceStepTyped == PresenceTypeOK /\ PresenceNext => PresenceTypeOK'
<1> SUFFICES ASSUME PresenceTypeOK, PresenceNext  PROVE PresenceTypeOK'
  OBVIOUS
<1>1. ASSUME NEW s \in Sockets, Disconnects(s)  PROVE PresenceTypeOK'
  <2>1. asking' \in [Sockets -> SUBSET Asking]
    BY <1>1 DEF Disconnects, PresenceTypeOK
  <2> QED  BY <1>1, <2>1, GoesTyped DEF Disconnects
<1>2. ASSUME NEW u \in Users, GraceExpires(u)  PROVE PresenceTypeOK'
  BY <1>2 DEF GraceExpires, PresenceTypeOK, SocketsOf
<1>3. CASE GatewayRestarts
  BY <1>3 DEF GatewayRestarts, PresenceTypeOK, SocketsOf
<1>4. CASE \/ \E s \in Sockets : Heartbeats(s)
           \/ \E s \in Sockets, p \in Productions \cup {None} : SetsStatus(s, p)
           \/ \E ss \in SUBSET Sockets : CleanUp(ss)
           \/ \E p \in Productions, targets \in SUBSET Sockets : CommandIsSent(p, targets)
  BY <1>4, StatusStep, StatusStepTyped
<1> QED
  BY <1>1, <1>2, <1>3, <1>4, ConnectsTyped, IdentifiesTyped, SocketStepTyped DEF PresenceNext

\* Type correctness of the maps, the rooms and the timers; a user in the grace period has no
\* recorded socket.
THEOREM PresenceTyped == PresenceSpec => []PresenceTypeOK
<1>1. PresenceInit => PresenceTypeOK
  BY PresenceAssumption DEF PresenceInit, PresenceTypeOK, SocketsOf
<1>2. PresenceTypeOK /\ [PresenceNext]_presenceVars => PresenceTypeOK'
  BY PresenceStepTyped DEF presenceVars, PresenceTypeOK, SocketsOf
<1> QED  BY <1>1, <1>2, PTL DEF PresenceSpec
-----------------------------------------------------------------------------
(***************************************************************************)
(* The refinement of Roster                                                *)
(***************************************************************************)
LEMMA NoGraceIsNowhere == NoGrace.production \notin Productions
  BY PresenceAssumption DEF NoGrace

LEMMA RosterIsRows == RosterOf = [u \in Users |-> Row(u)] /\ RosterOf' = [u \in Users |-> Row(u)']
  BY DEF RosterOf, Row

LEMMA PresentInRow ==
  ASSUME NEW u \in Users
  PROVE  R!PresentIn(u) = {p \in Productions : productionToSockets[p] \cap SocketsOf(u) # {}}
  BY DEF R!PresentIn, RosterOf

\* Only the row of user u changes.
LEMMA OneRowChanges ==
  ASSUME NEW u \in Users, NEW row, Row(u)' = row,
         \A v \in Users \ {u} : Row(v)' = Row(v)
  PROVE  RosterOf' = [RosterOf EXCEPT ![u] = row]
<1>1. RosterOf' = [v \in Users |-> IF v = u THEN row ELSE Row(v)]
  BY RosterIsRows
<1> QED  BY <1>1, RosterIsRows

\* A user with a recorded connection is not shown as reconnecting.
LEMMA OnlineRow ==
  ASSUME PresenceTypeOK, NEW u \in Users, SocketsOf(u) # {}
  PROVE  Row(u) = [p \in Productions |-> IF p \in R!PresentIn(u) THEN "present" ELSE "absent"]
<1>1. reconnecting[u] = NoGrace
  BY DEF PresenceTypeOK
<1> QED  BY <1>1, PresentInRow, NoGraceIsNowhere DEF Row

\* Nobody is recorded or removed, and every socket stays where it is associated.
LEMMA UnrecordedStutters ==
  ASSUME Unrecorded
  PROVE  UNCHANGED <<Online, RosterOf>>
<1>1. \A u \in Users : SocketsOf(u)' = SocketsOf(u)
  BY DEF Unrecorded, SocketsOf
<1>2. \A u \in Users : Row(u)' = Row(u)
  BY <1>1 DEF Row, Unrecorded
<1>3. Online' = Online
  BY <1>1 DEF Online
<1> QED  BY <1>2, <1>3, RosterIsRows

\* upsertPresence records a connection: its user arrives wherever the socket is associated.
LEMMA UpsertArrives ==
  ASSUME PresenceTypeOK, NEW s \in Sockets, NEW ps, UpsertPresence(s, ps)
  PROVE  \E at \in SUBSET Productions : R!Arrives(UserOf[s], at)
<1> PICK u \in Users : u = UserOf[s]
  BY PresenceAssumption
<1> DEFINE at == {p \in Productions : s \in productionToSockets'[p]}
<1>1. /\ SocketsOf(u)' = SocketsOf(u) \cup {s}
      /\ \A v \in Users \ {u} : SocketsOf(v)' = SocketsOf(v) /\ s \notin SocketsOf(v)
  BY NoneIsNoStatus DEF UpsertPresence, SocketsOf, PresenceTypeOK, Status
<1>2. reconnecting'[u] = NoGrace /\ \A v \in Users \ {u} : reconnecting'[v] = reconnecting[v]
  BY DEF UpsertPresence, PresenceTypeOK
<1>3. \A p \in Productions : productionToSockets'[p] \ {s} = productionToSockets[p] \ {s}
                           /\ productionToSockets[p] \subseteq productionToSockets'[p]
  BY DEF UpsertPresence, PresenceTypeOK
<1>4. \A v \in Users \ {u} : Row(v)' = Row(v)
  <2> SUFFICES ASSUME NEW v \in Users \ {u}
               PROVE  Row(v)' = Row(v)
    OBVIOUS
  <2>1. \A p \in Productions :
          productionToSockets'[p] \cap SocketsOf(v)' = productionToSockets[p] \cap SocketsOf(v)
    BY <1>1, <1>3
  <2> QED  BY <2>1, <1>2 DEF Row
<1>5. Row(u)' = [p \in Productions |->
                   IF p \in R!PresentIn(u) \cup at THEN "present" ELSE "absent"]
  <2>1. \A p \in Productions :
          productionToSockets'[p] \cap SocketsOf(u)' # {} <=> p \in R!PresentIn(u) \cup at
    BY <1>1, <1>3, PresentInRow
  <2> QED  BY <2>1, <1>2, NoGraceIsNowhere DEF Row
<1>6. Online' = Online \cup {u}
  BY <1>1 DEF Online
<1>7. RosterOf' = [RosterOf EXCEPT ![u] = [p \in Productions |->
                     IF p \in R!PresentIn(u) \cup at THEN "present" ELSE "absent"]]
  BY <1>4, <1>5, OneRowChanges
<1>8. at \in SUBSET Productions
  OBVIOUS
<1> QED  BY <1>6, <1>7, <1>8 DEF R!Arrives

\* join associates the socket of a user who is recorded, or of one who is not.
LEMMA JoinArrives ==
  ASSUME PresenceTypeOK, NEW s \in Sockets, NEW p \in Productions, JoinIsRecorded(s, p)
  PROVE  R!Arrives(UserOf[s], {p}) \/ UNCHANGED <<Online, RosterOf>>
<1> PICK u \in Users : u = UserOf[s]
  BY PresenceAssumption
<1>1. /\ UNCHANGED <<activeSockets, reconnecting>>
      /\ productionToSockets' = [productionToSockets EXCEPT ![p] = @ \cup {s}]
  BY DEF JoinIsRecorded
<1>2. /\ \A v \in Users : SocketsOf(v)' = SocketsOf(v)
      /\ \A v \in Users \ {u} : s \notin SocketsOf(v)
  BY <1>1 DEF SocketsOf
<1>3. Online' = Online
  BY <1>2 DEF Online
<1>4. \A v \in Users : s \notin SocketsOf(v) => Row(v)' = Row(v)
  <2> SUFFICES ASSUME NEW v \in Users, s \notin SocketsOf(v)
               PROVE  Row(v)' = Row(v)
    OBVIOUS
  <2>1. \A q \in Productions :
          productionToSockets'[q] \cap SocketsOf(v)' = productionToSockets[q] \cap SocketsOf(v)
    BY <1>1, <1>2 DEF PresenceTypeOK
  <2> QED  BY <2>1, <1>1 DEF Row
<1>5. CASE s \notin SocketsOf(u)
  BY <1>2, <1>3, <1>4, <1>5, RosterIsRows
<1>6. CASE s \in SocketsOf(u)
  <2>1. \A q \in Productions :
          productionToSockets'[q] \cap SocketsOf(u)' # {} <=> q \in R!PresentIn(u) \cup {p}
    BY <1>1, <1>2, <1>6, PresentInRow DEF PresenceTypeOK
  <2>2. reconnecting'[u] = NoGrace
    BY <1>1, <1>6 DEF PresenceTypeOK
  <2>3. Row(u)' = [q \in Productions |->
                     IF q \in R!PresentIn(u) \cup {p} THEN "present" ELSE "absent"]
    BY <2>1, <2>2, NoGraceIsNowhere DEF Row
  <2>4. Online' = Online \cup {u}
    BY <1>3, <1>6 DEF Online
  <2>5. RosterOf' = [RosterOf EXCEPT ![u] = [q \in Productions |->
                       IF q \in R!PresentIn(u) \cup {p} THEN "present" ELSE "absent"]]
    BY <1>2, <1>4, <2>3, OneRowChanges
  <2> QED  BY <2>4, <2>5 DEF R!Arrives
<1> QED  BY <1>5, <1>6

\* removePresence of the last connection, of one of several, and of one never recorded.
LEMMA RemoveDeparts ==
  ASSUME PresenceTypeOK, NEW s \in Sockets, RemovePresence(s)
  PROVE  \/ R!Departs(UserOf[s])
         \/ \E ps \in SUBSET Productions : R!PartlyDeparts(UserOf[s], ps)
         \/ UNCHANGED <<Online, RosterOf>>
<1> PICK u \in Users : u = UserOf[s]
  BY PresenceAssumption
<1> DEFINE in == {p \in Productions : s \in productionToSockets[p]}
<1>1. /\ activeSockets' = [activeSockets EXCEPT ![s] = None]
      /\ productionToSockets' = [p \in Productions |-> productionToSockets[p] \ {s}]
  BY DEF RemovePresence
<1>2. /\ \A v \in Users : SocketsOf(v)' = SocketsOf(v) \ {s}
      /\ \A v \in Users \ {u} : s \notin SocketsOf(v)
  BY <1>1 DEF SocketsOf, PresenceTypeOK
<1>3. \A v \in Users \ {u} : reconnecting'[v] = reconnecting[v]
  BY DEF RemovePresence, PresenceTypeOK
<1>4. \A v \in Users \ {u} : Row(v)' = Row(v)
  <2> SUFFICES ASSUME NEW v \in Users \ {u}
               PROVE  Row(v)' = Row(v)
    OBVIOUS
  <2>1. \A p \in Productions :
          productionToSockets'[p] \cap SocketsOf(v)' = productionToSockets[p] \cap SocketsOf(v)
    BY <1>1, <1>2
  <2> QED  BY <2>1, <1>3 DEF Row
<1>5. CASE SocketsOf(u) = {s}
  <2>1. PICK waiting \in IF in = {} THEN {None} ELSE in :
          reconnecting' = [reconnecting EXCEPT ![u] = [production |-> waiting]]
    BY <1>5 DEF RemovePresence
  <2>2. R!PresentIn(u) = in
    BY <1>5, PresentInRow
  <2>3. reconnecting'[u].production = waiting
    BY <2>1 DEF PresenceTypeOK
  <2>4. SocketsOf(u)' = {}
    BY <1>2, <1>5
  <2>5. Row(u)' = [p \in Productions |-> IF p = waiting THEN "reconnecting" ELSE "absent"]
    BY <2>3, <2>4 DEF Row
  <2>6. RosterOf' = [RosterOf EXCEPT ![u] =
                       [p \in Productions |-> IF p = waiting THEN "reconnecting" ELSE "absent"]]
    BY <1>4, <2>5, OneRowChanges
  <2>7. u \in Online /\ Online' = Online \ {u}
    BY <1>2, <1>5, <2>4 DEF Online
  <2>8. /\ waiting \in Productions \cup {None}
        /\ IF R!PresentIn(u) = {} THEN waiting = None ELSE waiting \in R!PresentIn(u)
    BY <2>1, <2>2
  <2> QED  BY <2>6, <2>7, <2>8 DEF R!Departs
<1>6. CASE s \in SocketsOf(u) /\ SocketsOf(u) # {s}
  <2> DEFINE left == {p \in Productions : productionToSockets[p] \cap SocketsOf(u) = {s}}
  <2>1. UNCHANGED reconnecting /\ reconnecting[u] = NoGrace
    BY <1>6 DEF RemovePresence, PresenceTypeOK
  <2>2. left \subseteq R!PresentIn(u)
    BY PresentInRow
  <2>3. \A p \in Productions :
          productionToSockets'[p] \cap SocketsOf(u)' # {}
            <=> p \in R!PresentIn(u) /\ p \notin left
    BY <1>1, <1>2, PresentInRow
  <2>4. Row(u) = [p \in Productions |-> IF p \in R!PresentIn(u) THEN "present" ELSE "absent"]
    BY <1>6, OnlineRow
  <2>5. Row(u)' = [p \in Productions |-> IF p \in left THEN "absent" ELSE Row(u)[p]]
    BY <2>1, <2>2, <2>3, <2>4, NoGraceIsNowhere DEF Row
  <2>6. RosterOf[u] = Row(u)
    BY RosterIsRows
  <2>7. RosterOf' = [RosterOf EXCEPT ![u] =
                       [p \in Productions |-> IF p \in left THEN "absent" ELSE RosterOf[u][p]]]
    BY <1>4, <2>5, <2>6, OneRowChanges
  <2>8. u \in Online /\ Online' = Online
    BY <1>2, <1>6 DEF Online
  <2>9. left \in SUBSET Productions
    OBVIOUS
  <2> QED  BY <2>2, <2>7, <2>8, <2>9 DEF R!PartlyDeparts
<1>7. CASE s \notin SocketsOf(u)
  <2>1. UNCHANGED reconnecting
    BY <1>7 DEF RemovePresence
  <2>2. \A p \in Productions :
          productionToSockets'[p] \cap SocketsOf(u)' = productionToSockets[p] \cap SocketsOf(u)
    BY <1>1, <1>2, <1>7
  <2>3. Row(u)' = Row(u)
    BY <2>1, <2>2 DEF Row
  <2>4. Online' = Online
    BY <1>2, <1>7 DEF Online
  <2> QED  BY <1>4, <2>3, <2>4, RosterIsRows
<1> QED  BY <1>5, <1>6, <1>7

LEMMA GraceExpiresExpires ==
  ASSUME PresenceTypeOK, NEW u \in Users, GraceExpires(u)
  PROVE  R!Expires(u)
<1>1. /\ SocketsOf(u) = {}
      /\ \A v \in Users : SocketsOf(v)' = SocketsOf(v)
  BY DEF GraceExpires, PresenceTypeOK, SocketsOf
<1>2. UNCHANGED productionToSockets /\ reconnecting'[u] = NoGrace
  BY DEF GraceExpires, PresenceTypeOK
<1>3. \A v \in Users \ {u} : Row(v)' = Row(v)
  BY <1>1, <1>2 DEF GraceExpires, PresenceTypeOK, Row
<1>4. Row(u)' = [p \in Productions |-> "absent"]
  BY <1>1, <1>2, NoGraceIsNowhere DEF Row
<1>5. u \notin Online /\ Online' = Online
  BY <1>1 DEF Online
<1> QED  BY <1>3, <1>4, <1>5, OneRowChanges DEF R!Expires

LEMMA RestartCrashes == GatewayRestarts => R!Crashes
<1> SUFFICES ASSUME GatewayRestarts  PROVE R!Crashes
  OBVIOUS
<1>1. \A u \in Users : SocketsOf(u)' = {} /\ reconnecting'[u] = NoGrace
  BY DEF GatewayRestarts, SocketsOf
<1>2. \A u \in Users : Row(u)' = [p \in Productions |-> "absent"]
  BY <1>1, NoGraceIsNowhere DEF Row
<1>3. Online' = {}
  BY <1>1 DEF Online
<1> QED  BY <1>2, <1>3, RosterIsRows DEF R!Crashes

\* Steps that record, remove and associate nothing.
LEMMA OtherStepsAreUnrecorded ==
  ASSUME PresenceTypeOK, UNCHANGED <<activeSockets, productionToSockets, reconnecting>>
  PROVE  Unrecorded
  BY DEF Unrecorded, PresenceTypeOK

LEMMA StepOfRoster ==
  ASSUME PresenceTypeOK, PresenceNext
  PROVE  R!RosterNext \/ UNCHANGED <<Online, RosterOf>>
<1>1. ASSUME NEW s \in Sockets, RemovePresence(s)
      PROVE  R!RosterNext \/ UNCHANGED <<Online, RosterOf>>
  <2>1. UserOf[s] \in Users
    BY PresenceAssumption
  <2> QED  BY <1>1, <2>1, RemoveDeparts DEF R!RosterNext
<1>2. ASSUME NEW s \in Sockets, NEW ps, UpsertPresence(s, ps)
      PROVE  R!RosterNext
  <2>1. UserOf[s] \in Users
    BY PresenceAssumption
  <2> QED  BY <1>2, <2>1, UpsertArrives DEF R!RosterNext
<1>3. ASSUME NEW s \in Sockets, NEW p \in Productions, JoinIsRecorded(s, p)
      PROVE  R!RosterNext \/ UNCHANGED <<Online, RosterOf>>
  <2>1. UserOf[s] \in Users /\ {p} \in SUBSET Productions
    BY PresenceAssumption
  <2> QED  BY <1>3, <2>1, JoinArrives DEF R!RosterNext
<1>4. ASSUME NEW s \in Sockets, NEW p \in Productions \cup {None},
             \/ Connects(s, p) \/ Joins(s, p) \/ JoinIsRefused(s, p) \/ Leaves(s, p)
      PROVE  UNCHANGED <<Online, RosterOf>>
  BY <1>4, OtherStepsAreUnrecorded, UnrecordedStutters
     DEF Connects, Joins, JoinIsRefused, Leaves
<1>5. ASSUME NEW s \in Sockets, NEW p \in Productions, ConnectionIsRefused(s, p)
      PROVE  R!RosterNext \/ UNCHANGED <<Online, RosterOf>>
  <2>1. CASE Goes(s)
    BY <1>1, <2>1 DEF Goes
  <2>2. CASE UNCHANGED <<activeSockets, productionToSockets, reconnecting>>
    BY <2>2, OtherStepsAreUnrecorded, UnrecordedStutters
  <2> QED  BY <1>5, <2>1, <2>2 DEF ConnectionIsRefused
<1>6. CASE \/ \E s \in Sockets : Heartbeats(s)
           \/ \E s \in Sockets, p \in Productions \cup {None} : SetsStatus(s, p)
           \/ \E ss \in SUBSET Sockets : CleanUp(ss)
           \/ \E p \in Productions, targets \in SUBSET Sockets : CommandIsSent(p, targets)
  BY <1>6, StatusStep, UnrecordedStutters
<1>7. CASE \E s \in Sockets : Disconnects(s)
  BY <1>1, <1>7 DEF Disconnects, Goes
<1>8. CASE \E s \in Sockets, p \in Productions \cup {None} : Identifies(s, p)
  BY <1>2, <1>8 DEF Identifies
<1>9. CASE \E s \in Sockets, p \in Productions : ConnectionIsRecorded(s, p)
  BY <1>2, <1>9 DEF ConnectionIsRecorded
<1>10. CASE \E u \in Users : GraceExpires(u)
  BY <1>10, GraceExpiresExpires DEF R!RosterNext
<1>11. CASE GatewayRestarts
  BY <1>11, RestartCrashes DEF R!RosterNext
<1> QED
  BY <1>3, <1>4, <1>5, <1>6, <1>7, <1>8, <1>9, <1>10, <1>11 DEF PresenceNext

LEMMA InitOfRoster == PresenceInit => R!RosterInit
<1> SUFFICES ASSUME PresenceInit  PROVE R!RosterInit
  OBVIOUS
<1>1. \A u \in Users : SocketsOf(u) = {} /\ reconnecting[u] = NoGrace
  BY DEF PresenceInit, SocketsOf
<1>2. \A u \in Users : Row(u) = [p \in Productions |-> "absent"]
  BY <1>1, NoGraceIsNowhere DEF Row
<1>3. Online = {}
  BY <1>1 DEF Online
<1> QED  BY <1>2, <1>3, RosterIsRows DEF R!RosterInit

\* The gateway's maps and timers implement Roster: whatever the order of connections, joins,
\* timers and restarts, nobody vanishes from a production without being shown as
\* reconnecting, but by leaving one of several connections.
THEOREM RosterIsImplemented == PresenceSpec => RosterIsKept
<1>1. PresenceTypeOK /\ [PresenceNext]_presenceVars
        => [R!RosterNext]_<<Online, RosterOf>>
  <2> SUFFICES ASSUME PresenceTypeOK, [PresenceNext]_presenceVars
               PROVE  R!RosterNext \/ UNCHANGED <<Online, RosterOf>>
    OBVIOUS
  <2>1. CASE UNCHANGED presenceVars
    BY <2>1, OtherStepsAreUnrecorded, UnrecordedStutters DEF presenceVars
  <2> QED  BY <2>1, StepOfRoster
<1> QED
  BY <1>1, InitOfRoster, PresenceTyped, PTL DEF PresenceSpec, RosterIsKept, R!RosterSpec, R!rosterVars
-----------------------------------------------------------------------------
(***************************************************************************)
(* VideoCalls: the recording of a call stays owned.                        *)
(*                                                                         *)
(* RecordingStaysOwned is not inductive: a stop that has reached LiveKit   *)
(* clears the row whatever it holds by then.  That is harmless because the *)
(* row still holds the stopped recording: nothing else writes it while a   *)
(* stop is under way (OneWriter).                                          *)
(***************************************************************************)
Requesting ==
  [op : {"join", "start", "stop"}, step : {"call", "store"}, egress : Recordings \cup {NoCall}]

RequestsTyped == callRequest \in [CallRequests -> Requesting \cup {NoCallRequest}]

\* Request q is in step step of operation op.
CallIn(q, op, step) ==
  callRequest[q] # NoCallRequest /\ callRequest[q].op = op /\ callRequest[q].step = step

Starting(q) == CallIn(q, "start", "call") \/ CallIn(q, "start", "store")

\* One start at a time, of a row without a recording.
OneStart ==
  /\ \A q, r \in CallRequests : Starting(q) /\ Starting(r) => q = r
  /\ \A q \in CallRequests : Starting(q) => call # NoCall /\ call.egress = NoCall
  /\ \A q \in CallRequests : CallIn(q, "start", "store") =>
       callRequest[q].egress \in Recordings /\ recording[callRequest[q].egress] # "new"

\* A recording that runs is that of the row, or is about to be; what a stop asks LiveKit to
\* end has begun, and is no start's.
Owned ==
  /\ \A e \in Runs : (call # NoCall /\ call.egress = e)
                     \/ \E q \in CallRequests : CallIn(q, "start", "store") /\ callRequest[q].egress = e
  /\ \A q \in CallRequests : CallIn(q, "stop", "call") =>
       LET e == callRequest[q].egress
       IN e \in Recordings /\ recording[e] # "new"
          /\ (e \in Runs => call # NoCall /\ call.egress = e)

\* A stop that LiveKit has answered is the only one, and the row holds what it stopped.
OneWriter ==
  /\ \A q \in CallRequests : CallIn(q, "stop", "store") =>
       LET e == callRequest[q].egress
       IN e \in Recordings /\ recording[e] = "over" /\ call # NoCall /\ call.egress = e
  /\ \A q, r \in CallRequests : CallIn(q, "stop", "store") /\ CallIn(r, "stop", "store") => q = r

RowHolds ==
  /\ call = NoCall => \A q \in CallRequests : callRequest[q] = NoCallRequest
  /\ call # NoCall /\ call.egress # NoCall => recording[call.egress] # "new"

CallsAgree == OneStart /\ Owned /\ OneWriter /\ RowHolds

CallIInv ==
  /\ CallTypeOK /\ RequestsTyped
  /\ recordingFlaws = {} => CallsAgree

-----------------------------------------------------------------------------
LEMMA NoCallRequestIsIdle == \A r \in Requesting : r # NoCallRequest
  BY DEF Requesting, NoCallRequest

\* A request in progress is typed, and its step and operation are among those listed.
LEMMA CallRequestInProgress ==
  ASSUME RequestsTyped, NEW q \in CallRequests, callRequest[q] # NoCallRequest
  PROVE  callRequest[q] \in Requesting
  BY DEF RequestsTyped

LEMMA CallWaitsEffect ==
  ASSUME RequestsTyped, NEW q \in CallRequests, NEW op \in {"join", "start", "stop"},
         NEW step \in {"call", "store"}, NEW e \in Recordings \cup {NoCall},
         Waits(q, op, step, e)
  PROVE  /\ RequestsTyped'
         /\ CallIn(q, op, step)' /\ callRequest'[q].egress = e
         /\ callRequest'[q] # NoCallRequest
         /\ callRequest'[q].op = op /\ callRequest'[q].step = step
         /\ \A r \in CallRequests \ {q} : callRequest'[r] = callRequest[r]
<1> DEFINE new == [op |-> op, step |-> step, egress |-> e]
<1>1. new \in Requesting /\ new.op = op /\ new.step = step /\ new.egress = e
  BY DEF Requesting
<1>2. callRequest' = [callRequest EXCEPT ![q] = new]
  BY DEF Waits
<1> HIDE DEF new
<1> QED  BY <1>1, <1>2, NoCallRequestIsIdle DEF RequestsTyped, CallIn

LEMMA CallAnswersEffect ==
  ASSUME RequestsTyped, NEW q \in CallRequests, Answers(q)
  PROVE  /\ RequestsTyped' /\ callRequest'[q] = NoCallRequest
         /\ \A r \in CallRequests \ {q} : callRequest'[r] = callRequest[r]
  BY DEF RequestsTyped, Answers

-----------------------------------------------------------------------------
(***************************************************************************)
(* The types                                                               *)
(***************************************************************************)
CallStateTyped == CallTypeOK /\ RequestsTyped

LEMMA CallFlawsGrow == CallStateTyped /\ [CallNext]_callVars => recordingFlaws \subseteq recordingFlaws'
  BY DEF CallStateTyped, CallNext, callVars, CreateCall, RemoveCall, UpdateCall, SetEgressId, Join,
     JoinStores, StartRecording, StartCallSucceeds, StopRecording, StopCallSucceeds, Stores,
     CallIsRefused, StoreFails, RecordingEnds, Lost

LEMMA RowStepTyped ==
  ASSUME CallStateTyped,
         \/ CreateCall \/ RemoveCall
         \/ \E status \in CallStatus : UpdateCall(status)
         \/ \E e \in Recordings \cup {NoCall} : SetEgressId(e)
         \/ \E e \in Recordings : RecordingEnds(e)
  PROVE  CallStateTyped'
<1>1. CASE CreateCall
  BY <1>1 DEF CreateCall, CallStateTyped, CallTypeOK, RequestsTyped, Call, CallStatus
<1>2. CASE RemoveCall
  BY <1>2 DEF RemoveCall, Lost, CallStateTyped, CallTypeOK, RequestsTyped
<1>3. CASE \E status \in CallStatus : UpdateCall(status)
  BY <1>3 DEF UpdateCall, CallStateTyped, CallTypeOK, RequestsTyped, Call
<1>4. CASE \E e \in Recordings \cup {NoCall} : SetEgressId(e)
  BY <1>4 DEF SetEgressId, Lost, CallStateTyped, CallTypeOK, RequestsTyped, Call
<1>5. CASE \E e \in Recordings : RecordingEnds(e)
  BY <1>5 DEF RecordingEnds, CallStateTyped, CallTypeOK, RequestsTyped
<1> QED  BY <1>1, <1>2, <1>3, <1>4, <1>5

LEMMA RequestStepTyped ==
  ASSUME CallStateTyped, NEW q \in CallRequests,
         \/ Join(q) \/ JoinStores(q)
         \/ StartRecording(q) \/ StartCallSucceeds(q)
         \/ StopRecording(q) \/ StopCallSucceeds(q)
         \/ Stores(q) \/ CallIsRefused(q) \/ StoreFails(q)
  PROVE  CallStateTyped'
<1> USE DEF CallStateTyped
<1>1. CASE Join(q)
  BY <1>1, CallWaitsEffect DEF Join, CallTypeOK
<1>2. CASE JoinStores(q)
  <2>1. call' = IF call = NoCall THEN NoCall ELSE [call EXCEPT !.status = "active"]
    BY <1>2 DEF JoinStores
  <2>2. call' \in Call \cup {NoCall}
    BY <2>1 DEF CallTypeOK, Call, CallStatus
  <2> QED  BY <1>2, <2>2, CallAnswersEffect DEF JoinStores, CallTypeOK
<1>3. CASE StartRecording(q)
  <2>1. recordingFlaws' \subseteq {"set by form", "removed", "two starts", "not stored"}
    BY <1>3 DEF StartRecording, CallTypeOK, Lost
  <2>2. Waits(q, "start", "call", NoCall) /\ UNCHANGED <<call, removed, recording>>
    BY <1>3 DEF StartRecording
  <2>3. RequestsTyped'
    BY <2>2, CallWaitsEffect
  <2> QED  BY <2>1, <2>2, <2>3 DEF CallTypeOK
<1>4. CASE StartCallSucceeds(q)
  <2>1. PICK e \in Recordings :
          /\ recording' = [recording EXCEPT ![e] = "running"]
          /\ Waits(q, "start", "store", e)
    BY <1>4 DEF StartCallSucceeds
  <2> QED  BY <1>4, <2>1, CallWaitsEffect DEF StartCallSucceeds, CallTypeOK
<1>5. CASE StopRecording(q)
  <2>1. call.egress \in Recordings \cup {NoCall}
    BY <1>5 DEF StopRecording, CallTypeOK, Call
  <2> QED  BY <1>5, <2>1, CallWaitsEffect DEF StopRecording, CallTypeOK
<1>6. CASE StopCallSucceeds(q)
  <2>1. callRequest[q].egress \in Recordings \cup {NoCall}
    BY <1>6, CallRequestInProgress DEF StopCallSucceeds, Requesting
  <2> QED  BY <1>6, <2>1, CallWaitsEffect DEF StopCallSucceeds, CallTypeOK
<1>7. CASE Stores(q)
  <2>1. callRequest[q].egress \in Recordings \cup {NoCall}
    BY <1>7, CallRequestInProgress DEF Stores, Requesting
  <2> DEFINE e == IF callRequest[q].op = "start" THEN callRequest[q].egress ELSE NoCall
  <2>2. e \in Recordings \cup {NoCall}
    BY <2>1
  <2>3. call' = IF call = NoCall THEN NoCall ELSE [call EXCEPT !.egress = e]
    BY <1>7 DEF Stores
  <2> HIDE DEF e
  <2>4. call' \in Call \cup {NoCall}
    BY <2>2, <2>3 DEF CallTypeOK, Call
  <2> QED  BY <1>7, <2>4, CallAnswersEffect DEF Stores, CallTypeOK
<1>8. CASE CallIsRefused(q)
  BY <1>8, CallAnswersEffect DEF CallIsRefused, CallTypeOK
<1>9. CASE StoreFails(q)
  BY <1>9, CallAnswersEffect DEF StoreFails, CallTypeOK, Lost
<1> QED  BY <1>1, <1>2, <1>3, <1>4, <1>5, <1>6, <1>7, <1>8, <1>9

LEMMA CallStepTyped == CallStateTyped /\ CallNext => CallStateTyped'
  BY RowStepTyped, RequestStepTyped DEF CallNext

\* The types of the row, the recordings and the requests.
THEOREM CallTyped == CallSpec => []CallTypeOK
<1>1. CallInit => CallStateTyped
  BY DEF CallInit, CallStateTyped, CallTypeOK, RequestsTyped
<1>2. CallStateTyped /\ [CallNext]_callVars => CallStateTyped'
  BY CallStepTyped DEF callVars, CallStateTyped, CallTypeOK, RequestsTyped
<1>3. CallStateTyped => CallTypeOK
  BY DEF CallStateTyped
<1> QED  BY <1>1, <1>2, <1>3, PTL DEF CallSpec
-----------------------------------------------------------------------------
(***************************************************************************)
(* The recording stays owned                                               *)
(***************************************************************************)
\* An active row update keeps its egress.
LEMMA RowKept ==
  ASSUME CallStateTyped, call # NoCall, NEW status, call' = [call EXCEPT !.status = status]
  PROVE  call' # NoCall => call'.egress = call.egress
  BY DEF CallStateTyped, CallTypeOK, Call

\* A step that changes no request nor recording, of a row that keeps its egress.
LEMMA SameEgress ==
  ASSUME CallsAgree, UNCHANGED <<recording, callRequest>>, call # NoCall, call' # NoCall,
         call'.egress = call.egress
  PROVE  CallsAgree'
  BY DEF CallsAgree, OneStart, Owned, OneWriter, RowHolds, Starting, CallIn, Runs

\* A request that is neither a start nor a stop comes or goes.
LEMMA BystanderMoves ==
  ASSUME CallsAgree, NEW q \in CallRequests,
         \A r \in CallRequests \ {q} : callRequest'[r] = callRequest[r],
         callRequest[q] = NoCallRequest \/ callRequest[q].op = "join",
         callRequest'[q] = NoCallRequest \/ callRequest'[q].op = "join",
         UNCHANGED recording, call # NoCall, call' # NoCall, call'.egress = call.egress
  PROVE  CallsAgree'
<1>1. \A r \in CallRequests, op \in {"start", "stop"}, step \in {"call", "store"} :
        /\ CallIn(r, op, step)' <=> CallIn(r, op, step)
        /\ CallIn(r, op, step) => callRequest'[r] = callRequest[r]
  BY DEF CallIn
<1>2. \A r \in CallRequests : Starting(r)' <=> Starting(r)
  BY <1>1 DEF Starting
<1> QED  BY <1>1, <1>2 DEF CallsAgree, OneStart, Owned, OneWriter, RowHolds, Runs

LEMMA RowStepAgrees ==
  ASSUME CallStateTyped, CallStateTyped', CallsAgree, recordingFlaws' = {},
         \/ CreateCall \/ RemoveCall
         \/ \E status \in CallStatus : UpdateCall(status)
         \/ \E e \in Recordings \cup {NoCall} : SetEgressId(e)
         \/ \E e \in Recordings : RecordingEnds(e)
  PROVE  CallsAgree'
<1>1. CASE CreateCall
  <2>1. \A q \in CallRequests : callRequest[q] = NoCallRequest
    BY <1>1 DEF CreateCall, CallsAgree, RowHolds
  <2>2. Runs = {}
    BY <1>1, <2>1 DEF CreateCall, CallsAgree, Owned, CallIn
  <2> QED
    BY <1>1, <2>1, <2>2 DEF CreateCall, CallsAgree, OneStart, Owned, OneWriter, RowHolds,
       Starting, CallIn, Runs
<1>2. CASE RemoveCall
  <2>1. call.egress = NoCall /\ \A q \in CallRequests : callRequest[q] = NoCallRequest
    BY <1>2 DEF RemoveCall, Lost
  <2>2. Runs = {}
    BY <2>1, CallAssumption DEF CallsAgree, Owned, CallIn, Runs
  <2> QED
    BY <1>2, <2>1, <2>2 DEF RemoveCall, CallsAgree, OneStart, Owned, OneWriter, RowHolds,
       Starting, CallIn, Runs
<1>3. CASE \E status \in CallStatus : UpdateCall(status)
  <2>1. PICK status \in CallStatus : UpdateCall(status)
    BY <1>3
  <2>2. call' = [call EXCEPT !.status = status] /\ call \in Call
    BY <2>1 DEF UpdateCall, CallStateTyped, CallTypeOK
  <2>3. call' \in Call /\ call'.egress = call.egress
    BY <2>2 DEF Call
  <2> QED  BY <2>1, <2>3, SameEgress, NoCallIsNoRow DEF UpdateCall
<1>4. CASE \E e \in Recordings \cup {NoCall} : SetEgressId(e)
  BY <1>4 DEF SetEgressId, Lost
<1>5. CASE \E e \in Recordings : RecordingEnds(e)
  <2>1. PICK e \in Runs : recording' = [recording EXCEPT ![e] = "over"]
    BY <1>5 DEF RecordingEnds
  <2>2. UNCHANGED <<call, callRequest>>
    BY <1>5 DEF RecordingEnds
  <2>3. /\ Runs' \subseteq Runs
        /\ \A x \in Recordings : recording[x] # "new" => recording'[x] # "new"
        /\ \A x \in Recordings : recording[x] = "over" => recording'[x] = "over"
    BY <2>1 DEF Runs, CallStateTyped, CallTypeOK
  <2>4. OneStart'
    BY <2>2, <2>3 DEF CallsAgree, OneStart, Starting, CallIn
  <2>5. Owned' /\ OneWriter'
    BY <2>2, <2>3 DEF CallsAgree, Owned, OneWriter, CallIn
  <2>6. RowHolds'
    BY <2>2, <2>3 DEF CallsAgree, RowHolds, CallStateTyped, CallTypeOK, Call
  <2> QED  BY <2>4, <2>5, <2>6 DEF CallsAgree
<1> QED  BY <1>1, <1>2, <1>3, <1>4, <1>5

LEMMA JoinAgrees ==
  ASSUME CallStateTyped, CallsAgree, NEW q \in CallRequests, Join(q) \/ JoinStores(q)
  PROVE  CallsAgree'
<1>1. CASE Join(q)
  BY <1>1, CallWaitsEffect, BystanderMoves DEF Join, CallStateTyped
<1>2. CASE JoinStores(q)
  <2>1. call # NoCall
    BY <1>2 DEF JoinStores, CallsAgree, RowHolds
  <2>2. call' = [call EXCEPT !.status = "active"] /\ call \in Call
    BY <1>2, <2>1 DEF JoinStores, CallStateTyped, CallTypeOK
  <2>3. call' \in Call /\ call'.egress = call.egress
    BY <2>2 DEF Call, CallStatus
  <2> QED
    BY <1>2, <2>1, <2>3, CallAnswersEffect, BystanderMoves, NoCallIsNoRow DEF JoinStores, CallStateTyped
<1> QED  BY <1>1, <1>2

\* The requests other than q are in the steps they were in.
LEMMA OtherCallRequestsStay ==
  ASSUME NEW q \in CallRequests,
         \A r \in CallRequests \ {q} : callRequest'[r] = callRequest[r]
  PROVE  /\ \A r \in CallRequests \ {q}, op \in {"start", "stop"}, step \in {"call", "store"} :
              CallIn(r, op, step)' <=> CallIn(r, op, step)
         /\ \A r \in CallRequests \ {q} : Starting(r)' <=> Starting(r)
  BY DEF CallIn, Starting

LEMMA StartRecordingAgrees ==
  ASSUME CallStateTyped, CallsAgree, NEW q \in CallRequests, StartRecording(q), recordingFlaws' = {}
  PROVE  CallsAgree'
<1>1. /\ callRequest[q] = NoCallRequest /\ call # NoCall /\ call.egress = NoCall
      /\ UNCHANGED <<call, recording>>
      /\ Waits(q, "start", "call", NoCall)
  BY DEF StartRecording
<1>2. \A r \in CallRequests : ~Starting(r)
  BY DEF StartRecording, Lost, Starting, CallIn
<1>3. /\ callRequest'[q] # NoCallRequest
      /\ callRequest'[q].op = "start" /\ callRequest'[q].step = "call"
      /\ \A r \in CallRequests \ {q} : callRequest'[r] = callRequest[r]
  BY <1>1, CallWaitsEffect DEF CallStateTyped
<1>4. /\ \A r \in CallRequests, op \in {"start", "stop"}, step \in {"call", "store"} :
            CallIn(r, op, step) => r # q
      /\ ~CallIn(q, "start", "store")' /\ ~CallIn(q, "stop", "call")' /\ ~CallIn(q, "stop", "store")'
  BY <1>1, <1>3 DEF CallIn
<1>5. OneStart'
  BY <1>1, <1>2, <1>3, <1>4, OtherCallRequestsStay DEF CallsAgree, OneStart
<1>6. Owned' /\ OneWriter'
  BY <1>1, <1>3, <1>4, OtherCallRequestsStay DEF CallsAgree, Owned, OneWriter, Runs
<1>7. RowHolds'
  BY <1>1, <1>3 DEF CallsAgree, RowHolds
<1> QED  BY <1>5, <1>6, <1>7 DEF CallsAgree

LEMMA StartCallSucceedsAgrees ==
  ASSUME CallStateTyped, CallsAgree, NEW q \in CallRequests, StartCallSucceeds(q)
  PROVE  CallsAgree'
<1>1. PICK e \in Recordings :
        /\ recording[e] = "new"
        /\ recording' = [recording EXCEPT ![e] = "running"]
        /\ Waits(q, "start", "store", e)
  BY DEF StartCallSucceeds
<1>2. CallIn(q, "start", "call") /\ UNCHANGED call
  BY DEF StartCallSucceeds, CallIn
<1>3. /\ callRequest'[q] # NoCallRequest /\ callRequest'[q].egress = e
      /\ callRequest'[q].op = "start" /\ callRequest'[q].step = "store"
      /\ \A r \in CallRequests \ {q} : callRequest'[r] = callRequest[r]
  BY <1>1, CallWaitsEffect DEF CallStateTyped
<1>4. /\ ~CallIn(q, "start", "store") /\ ~CallIn(q, "stop", "call") /\ ~CallIn(q, "stop", "store")
      /\ CallIn(q, "start", "store")' /\ ~CallIn(q, "stop", "call")' /\ ~CallIn(q, "stop", "store")'
      /\ Starting(q) /\ Starting(q)'
  BY <1>2, <1>3 DEF CallIn, Starting
<1>5. /\ Runs' = Runs \cup {e} /\ recording'[e] = "running"
      /\ \A x \in Recordings \ {e} : recording'[x] = recording[x]
  BY <1>1 DEF Runs, CallStateTyped, CallTypeOK
<1>6. OneStart'
  BY <1>1, <1>2, <1>3, <1>4, <1>5, OtherCallRequestsStay DEF CallsAgree, OneStart
<1>7. Owned' /\ OneWriter'
  BY <1>1, <1>2, <1>3, <1>4, <1>5, OtherCallRequestsStay DEF CallsAgree, Owned, OneWriter
<1>8. RowHolds'
  BY <1>2, <1>3, <1>4 DEF CallsAgree, OneStart, RowHolds
<1> QED  BY <1>6, <1>7, <1>8 DEF CallsAgree

LEMMA StopRecordingAgrees ==
  ASSUME CallStateTyped, CallsAgree, NEW q \in CallRequests, StopRecording(q)
  PROVE  CallsAgree'
<1>1. /\ callRequest[q] = NoCallRequest /\ call # NoCall /\ call.egress # NoCall
      /\ UNCHANGED <<call, recording>>
      /\ Waits(q, "stop", "call", call.egress)
  BY DEF StopRecording
<1>2. call.egress \in Recordings /\ recording[call.egress] # "new"
  BY <1>1 DEF CallStateTyped, CallTypeOK, Call, CallsAgree, RowHolds
<1>3. /\ callRequest'[q] # NoCallRequest /\ callRequest'[q].egress = call.egress
      /\ callRequest'[q].op = "stop" /\ callRequest'[q].step = "call"
      /\ \A r \in CallRequests \ {q} : callRequest'[r] = callRequest[r]
  BY <1>1, <1>2, CallWaitsEffect DEF CallStateTyped
<1>4. /\ \A r \in CallRequests, op \in {"start", "stop"}, step \in {"call", "store"} :
            CallIn(r, op, step) => r # q
      /\ ~CallIn(q, "start", "store")' /\ ~CallIn(q, "stop", "store")' /\ ~Starting(q)'
  BY <1>1, <1>3 DEF CallIn, Starting
<1>5. OneStart'
  BY <1>1, <1>3, <1>4, OtherCallRequestsStay DEF CallsAgree, OneStart
<1>6. Owned' /\ OneWriter'
  BY <1>1, <1>2, <1>3, <1>4, OtherCallRequestsStay DEF CallsAgree, Owned, OneWriter, Runs
<1>7. RowHolds'
  BY <1>1, <1>3 DEF CallsAgree, RowHolds
<1> QED  BY <1>5, <1>6, <1>7 DEF CallsAgree

LEMMA StopCallSucceedsAgrees ==
  ASSUME CallStateTyped, CallsAgree, NEW q \in CallRequests, StopCallSucceeds(q)
  PROVE  CallsAgree'
<1>1. PICK e : e = callRequest[q].egress
  OBVIOUS
<1>2. /\ CallIn(q, "stop", "call") /\ recording[e] = "running" /\ UNCHANGED call
      /\ recording' = [recording EXCEPT ![e] = "over"]
      /\ Waits(q, "stop", "store", e)
  BY <1>1 DEF StopCallSucceeds, CallIn
<1>3. e \in Runs /\ call # NoCall /\ call.egress = e
  BY <1>1, <1>2 DEF CallsAgree, Owned, Runs
<1>4. e \in Recordings
  BY <1>3 DEF Runs
<1>5. /\ callRequest'[q] # NoCallRequest /\ callRequest'[q].egress = e
      /\ callRequest'[q].op = "stop" /\ callRequest'[q].step = "store"
      /\ \A r \in CallRequests \ {q} : callRequest'[r] = callRequest[r]
  BY <1>2, <1>4, CallWaitsEffect DEF CallStateTyped
<1>6. /\ ~CallIn(q, "start", "store") /\ ~Starting(q) /\ ~CallIn(q, "stop", "store")
      /\ ~CallIn(q, "start", "store")' /\ ~CallIn(q, "stop", "call")' /\ ~Starting(q)'
  BY <1>2, <1>5 DEF CallIn, Starting
<1>7. /\ Runs' = Runs \ {e} /\ recording'[e] = "over"
      /\ \A x \in Recordings \ {e} : recording'[x] = recording[x]
  BY <1>2, <1>4 DEF Runs, CallStateTyped, CallTypeOK
<1>8. \A r \in CallRequests : ~CallIn(r, "stop", "store")
  BY <1>2, <1>3 DEF CallsAgree, OneWriter
<1>9. OneStart'
  BY <1>2, <1>5, <1>6, <1>7, OtherCallRequestsStay DEF CallsAgree, OneStart
<1>10. Owned'
  BY <1>2, <1>5, <1>6, <1>7, OtherCallRequestsStay DEF CallsAgree, Owned
<1>11. OneWriter'
  BY <1>2, <1>3, <1>4, <1>5, <1>7, <1>8, OtherCallRequestsStay DEF OneWriter
<1>12. RowHolds'
  BY <1>2, <1>3, <1>5, <1>7 DEF RowHolds
<1> QED  BY <1>9, <1>10, <1>11, <1>12 DEF CallsAgree

LEMMA StoresAgrees ==
  ASSUME CallStateTyped, CallsAgree, NEW q \in CallRequests, Stores(q)
  PROVE  CallsAgree'
<1>1. /\ UNCHANGED recording
      /\ callRequest'[q] = NoCallRequest
      /\ \A r \in CallRequests \ {q} : callRequest'[r] = callRequest[r]
  BY CallAnswersEffect DEF Stores, CallStateTyped
<1>2. \A op \in {"start", "stop"}, step \in {"call", "store"} : ~CallIn(q, op, step)' /\ ~Starting(q)'
  BY <1>1 DEF CallIn, Starting
<1>3. call # NoCall /\ call \in Call
  BY DEF Stores, CallsAgree, RowHolds, CallStateTyped, CallTypeOK
<1>4. callRequest[q] \in Requesting /\ callRequest[q].op \in {"start", "stop"}
  BY CallRequestInProgress DEF Stores, CallStateTyped, Requesting
<1>5. PICK new : new = IF callRequest[q].op = "start" THEN callRequest[q].egress ELSE NoCall
  OBVIOUS
<1>6. call' = [call EXCEPT !.egress = new]
  BY <1>3, <1>5 DEF Stores
<1>7. new \in Recordings \cup {NoCall}
  BY <1>4, <1>5 DEF Requesting
<1>8. call' # NoCall /\ call'.egress = new
  BY <1>3, <1>6, <1>7, NoCallIsNoRow DEF Call
<1>9. CASE CallIn(q, "start", "store")
  <2>1. /\ new = callRequest[q].egress /\ new \in Recordings /\ recording[new] # "new"
        /\ call.egress = NoCall /\ \A r \in CallRequests \ {q} : ~Starting(r)
    BY <1>5, <1>9 DEF CallsAgree, OneStart, CallIn, Starting
  <2>2. \A e \in Runs : e = new
    BY <1>9, <2>1, CallAssumption DEF CallsAgree, Owned, Runs, Starting
  <2>3. \A r \in CallRequests : ~CallIn(r, "stop", "store")
    BY <2>1, CallAssumption DEF CallsAgree, OneWriter
  <2>4. OneStart'
    BY <1>2, <2>1, OtherCallRequestsStay, <1>1 DEF OneStart, Starting
  <2>5. Owned'
    BY <1>1, <1>2, <1>8, <2>2, OtherCallRequestsStay DEF CallsAgree, Owned, Runs
  <2>6. OneWriter' /\ RowHolds'
    BY <1>1, <1>2, <1>8, <2>1, <2>3, OtherCallRequestsStay DEF OneWriter, RowHolds
  <2> QED  BY <2>4, <2>5, <2>6 DEF CallsAgree
<1>10. CASE CallIn(q, "stop", "store")
  <2>1. /\ new = NoCall /\ call.egress \in Recordings /\ recording[call.egress] = "over"
        /\ \A r \in CallRequests \ {q} : ~CallIn(r, "stop", "store")
    BY <1>5, <1>10 DEF CallsAgree, OneWriter, CallIn
  <2>2. \A r \in CallRequests : ~Starting(r)
    BY <2>1, CallAssumption DEF CallsAgree, OneStart
  <2>3. Runs = {}
    BY <2>1, <2>2 DEF CallsAgree, Owned, Starting, Runs
  <2>4. OneStart'
    BY <1>1, <1>2, <2>2, OtherCallRequestsStay DEF OneStart, Starting
  <2>5. Owned'
    BY <1>1, <1>2, <2>3, OtherCallRequestsStay DEF CallsAgree, Owned, Runs
  <2>6. OneWriter' /\ RowHolds'
    BY <1>1, <1>2, <1>8, <2>1, OtherCallRequestsStay DEF OneWriter, RowHolds
  <2> QED  BY <2>4, <2>5, <2>6 DEF CallsAgree
<1> QED  BY <1>4, <1>9, <1>10 DEF Stores, CallIn

LEMMA CallIsRefusedAgrees ==
  ASSUME CallStateTyped, CallsAgree, NEW q \in CallRequests, CallIsRefused(q)
  PROVE  CallsAgree'
<1>1. /\ UNCHANGED <<call, recording>>
      /\ callRequest'[q] = NoCallRequest
      /\ \A r \in CallRequests \ {q} : callRequest'[r] = callRequest[r]
      /\ callRequest[q].step = "call"
  BY CallAnswersEffect DEF CallIsRefused, CallStateTyped
<1>2. /\ \A op \in {"start", "stop"}, step \in {"call", "store"} : ~CallIn(q, op, step)'
      /\ ~Starting(q)'
      /\ ~CallIn(q, "start", "store") /\ ~CallIn(q, "stop", "store")
  BY <1>1 DEF CallIn, Starting
<1>3. OneStart'
  BY <1>1, <1>2, OtherCallRequestsStay DEF CallsAgree, OneStart
<1>4. Owned' /\ OneWriter'
  BY <1>1, <1>2, OtherCallRequestsStay DEF CallsAgree, Owned, OneWriter, Runs
<1>5. RowHolds'
  BY <1>1 DEF CallsAgree, RowHolds
<1> QED  BY <1>3, <1>4, <1>5 DEF CallsAgree

LEMMA CallStepAgrees ==
  ASSUME CallStateTyped, CallsAgree, CallNext, recordingFlaws' = {}
  PROVE  CallsAgree'
<1>1. ASSUME NEW q \in CallRequests, StoreFails(q)  PROVE FALSE
  BY <1>1 DEF StoreFails, Lost
<1> QED
  BY <1>1, CallStepTyped, RowStepAgrees, JoinAgrees, StartRecordingAgrees,
     StartCallSucceedsAgrees, StopRecordingAgrees, StopCallSucceedsAgrees, StoresAgrees,
     CallIsRefusedAgrees DEF CallNext

\* The inductive invariant: types, and while nothing has parted row and LiveKit, one start
\* at a time, one answered stop at a time, and a row that nothing else writes under either.
THEOREM CallInvariance == CallSpec => []CallIInv
<1>1. CallInit => CallIInv
  <2>1. CallInit => CallTypeOK /\ RequestsTyped
    BY DEF CallInit, CallTypeOK, RequestsTyped
  <2>2. CallInit => CallsAgree
    BY DEF CallInit, CallsAgree, OneStart, Owned, OneWriter, RowHolds, Starting, CallIn, Runs
  <2> QED  BY <2>1, <2>2 DEF CallIInv
<1>2. CallIInv /\ [CallNext]_callVars => CallIInv'
  <2> SUFFICES ASSUME CallIInv, [CallNext]_callVars  PROVE CallIInv'
    OBVIOUS
  <2>1. CASE CallNext
    <3>1. CallStateTyped /\ (recordingFlaws = {} => CallsAgree)
      BY DEF CallIInv, CallStateTyped
    <3>2. CallStateTyped' /\ recordingFlaws \subseteq recordingFlaws'
      BY <2>1, <3>1, CallStepTyped, CallFlawsGrow
    <3>3. ASSUME recordingFlaws' = {}  PROVE CallsAgree'
      BY <2>1, <3>1, <3>2, <3>3, CallStepAgrees
    <3> QED  BY <3>2, <3>3 DEF CallIInv, CallStateTyped
  <2>2. CASE UNCHANGED callVars
    <3> USE <2>2 DEF callVars
    <3>1. CallTypeOK' = CallTypeOK /\ RequestsTyped' = RequestsTyped
      BY DEF CallTypeOK, RequestsTyped
    <3>2. CallsAgree => OneStart' /\ OneWriter' /\ RowHolds'
      BY DEF CallsAgree, OneStart, OneWriter, RowHolds, Starting, CallIn
    <3>3. CallsAgree => Owned'
      BY DEF CallsAgree, Owned, CallIn, Runs
    <3>4. CallsAgree => CallsAgree'
      BY <3>2, <3>3 DEF CallsAgree
    <3> QED  BY <3>1, <3>4 DEF CallIInv
  <2> QED  BY <2>1, <2>2
<1> QED  BY <1>1, <1>2, PTL DEF CallSpec

\* A recording that runs is the one of the row or of the request that started it, unless two
\* starts met, the call was removed, a form set the id, or a write failed.
THEOREM RecordingIsOwned == CallSpec => []RecordingStaysOwned
<1>1. CallIInv => RecordingStaysOwned
  BY DEF CallIInv, CallsAgree, Owned, RecordingStaysOwned, CallIn
<1> QED  BY <1>1, CallInvariance, PTL

-----------------------------------------------------------------------------
(***************************************************************************)
(* ChatPins: no toggle is lost.                                            *)
(*                                                                         *)
(* PinsAreToggled depends on the toggles in progress: PinAgrees adds that  *)
(* a message no two toggles met on has one in progress at most, and that   *)
(* it will store the other value than the row still has.                   *)
(***************************************************************************)
\* What a toggle in progress holds.
Toggle == [step : {"store"}, post : Posts, value : BOOLEAN]

PinStateTyped ==
  /\ pinned \in [Posts -> BOOLEAN \cup {NoPost}]
  /\ pinRequest \in [PinRequests -> Toggle \cup {NoToggle}]
  /\ odd \subseteq Posts /\ pinCrossed \subseteq Posts

PinAgrees(m) ==
  /\ pinned[m] = TRUE => m \in odd
  /\ m \in odd => pinned[m] = TRUE
  /\ \A r \in Toggling(m) : /\ pinned[m] # NoPost
                            /\ pinRequest[r].value = TRUE <=> pinned[m] = FALSE
                            /\ Toggling(m) = {r}

PinIInv == PinStateTyped /\ \A m \in Posts \ pinCrossed : PinAgrees(m)

LEMMA ToggleIsNone == NoToggle \notin Toggle
  BY DEF NoToggle, Toggle

\* A message that the step does not concern.
LEMMA PinStays ==
  ASSUME NEW m \in Posts, PinAgrees(m), pinned'[m] = pinned[m], m \in odd' <=> m \in odd,
         \A r \in PinRequests : r \in Toggling(m)' <=> r \in Toggling(m),
         \A r \in Toggling(m) : pinRequest'[r] = pinRequest[r]
  PROVE  PinAgrees(m)'
<1>1. Toggling(m)' = Toggling(m)
  BY DEF Toggling
<1> QED  BY <1>1 DEF PinAgrees

LEMMA TogglePinStep ==
  ASSUME PinIInv, NEW r \in PinRequests, NEW m \in Posts, TogglePin(r, m)
  PROVE  PinIInv'
<1> DEFINE new == [step |-> "store", post |-> m, value |-> ~pinned[m]]
<1>1. PinStateTyped /\ pinned[m] \in BOOLEAN /\ pinned[m] # NoPost
  BY DEF PinIInv, PinStateTyped, TogglePin
<1>2. new \in Toggle /\ new.post = m /\ (new.value = TRUE <=> pinned[m] = FALSE)
  BY <1>1 DEF Toggle
<1>3. pinRequest' = [pinRequest EXCEPT ![r] = new] /\ pinRequest[r] = NoToggle
      /\ pinCrossed' = pinCrossed \cup (IF Toggling(m) = {} THEN {} ELSE {m})
      /\ UNCHANGED <<pinned, odd>>
  BY DEF TogglePin
<1> HIDE DEF new
<1>4. PinStateTyped'
  BY <1>1, <1>2, <1>3 DEF PinStateTyped
<1>5. /\ pinRequest'[r] = new /\ new # NoToggle
      /\ \A x \in PinRequests \ {r} : pinRequest'[x] = pinRequest[x]
  BY <1>1, <1>2, <1>3, ToggleIsNone DEF PinStateTyped
<1>6. ASSUME NEW n \in Posts \ pinCrossed'  PROVE PinAgrees(n)'
  <2>1. PinAgrees(n)
    BY <1>3, <1>6 DEF PinIInv
  <2>2. CASE n = m
    <3>1. Toggling(m) = {}
      BY <1>3, <1>6, <2>2
    <3>2. Toggling(m)' = {r}
      BY <1>2, <1>5, <3>1 DEF Toggling
    <3> QED  BY <1>1, <1>2, <1>3, <1>5, <2>1, <2>2, <3>2 DEF PinAgrees
  <2>3. CASE n # m
    <3>1. r \notin Toggling(n) /\ r \notin Toggling(n)'
      BY <1>2, <1>3, <1>5, <2>3 DEF Toggling
    <3>2. /\ \A x \in PinRequests : x \in Toggling(n)' <=> x \in Toggling(n)
          /\ \A x \in Toggling(n) : pinRequest'[x] = pinRequest[x]
      BY <1>5, <3>1 DEF Toggling
    <3> QED  BY <1>3, <2>1, <3>2, PinStays
  <2> QED  BY <2>2, <2>3
<1> QED  BY <1>4, <1>6 DEF PinIInv

\* A toggle stores, or fails, and is no longer in progress.
LEMMA ToggleEnds ==
  ASSUME PinIInv, NEW r \in PinRequests, PinStores(r) \/ PinFails(r)
  PROVE  PinIInv'
<1>1. PinStateTyped /\ pinRequest[r] # NoToggle /\ pinRequest[r] \in Toggle /\ Finishes(r)
      /\ pinCrossed' = pinCrossed
  BY DEF PinIInv, PinStateTyped, PinStores, PinFails
<1> PICK m \in Posts : m = pinRequest[r].post
  BY <1>1 DEF Toggle
<1>2. m \in Posts /\ pinRequest[r].value \in BOOLEAN /\ r \in Toggling(m)
  BY <1>1 DEF Toggle, Toggling
<1>3. /\ pinRequest' \in [PinRequests -> Toggle \cup {NoToggle}] /\ pinRequest'[r] = NoToggle
      /\ \A x \in PinRequests \ {r} : pinRequest'[x] = pinRequest[x]
  BY <1>1 DEF PinStateTyped, Finishes
<1>4. \/ /\ pinned' = [pinned EXCEPT ![m] = pinRequest[r].value]
         /\ odd' = IF m \in odd THEN odd \ {m} ELSE odd \cup {m}
      \/ UNCHANGED <<pinned, odd>>
  BY DEF PinStores, PinFails
<1>5. PinStateTyped'
  BY <1>1, <1>2, <1>3, <1>4 DEF PinStateTyped
<1>6. ASSUME NEW n \in Posts \ pinCrossed'  PROVE PinAgrees(n)'
  <2>1. PinAgrees(n)
    BY <1>1, <1>6 DEF PinIInv
  <2>2. CASE n = m
    <3>1. Toggling(m) = {r} /\ pinned[m] # NoPost /\ pinned[m] \in BOOLEAN
          /\ (pinRequest[r].value = TRUE <=> pinned[m] = FALSE)
      BY <1>1, <1>2, <2>1, <2>2 DEF PinAgrees, PinStateTyped
    <3>2. Toggling(m)' = {}
      BY <1>3, <3>1 DEF Toggling
    <3>3. (pinned'[m] = TRUE => m \in odd') /\ (m \in odd' => pinned'[m] = TRUE)
      BY <1>1, <1>2, <1>4, <2>1, <2>2, <3>1 DEF PinAgrees, PinStateTyped
    <3> QED  BY <2>2, <3>2, <3>3 DEF PinAgrees
  <2>3. CASE n # m
    <3>1. r \notin Toggling(n) /\ r \notin Toggling(n)'
      BY <1>3, <2>3 DEF Toggling
    <3>2. /\ \A x \in PinRequests : x \in Toggling(n)' <=> x \in Toggling(n)
          /\ \A x \in Toggling(n) : pinRequest'[x] = pinRequest[x]
      BY <1>3, <3>1 DEF Toggling
    <3>3. pinned'[n] = pinned[n] /\ (n \in odd' <=> n \in odd)
      BY <1>1, <1>4, <2>3 DEF PinStateTyped
    <3> QED  BY <2>1, <3>2, <3>3, PinStays
  <2> QED  BY <2>2, <2>3
<1> QED  BY <1>5, <1>6 DEF PinIInv

\* The inductive invariant of the pins.
THEOREM PinInvariance == PinSpec => []PinIInv
<1>1. PinInit => PinIInv
  BY PinAssumption DEF PinInit, PinIInv, PinStateTyped, PinAgrees, Toggling
<1>2. PinIInv /\ [PinNext]_pinVars => PinIInv'
  <2> SUFFICES ASSUME PinIInv, [PinNext]_pinVars  PROVE PinIInv'
    OBVIOUS
  <2>1. ASSUME NEW m \in Posts, SaveMessage(m)  PROVE PinIInv'
    <3>1. PinStateTyped'
      BY <2>1 DEF SaveMessage, PinIInv, PinStateTyped
    <3>2. \A n \in Posts : Toggling(n)' = Toggling(n)
      BY <2>1 DEF SaveMessage, Toggling
    <3>3. ASSUME NEW n \in Posts \ pinCrossed'  PROVE PinAgrees(n)'
      <4>1. PinAgrees(n) /\ UNCHANGED <<pinRequest, odd>>
        BY <2>1, <3>3 DEF SaveMessage, PinIInv
      <4>2. CASE n = m
        <5>1. pinned'[n] = FALSE /\ pinned[n] = NoPost
          BY <2>1, <4>2 DEF SaveMessage, PinIInv, PinStateTyped
        <5>2. n \notin odd /\ Toggling(n) = {}
          BY <4>1, <5>1, PinAssumption DEF PinAgrees
        <5> QED  BY <3>2, <4>1, <5>1, <5>2 DEF PinAgrees
      <4>3. CASE n # m
        <5>1. pinned'[n] = pinned[n]
          BY <2>1, <4>3 DEF SaveMessage, PinIInv, PinStateTyped
        <5> QED  BY <3>2, <4>1, <5>1, PinStays
      <4> QED  BY <4>2, <4>3
    <3> QED  BY <3>1, <3>3 DEF PinIInv
  <2>2. CASE UNCHANGED pinVars
    BY <2>2 DEF pinVars, PinIInv, PinStateTyped, PinAgrees, Toggling
  <2> QED  BY <2>1, <2>2, TogglePinStep, ToggleEnds DEF PinNext
<1> QED  BY <1>1, <1>2, PTL DEF PinSpec

\* The types of the pinned messages and the toggles.
THEOREM PinsTyped == PinSpec => []PinTypeOK
<1>1. PinIInv => PinTypeOK
  BY DEF PinIInv, PinStateTyped, PinTypeOK, Toggle
<1> QED  BY <1>1, PinInvariance, PTL

\* A message is pinned when an odd number of toggles succeeded on it, unless two of them met.
THEOREM NoToggleIsLost == PinSpec => []PinsAreToggled
<1>1. ASSUME PinIInv, NEW m \in Posts \ pinCrossed, pinned[m] # NoPost
      PROVE  pinned[m] <=> m \in odd
  <2>1. pinned[m] \in BOOLEAN /\ PinAgrees(m)
    BY <1>1 DEF PinIInv, PinStateTyped
  <2> QED  BY <2>1 DEF PinAgrees
<1>2. PinIInv => PinsAreToggled
  BY <1>1 DEF PinsAreToggled
<1> QED  BY <1>2, PinInvariance, PTL

-----------------------------------------------------------------------------
(***************************************************************************)
(* Accounts: one workspace, and mails that verify.                         *)
(*                                                                         *)
(* What AccountsAgree says of the rows depends on requests that have read  *)
(* and not yet written: the invariant follows the first request from its   *)
(* count of the users to its row, and every code from its row to its mail. *)
(* The bound on requests bounds the tenants, as each tenant took one.      *)
(***************************************************************************)
\* What a request in progress holds.
AccountWork ==
  [op : {"register", "oauth", "create", "verify", "resend"}, email : Emails,
   step : {"count", "tenant", "user", "mail", "link", "verify", "code"},
   first : BOOLEAN, tenant : TenantIds, code : CodeIds]

\* Requests that may yet create a tenant, and those whose mail for e is on its way.
Founding ==
  {r \in AccountRequests : accountRequest[r] # IdleRequest
                           /\ accountRequest[r].step \in {"count", "tenant"}}
Mailing(e) ==
  {r \in AccountRequests : /\ accountRequest[r] # IdleRequest
                           /\ accountRequest[r].email = e /\ accountRequest[r].step = "mail"}

\* The operations each step belongs to; from the row on, the user is there.
Follows(r) ==
  accountRequest[r] # IdleRequest =>
    LET q == accountRequest[r]
    IN /\ q.step = "count" => q.op = "register" /\ ~q.first
       /\ q.step \in {"tenant", "user"} => q.op \in {"register", "oauth", "create"}
       /\ q.first => q.op = "register"
       /\ q.op \in {"oauth", "create"} => q.code = 0
       /\ q.step \in {"mail", "link", "verify", "code"} => q.email \in Existing

\* Every tenant took a request of its own.
TenantsAreCounted ==
  /\ accountRequests \in 0 .. MaxAccountRequests
  /\ IsFiniteSet(Founding)
  /\ tenants + Cardinality(Founding) <= accountRequests

AccountStateTyped ==
  /\ AccountTypeOK
  /\ accountRequest \in [AccountRequests -> AccountWork \cup {IdleRequest}]
  /\ \A r \in AccountRequests : Follows(r)
  /\ TenantsAreCounted

First(r) == accountRequest[r] # IdleRequest /\ accountRequest[r].first

\* A request with a tenant has the only one; it is looked for when it is there, or by the
\* first, when it is not.
Placed(r) ==
  accountRequest[r] # IdleRequest =>
    LET q == accountRequest[r]
    IN /\ q.op = "oauth" => q.step \in {"tenant", "link"}
       /\ q.step = "user" => q.tenant = 1 /\ tenants = 1
       /\ q.step = "tenant" /\ q.first => tenants = 0
       /\ q.step = "tenant" /\ ~q.first /\ q.op # "oauth" => tenants = 1

\* Without a flaw there is one first request, and a tenant has a user or is about to.
WorkspaceAgrees ==
  /\ tenants \in {0, 1}
  /\ Existing # {} => tenants = 1
  /\ tenants = 1 => \/ Existing # {}
                    \/ \E r \in AccountRequests : First(r) /\ accountRequest[r].step = "user"
  /\ \A r, q \in AccountRequests : First(r) /\ First(q) => r = q
  /\ \A r \in AccountRequests : Placed(r)
  /\ \A e \in Existing : account[e].tenant = 1

\* One mail at a time is on its way to e, with the code of the row if that is still valid; in
\* between, the last mail has it.
MailAgrees(e) ==
  /\ \A r, q \in Mailing(e) : r = q
  /\ Mailing(e) = {} /\ account[e].code # 0 => mailed[e] = account[e].code
  /\ \A r \in Mailing(e) : account[e].code \in {0, accountRequest[r].code}

MailsAgree == \A e \in Existing \ mailFlaws : MailAgrees(e)

AccountIInv ==
  AccountStateTyped /\ (workspaceFlaws = {} => WorkspaceAgrees) /\ MailsAgree

LEMMA IdleRequestIsNoWork == IdleRequest \notin AccountWork
  BY DEF AccountWork, IdleRequest

LEMMA WorkMoves ==
  ASSUME AccountStateTyped, NEW r \in AccountRequests, NEW changed \in AccountWork,
         Continues(r, changed)
  PROVE  /\ accountRequest' \in [AccountRequests -> AccountWork \cup {IdleRequest}]
         /\ accountRequest'[r] = changed /\ changed # IdleRequest
         /\ \A q \in AccountRequests \ {r} : accountRequest'[q] = accountRequest[q]
  BY IdleRequestIsNoWork DEF AccountStateTyped, Continues

LEMMA WorkEnds ==
  ASSUME AccountStateTyped, NEW r \in AccountRequests, Ends(r)
  PROVE  /\ accountRequest' \in [AccountRequests -> AccountWork \cup {IdleRequest}]
         /\ accountRequest'[r] = IdleRequest
         /\ \A q \in AccountRequests \ {r} : accountRequest'[q] = accountRequest[q]
  BY DEF AccountStateTyped, Continues, Ends

\* A request in a step of its own is in progress, and typed.
LEMMA WorkInStep ==
  ASSUME AccountStateTyped, NEW r \in AccountRequests,
         NEW step \in {"count", "tenant", "user", "mail", "link", "verify", "code"},
         accountRequest[r].step = step
  PROVE  accountRequest[r] # IdleRequest /\ accountRequest[r] \in AccountWork
  BY DEF AccountStateTyped, IdleRequest

LEMMA OthersFollow ==
  ASSUME NEW q \in AccountRequests, Follows(q), Existing \subseteq Existing',
         accountRequest'[q] = accountRequest[q]
  PROVE  Follows(q)'
  BY DEF Follows

LEMMA TenantsAreNatural == AccountStateTyped => tenants \in Nat
<1>1. tenants \in TenantIds => tenants \in Nat
  BY AccountAssumption DEF TenantIds
<1> QED  BY <1>1 DEF AccountStateTyped, AccountTypeOK

\* A request comes.
LEMMA CountGrows ==
  ASSUME TenantsAreCounted, NEW r \in AccountRequests, UNCHANGED tenants, tenants \in Nat,
         accountRequests' = accountRequests + 1, accountRequests < MaxAccountRequests,
         \A q \in AccountRequests \ {r} : accountRequest'[q] = accountRequest[q],
         accountRequest[r] = IdleRequest
  PROVE  TenantsAreCounted'
<1>1. Founding' \ {r} = Founding /\ r \notin Founding
  BY DEF Founding
<1>2. Founding' = Founding \/ Founding' = Founding \cup {r}
  BY <1>1
<1>3. IsFiniteSet(Founding) /\ Cardinality(Founding) \in Nat
  BY FS_CardinalityType DEF TenantsAreCounted
<1>4. /\ IsFiniteSet(Founding \cup {r})
      /\ Cardinality(Founding \cup {r}) = Cardinality(Founding) + 1
  BY <1>1, <1>3, FS_AddElement
<1>5. IsFiniteSet(Founding') /\ Cardinality(Founding') \in Nat
      /\ Cardinality(Founding') <= Cardinality(Founding) + 1
  <2>1. CASE Founding' = Founding
    BY <1>3, <2>1
  <2>2. CASE Founding' = Founding \cup {r}
    BY <1>3, <1>4, <2>2
  <2> QED  BY <1>2, <2>1, <2>2
<1> QED  BY <1>3, <1>5, AccountAssumption DEF TenantsAreCounted

\* No request comes, and none is about to found more than before.
LEMMA CountStays ==
  ASSUME TenantsAreCounted, UNCHANGED tenants, tenants \in Nat,
         accountRequests' \in accountRequests .. MaxAccountRequests,
         Founding' \subseteq Founding
  PROVE  TenantsAreCounted'
<1>1. IsFiniteSet(Founding') /\ Cardinality(Founding') <= Cardinality(Founding)
  BY FS_Subset DEF TenantsAreCounted
<1>2. Cardinality(Founding') \in Nat /\ Cardinality(Founding) \in Nat
  BY <1>1, FS_CardinalityType DEF TenantsAreCounted
<1> QED  BY <1>1, <1>2, AccountAssumption DEF TenantsAreCounted

\* A request has founded a tenant, or has found one.
LEMMA CountFounds ==
  ASSUME TenantsAreCounted, NEW r \in Founding, UNCHANGED accountRequests, tenants \in Nat,
         tenants' \in {tenants, tenants + 1}, Founding' = Founding \ {r}
  PROVE  TenantsAreCounted' /\ tenants' \in TenantIds
<1>1. IsFiniteSet(Founding') /\ Cardinality(Founding') = Cardinality(Founding) - 1
  BY FS_RemoveElement DEF TenantsAreCounted
<1>2. Cardinality(Founding') \in Nat /\ Cardinality(Founding) \in Nat
  BY <1>1, FS_CardinalityType DEF TenantsAreCounted
<1> QED  BY <1>1, <1>2, AccountAssumption DEF TenantsAreCounted, TenantIds

\* Everything the workspace is judged by stays, but for requests that are not about to give
\* the first user a tenant.
LEMMA WorkspaceStays ==
  ASSUME WorkspaceAgrees, UNCHANGED tenants, Existing' = Existing,
         \A e \in Existing : account'[e].tenant = account[e].tenant,
         \A q \in AccountRequests :
           \/ accountRequest'[q] = accountRequest[q]
           \/ /\ ~(First(q) /\ accountRequest[q].step = "user")
              /\ First(q)' => First(q)
              /\ Placed(q)'
  PROVE  WorkspaceAgrees'
<1>1. \A q \in AccountRequests : (First(q)' => First(q)) /\ Placed(q)'
  BY DEF WorkspaceAgrees, First, Placed
<1>2. \A q \in AccountRequests :
        First(q) /\ accountRequest[q].step = "user"
          => First(q)' /\ accountRequest'[q].step = "user"
  BY DEF First
<1> QED  BY <1>1, <1>2 DEF WorkspaceAgrees

LEMMA MailStays ==
  ASSUME NEW e \in Existing, MailAgrees(e), mailed'[e] = mailed[e],
         account'[e].code \in {0, account[e].code},
         Mailing(e)' = Mailing(e),
         \A r \in Mailing(e) : accountRequest'[r] = accountRequest[r]
  PROVE  MailAgrees(e)'
  BY DEF MailAgrees

\* Mails on their way to e are not those of r.
LEMMA OtherMails ==
  ASSUME NEW r \in AccountRequests, NEW e,
         \A q \in AccountRequests \ {r} : accountRequest'[q] = accountRequest[q],
         r \notin Mailing(e), r \notin Mailing(e)'
  PROVE  /\ Mailing(e)' = Mailing(e)
         /\ \A q \in Mailing(e) : accountRequest'[q] = accountRequest[q]
  BY DEF Mailing

\* A request goes on with what it has founded, or is done.
LEMMA CountKeeps ==
  ASSUME AccountStateTyped, UNCHANGED <<tenants, accountRequests>>,
         Founding' \subseteq Founding
  PROVE  TenantsAreCounted'
<1>1. TenantsAreCounted /\ tenants \in Nat
  BY TenantsAreNatural DEF AccountStateTyped
<1>2. accountRequests' \in accountRequests .. MaxAccountRequests
  BY <1>1, AccountAssumption DEF TenantsAreCounted
<1> QED  BY <1>1, <1>2, CountStays

LEMMA ComesStep ==
  ASSUME AccountIInv, NEW r \in AccountRequests, NEW e \in Emails,
         \/ Register(r, e) \/ OAuthLogin(r, e) \/ CreateUser(r, e)
         \/ VerifyEmail(r, e) \/ ResendVerification(r, e)
  PROVE  AccountIInv'
<1>1. PICK op \in {"register", "oauth", "create", "verify", "resend"},
           step \in {"count", "tenant", "link", "verify", "code"} :
        /\ AccountComes(r, op, e, step)
        /\ step = "count" => op = "register"
        /\ step = "tenant" => op \in {"oauth", "create"}
        /\ step \in {"link", "verify", "code"} => e \in Existing
        /\ op = "oauth" => step \in {"tenant", "link"}
        /\ op = "create" => Existing # {}
  BY DEF Register, OAuthLogin, CreateUser, VerifyEmail, ResendVerification, Managed, Existing
<1> DEFINE new == [op |-> op, email |-> e, step |-> step, first |-> FALSE, tenant |-> 0,
                   code |-> IF op \in {"register", "resend"} THEN accountRequests + 1 ELSE 0]
<1>2. AccountStateTyped /\ accountRequests \in 0 .. MaxAccountRequests
  BY DEF AccountIInv, AccountStateTyped, TenantsAreCounted
<1>3. /\ accountRequest[r] = IdleRequest /\ Continues(r, new)
      /\ accountRequests < MaxAccountRequests /\ accountRequests' = accountRequests + 1
      /\ UNCHANGED <<account, tenants, linked, mailed, workspaceFlaws, mailFlaws>>
  BY <1>1 DEF AccountComes
<1>4. new \in AccountWork
  BY <1>2, <1>3, AccountAssumption DEF AccountWork, TenantIds, CodeIds
<1>5. /\ new.op = op /\ new.email = e /\ new.step = step /\ ~new.first
      /\ op \in {"oauth", "create"} => new.code = 0
  OBVIOUS
<1> HIDE DEF new
<1>6. /\ accountRequest' \in [AccountRequests -> AccountWork \cup {IdleRequest}]
      /\ accountRequest'[r] = new /\ new # IdleRequest
      /\ \A q \in AccountRequests \ {r} : accountRequest'[q] = accountRequest[q]
  BY <1>2, <1>3, <1>4, WorkMoves
<1>7. Existing' = Existing
  BY <1>3 DEF Existing
<1>8. AccountStateTyped'
  <2>1. AccountTypeOK'
    BY <1>2, <1>3, <1>7 DEF AccountStateTyped, AccountTypeOK
  <2>2. Follows(r)'
    BY <1>1, <1>5, <1>6, <1>7 DEF Follows
  <2>3. \A q \in AccountRequests : Follows(q)'
    BY <1>2, <1>6, <1>7, <2>2, OthersFollow DEF AccountStateTyped
  <2>4. TenantsAreCounted'
    BY <1>2, <1>3, <1>6, CountGrows, TenantsAreNatural DEF AccountStateTyped
  <2> QED  BY <1>6, <2>1, <2>3, <2>4 DEF AccountStateTyped
<1>9. ASSUME WorkspaceAgrees  PROVE WorkspaceAgrees'
  <2>1. ~First(r) /\ ~First(r)'
    BY <1>3, <1>5, <1>6 DEF First
  <2>2. Placed(r)'
    BY <1>1, <1>3, <1>5, <1>6, <1>9 DEF Placed, WorkspaceAgrees
  <2> QED  BY <1>3, <1>6, <1>7, <1>9, <2>1, <2>2, WorkspaceStays
<1>10. MailsAgree'
  <2> SUFFICES ASSUME NEW x \in Existing \ mailFlaws  PROVE MailAgrees(x)'
    BY <1>3, <1>7 DEF MailsAgree
  <2>1. r \notin Mailing(x) /\ r \notin Mailing(x)'
    BY <1>1, <1>3, <1>5, <1>6 DEF Mailing
  <2>2. MailAgrees(x)
    BY DEF AccountIInv, MailsAgree
  <2> QED  BY <1>3, <1>6, <2>1, <2>2, OtherMails, MailStays
<1> QED  BY <1>3, <1>8, <1>9, <1>10 DEF AccountIInv

LEMMA CountsUsersStep ==
  ASSUME AccountIInv, NEW r \in AccountRequests, CountsUsers(r)
  PROVE  AccountIInv'
<1> DEFINE new == [accountRequest[r] EXCEPT !.step = "tenant", !.first = (Existing = {})]
<1>1. /\ accountRequest[r].step = "count" /\ Continues(r, new)
      /\ UNCHANGED <<account, tenants, linked, mailed, mailFlaws, accountRequests>>
  BY DEF CountsUsers
<1>2. AccountStateTyped
  BY DEF AccountIInv
<1>3. accountRequest[r] # IdleRequest /\ accountRequest[r] \in AccountWork
  BY <1>1, <1>2, WorkInStep
<1>4. /\ new \in AccountWork /\ new.step = "tenant" /\ (new.first <=> Existing = {})
      /\ new.op = accountRequest[r].op /\ new.code = accountRequest[r].code
  BY <1>3 DEF AccountWork
<1> HIDE DEF new
<1>5. /\ accountRequest' \in [AccountRequests -> AccountWork \cup {IdleRequest}]
      /\ accountRequest'[r] = new /\ new # IdleRequest
      /\ \A q \in AccountRequests \ {r} : accountRequest'[q] = accountRequest[q]
  BY <1>1, <1>2, <1>4, WorkMoves
<1>6. Existing' = Existing /\ accountRequest[r].op = "register" /\ ~accountRequest[r].first
  BY <1>1, <1>2, <1>3 DEF Existing, AccountStateTyped, Follows
<1>7. AccountStateTyped'
  <2>1. AccountTypeOK'
    BY <1>1, <1>2, <1>6 DEF CountsUsers, AccountStateTyped, AccountTypeOK
  <2>2. Follows(r)'
    BY <1>4, <1>5, <1>6 DEF Follows
  <2>3. \A q \in AccountRequests : Follows(q)'
    BY <1>2, <1>5, <1>6, <2>2, OthersFollow DEF AccountStateTyped
  <2>4. Founding' = Founding
    BY <1>1, <1>3, <1>4, <1>5 DEF Founding
  <2>5. TenantsAreCounted'
    BY <1>1, <1>2, <2>4 DEF AccountStateTyped, TenantsAreCounted
  <2> QED  BY <1>5, <2>1, <2>3, <2>5 DEF AccountStateTyped
<1>8. ASSUME workspaceFlaws' = {}  PROVE WorkspaceAgrees'
  <2>1. /\ WorkspaceAgrees
        /\ \A q \in AccountRequests \ {r} : ~First(q)
    BY <1>8 DEF CountsUsers, AccountIInv, First
  <2>2. ~First(r)
    BY <1>6 DEF First
  <2>3. \A q \in AccountRequests \ {r} : ~First(q)'
    BY <1>5, <2>1 DEF First
  <2>4. Existing = {} => tenants = 0
    BY <2>1, <2>2 DEF WorkspaceAgrees
  <2>5. Existing # {} => tenants = 1
    BY <2>1 DEF WorkspaceAgrees
  <2>6. Placed(r)'
    BY <1>1, <1>4, <1>5, <1>6, <2>4, <2>5 DEF Placed
  <2>7. \A q \in AccountRequests \ {r} : Placed(q)'
    BY <1>1, <1>5, <2>1 DEF WorkspaceAgrees, Placed
  <2> QED  BY <1>1, <1>6, <2>1, <2>3, <2>4, <2>6, <2>7 DEF WorkspaceAgrees
<1>9. MailsAgree'
  <2> SUFFICES ASSUME NEW x \in Existing \ mailFlaws  PROVE MailAgrees(x)'
    BY <1>1, <1>6 DEF MailsAgree
  <2>1. r \notin Mailing(x) /\ r \notin Mailing(x)'
    BY <1>1, <1>4, <1>5 DEF Mailing
  <2>2. MailAgrees(x)
    BY DEF AccountIInv, MailsAgree
  <2> QED  BY <1>1, <1>5, <2>1, <2>2, OtherMails, MailStays
<1> QED  BY <1>7, <1>8, <1>9 DEF AccountIInv

LEMMA FindsTenantStep ==
  ASSUME AccountIInv, NEW r \in AccountRequests, FindsTenant(r)
  PROVE  AccountIInv'
<1> DEFINE q == accountRequest[r]
           creates == q.first \/ q.op = "oauth"
           new(t) == [q EXCEPT !.step = "user", !.tenant = t]
<1>1. /\ q.step = "tenant"
      /\ tenants' = IF creates THEN tenants + 1 ELSE tenants
      /\ workspaceFlaws' = workspaceFlaws \cup IF q.op = "oauth" THEN {"oauth"} ELSE {}
      /\ UNCHANGED <<account, linked, mailed, mailFlaws, accountRequests>>
  BY DEF FindsTenant
<1>2. AccountStateTyped /\ tenants \in Nat
  BY TenantsAreNatural DEF AccountIInv
<1>3. q # IdleRequest /\ q \in AccountWork
  BY <1>1, <1>2, WorkInStep
<1>4. \/ \E t \in Nat : /\ Continues(r, new(t))
                        /\ IF creates THEN t = tenants + 1 ELSE t <= tenants
                        /\ ~creates /\ tenants # 0 => t >= 1
      \/ ~creates /\ tenants = 0 /\ Ends(r)
  <2>1. CASE creates
    <3>1. Continues(r, new(tenants + 1))
      BY <2>1 DEF FindsTenant
    <3>2. tenants + 1 \in Nat
      BY <1>2
    <3> QED  BY <2>1, <3>1, <3>2
  <2>2. CASE ~creates /\ q.op = "create"
    <3>1. PICK t \in IF tenants = 0 THEN {0} ELSE 1 .. tenants : Continues(r, new(t))
      BY <2>2 DEF FindsTenant
    <3>2. t \in Nat /\ t <= tenants /\ (tenants # 0 => t >= 1)
      BY <1>2, <3>1
    <3> QED  BY <2>2, <3>1, <3>2
  <2>3. CASE ~creates /\ q.op # "create" /\ tenants # 0
    <3>1. Continues(r, new(1))
      BY <2>3 DEF FindsTenant
    <3>2. 1 \in Nat /\ 1 <= tenants
      BY <1>2, <2>3
    <3> HIDE DEF new, creates
    <3> QED  BY <2>3, <3>1, <3>2
  <2>4. CASE ~creates /\ q.op # "create" /\ tenants = 0
    BY <2>4 DEF FindsTenant
  <2> QED  BY <2>1, <2>2, <2>3, <2>4
<1>5. r \in Founding
  BY <1>1, <1>3 DEF Founding
<1>6. Existing' = Existing
  BY <1>1 DEF Existing
<1>7. tenants' \in {tenants, tenants + 1} /\ (~creates => tenants' = tenants)
  BY <1>1
<1>8. tenants + 1 <= MaxAccountRequests
  <2>1. Cardinality(Founding) \in Nat /\ Cardinality(Founding) # 0
    BY <1>2, <1>5, FS_CardinalityType, FS_EmptySet DEF AccountStateTyped, TenantsAreCounted
  <2> QED  BY <1>2, <2>1, AccountAssumption DEF AccountStateTyped, TenantsAreCounted
<1>9. ASSUME NEW t \in Nat, t <= tenants + 1
      PROVE  /\ new(t) \in AccountWork /\ new(t).step = "user" /\ new(t).tenant = t
             /\ new(t).op = q.op /\ new(t).first = q.first /\ new(t).code = q.code
  <2>1. t \in TenantIds
    BY <1>2, <1>8, <1>9, AccountAssumption DEF TenantIds
  <2> QED  BY <1>3, <2>1 DEF AccountWork
<1>10. CASE ~creates /\ tenants = 0 /\ Ends(r)
  <2>1. /\ accountRequest' \in [AccountRequests -> AccountWork \cup {IdleRequest}]
        /\ accountRequest'[r] = IdleRequest
        /\ \A p \in AccountRequests \ {r} : accountRequest'[p] = accountRequest[p]
    BY <1>2, <1>10, WorkEnds
  <2>2. AccountStateTyped'
    <3>1. Follows(r)' /\ Founding' = Founding \ {r}
      BY <2>1 DEF Follows, Founding
    <3>2. \A p \in AccountRequests : Follows(p)'
      BY <1>2, <1>6, <2>1, <3>1, OthersFollow DEF AccountStateTyped
    <3>3. TenantsAreCounted' /\ tenants' \in TenantIds
      BY <1>1, <1>2, <1>5, <1>7, <3>1, CountFounds DEF AccountStateTyped
    <3>4. AccountTypeOK'
      BY <1>1, <1>2, <1>6, <3>3 DEF AccountStateTyped, AccountTypeOK
    <3> QED  BY <2>1, <3>2, <3>3, <3>4 DEF AccountStateTyped
  <2>3. ASSUME WorkspaceAgrees  PROVE WorkspaceAgrees'
    <3>1. ~First(r) /\ ~First(r)' /\ Placed(r)'
      BY <1>10, <2>1 DEF First, Placed
    <3> QED  BY <1>1, <1>6, <1>7, <1>10, <2>1, <2>3, <3>1, WorkspaceStays
  <2>4. MailsAgree'
    <3> SUFFICES ASSUME NEW x \in Existing \ mailFlaws  PROVE MailAgrees(x)'
      BY <1>1, <1>6 DEF MailsAgree
    <3>1. r \notin Mailing(x) /\ r \notin Mailing(x)'
      BY <1>1, <2>1 DEF Mailing
    <3>2. MailAgrees(x)
      BY DEF AccountIInv, MailsAgree
    <3> QED  BY <1>1, <2>1, <3>1, <3>2, OtherMails, MailStays
  <2> QED  BY <1>1, <2>2, <2>3, <2>4 DEF AccountIInv
<1>11. ASSUME NEW t \in Nat, Continues(r, new(t)),
              IF creates THEN t = tenants + 1 ELSE t <= tenants,
              ~creates /\ tenants # 0 => t >= 1
       PROVE  AccountIInv'
  <2>0. t <= tenants + 1
    BY <1>2, <1>11
  <2>1. PICK changed \in AccountWork :
          /\ changed = new(t) /\ changed.step = "user" /\ changed.tenant = t
          /\ changed.op = q.op /\ changed.first = q.first /\ changed.code = q.code
    BY <1>9, <2>0
  <2>2. /\ accountRequest' \in [AccountRequests -> AccountWork \cup {IdleRequest}]
        /\ accountRequest'[r] = changed /\ changed # IdleRequest
        /\ \A p \in AccountRequests \ {r} : accountRequest'[p] = accountRequest[p]
    BY <1>2, <1>11, <2>1, WorkMoves
  <2>3. AccountStateTyped'
    <3>1. Founding' = Founding \ {r}
      BY <2>1, <2>2 DEF Founding
    <3>2. Follows(r)
      BY <1>2 DEF AccountStateTyped
    <3>3. Follows(r)'
      BY <1>1, <1>3, <2>1, <2>2, <3>2 DEF Follows
    <3>4. \A p \in AccountRequests : Follows(p)'
      BY <1>2, <1>6, <2>2, <3>3, OthersFollow DEF AccountStateTyped
    <3>5. TenantsAreCounted' /\ tenants' \in TenantIds
      BY <1>1, <1>2, <1>5, <1>7, <3>1, CountFounds DEF AccountStateTyped
    <3>6. AccountTypeOK'
      BY <1>1, <1>2, <1>6, <3>5 DEF AccountStateTyped, AccountTypeOK
    <3> QED  BY <2>2, <3>4, <3>5, <3>6 DEF AccountStateTyped
  <2>4. ASSUME workspaceFlaws' = {}  PROVE WorkspaceAgrees'
    <3>1. WorkspaceAgrees /\ q.op # "oauth"
      BY <1>1, <2>4 DEF AccountIInv
    <3>2. CASE q.first
      <4>1. tenants = 0 /\ First(r) /\ \A p \in AccountRequests \ {r} : ~First(p)
        BY <1>1, <1>3, <3>1, <3>2 DEF WorkspaceAgrees, Placed, First
      <4>2. tenants' = 1 /\ t = 1 /\ Existing = {}
        BY <1>1, <1>11, <3>1, <3>2, <4>1 DEF WorkspaceAgrees
      <4>3. First(r)' /\ accountRequest'[r].step = "user"
        BY <2>1, <2>2, <3>2 DEF First
      <4>4. \A p \in AccountRequests \ {r} : ~First(p)'
        BY <2>2, <4>1 DEF First
      <4>5. Placed(r)'
        BY <2>1, <2>2, <3>1, <4>2 DEF Placed
      <4>6. \A p \in AccountRequests \ {r} : Placed(p)'
        BY <2>2, <3>1, <4>1 DEF WorkspaceAgrees, Placed, First
      <4> QED  BY <1>6, <4>2, <4>3, <4>4, <4>5, <4>6 DEF WorkspaceAgrees
    <3>3. CASE ~q.first
      <4>1. tenants = 1 /\ tenants' = tenants
        BY <1>1, <1>3, <3>1, <3>3 DEF WorkspaceAgrees, Placed
      <4>2. t = 1
        BY <1>11, <3>1, <3>3, <4>1
      <4>3. ~First(r) /\ ~First(r)'
        BY <2>1, <2>2, <3>3 DEF First
      <4>4. Placed(r)'
        BY <2>1, <2>2, <3>1, <4>1, <4>2 DEF Placed
      <4> QED  BY <1>1, <1>6, <2>2, <3>1, <4>1, <4>3, <4>4, WorkspaceStays
    <3> QED  BY <3>2, <3>3
  <2>5. MailsAgree'
    <3> SUFFICES ASSUME NEW x \in Existing \ mailFlaws  PROVE MailAgrees(x)'
      BY <1>1, <1>6 DEF MailsAgree
    <3>1. r \notin Mailing(x) /\ r \notin Mailing(x)'
      BY <1>1, <2>1, <2>2 DEF Mailing
    <3>2. MailAgrees(x)
      BY DEF AccountIInv, MailsAgree
    <3> QED  BY <1>1, <2>2, <3>1, <3>2, OtherMails, MailStays
  <2> QED  BY <2>3, <2>4, <2>5 DEF AccountIInv
<1> QED  BY <1>4, <1>10, <1>11

\* What a request that has found its tenant does to the rows.
LEMMA UserIsCreated ==
  ASSUME AccountStateTyped, NEW r \in AccountRequests, CreatesUser(r),
         account[accountRequest[r].email] = NoAccount
  PROVE  LET q == accountRequest[r]
             e == q.email
         IN /\ account' \in [Emails -> Account \cup {NoAccount}]
            /\ Existing' = Existing \cup {e}
            /\ account'[e].tenant = q.tenant /\ account'[e].code = q.code
            /\ \A x \in Existing : account'[x] = account[x]
<1> DEFINE q == accountRequest[r]
           e == q.email
           row(role) == [tenant |-> q.tenant, role |-> role, verified |-> q.op = "oauth",
                         code |-> q.code, deleted |-> FALSE]
<1>1. q.step = "user"
  BY DEF CreatesUser
<1>2. q # IdleRequest /\ q \in AccountWork
  BY <1>1, WorkInStep
<1>3. q.op \in {"register", "oauth", "create"}
  BY <1>1, <1>2 DEF AccountStateTyped, Follows
<1>4. PICK role \in UserRoles : account' = [account EXCEPT ![e] = row(role)]
  BY <1>3 DEF CreatesUser, UserRoles
<1>5. row(role) \in Account /\ row(role).tenant = q.tenant /\ row(role).code = q.code
  BY <1>2 DEF AccountWork, Account
<1>6. e \in Emails
  BY <1>2 DEF AccountWork
<1> HIDE DEF row, q
<1>7. account \in [Emails -> Account \cup {NoAccount}]
  BY DEF AccountStateTyped, AccountTypeOK
<1>8. /\ account' \in [Emails -> Account \cup {NoAccount}] /\ account'[e] = row(role)
      /\ \A x \in Emails \ {e} : account'[x] = account[x]
  BY <1>4, <1>5, <1>6, <1>7
<1>9. Existing' = Existing \cup {e}
  BY <1>5, <1>6, <1>8, NoAccountIsNoRow DEF Existing
<1>10. e \notin Existing
  BY DEF Existing, q
<1>11. \A x \in Existing : account'[x] = account[x]
  BY <1>8, <1>10 DEF Existing
<1> USE DEF q
<1> QED  BY <1>5, <1>8, <1>9, <1>11

LEMMA CreatesUserStep ==
  ASSUME AccountIInv, NEW r \in AccountRequests, CreatesUser(r)
  PROVE  AccountIInv'
<1> DEFINE q == accountRequest[r]
<1>1. /\ q.step = "user"
      /\ UNCHANGED <<tenants, linked, mailed, workspaceFlaws, mailFlaws, accountRequests>>
  BY DEF CreatesUser
<1>2. AccountStateTyped /\ Follows(r)
  BY DEF AccountIInv, AccountStateTyped
<1>3. q # IdleRequest /\ q \in AccountWork
  BY <1>1, <1>2, WorkInStep
<1>4. q.op \in {"register", "oauth", "create"}
  BY <1>1, <1>2, <1>3 DEF Follows
<1> PICK e \in Emails : e = q.email
  BY <1>3 DEF AccountWork
<1>5. CASE account[e] # NoAccount
  <2>1. Ends(r) /\ UNCHANGED account
    BY <1>5 DEF CreatesUser
  <2>2. /\ accountRequest' \in [AccountRequests -> AccountWork \cup {IdleRequest}]
        /\ accountRequest'[r] = IdleRequest
        /\ \A p \in AccountRequests \ {r} : accountRequest'[p] = accountRequest[p]
    BY <1>2, <2>1, WorkEnds
  <2>3. Existing' = Existing /\ e \in Existing
    BY <1>3, <1>5, <2>1 DEF Existing, AccountWork
  <2>4. AccountStateTyped'
    <3>1. Follows(r)' /\ Founding' \subseteq Founding
      BY <2>2 DEF Follows, Founding
    <3>2. \A p \in AccountRequests : Follows(p)'
      BY <1>2, <2>2, <2>3, <3>1, OthersFollow DEF AccountStateTyped
    <3>3. TenantsAreCounted'
      BY <1>1, <1>2, <3>1, CountKeeps
    <3>4. AccountTypeOK'
      BY <1>1, <1>2, <2>1, <2>3 DEF AccountStateTyped, AccountTypeOK
    <3> QED  BY <2>2, <3>2, <3>3, <3>4 DEF AccountStateTyped
  <2>5. ASSUME WorkspaceAgrees  PROVE WorkspaceAgrees'
    <3>1. \A p \in AccountRequests : (First(p)' => First(p)) /\ Placed(p)'
      BY <1>1, <2>2, <2>5 DEF First, Placed, WorkspaceAgrees
    <3> QED  BY <1>1, <2>1, <2>3, <2>5, <3>1 DEF WorkspaceAgrees
  <2>6. MailsAgree'
    <3> SUFFICES ASSUME NEW x \in Existing \ mailFlaws  PROVE MailAgrees(x)'
      BY <1>1, <2>3 DEF MailsAgree
    <3>1. r \notin Mailing(x) /\ r \notin Mailing(x)'
      BY <1>1, <2>2 DEF Mailing
    <3>2. MailAgrees(x)
      BY DEF AccountIInv, MailsAgree
    <3> QED  BY <1>1, <2>1, <2>2, <3>1, <3>2, OtherMails, MailStays
  <2> QED  BY <1>1, <2>4, <2>5, <2>6 DEF AccountIInv
<1>6. CASE account[e] = NoAccount
  <2>1. /\ account' \in [Emails -> Account \cup {NoAccount}]
        /\ Existing' = Existing \cup {e}
        /\ account'[e].tenant = q.tenant /\ account'[e].code = q.code
        /\ \A x \in Existing : account'[x] = account[x]
    BY <1>2, <1>6, UserIsCreated
  <2>2. PICK next \in AccountWork \cup {IdleRequest} :
          /\ Continues(r, next)
          /\ next # IdleRequest => /\ next.email = e /\ next.op = q.op /\ next.first = q.first
                                   /\ next.code = q.code
          /\ q.op = "register" => next # IdleRequest /\ next.step = "mail"
          /\ q.op = "oauth" => next # IdleRequest /\ next.step = "link"
          /\ q.op = "create" => next = IdleRequest
    <3>1. CASE q.op = "register"
      <4>1. Continues(r, [q EXCEPT !.step = "mail"])
        BY <1>6, <3>1 DEF CreatesUser
      <4>2. [q EXCEPT !.step = "mail"] \in AccountWork
        BY <1>3 DEF AccountWork
      <4> QED  BY <1>3, <3>1, <4>1, <4>2, IdleRequestIsNoWork DEF AccountWork
    <3>2. CASE q.op = "oauth"
      <4>1. Continues(r, [q EXCEPT !.step = "link"])
        BY <1>6, <3>2 DEF CreatesUser
      <4>2. [q EXCEPT !.step = "link"] \in AccountWork
        BY <1>3 DEF AccountWork
      <4> QED  BY <1>3, <3>2, <4>1, <4>2, IdleRequestIsNoWork DEF AccountWork
    <3>3. CASE q.op = "create"
      BY <1>6, <3>3 DEF CreatesUser, Ends
    <3> QED  BY <1>4, <3>1, <3>2, <3>3
  <2>3. /\ accountRequest' \in [AccountRequests -> AccountWork \cup {IdleRequest}]
        /\ accountRequest'[r] = next
        /\ \A p \in AccountRequests \ {r} : accountRequest'[p] = accountRequest[p]
    BY <1>2, <2>2 DEF Continues, AccountStateTyped
  <2>4. e \in Existing' /\ Existing \subseteq Existing' /\ e \notin Existing
    BY <1>6, <2>1 DEF Existing
  <2>5. AccountStateTyped'
    <3>1. Follows(r)'
      BY <1>2, <1>3, <1>4, <2>2, <2>3, <2>4 DEF Follows
    <3>2. Founding' \subseteq Founding
      BY <1>4, <2>2, <2>3 DEF Founding
    <3>3. \A p \in AccountRequests : Follows(p)'
      BY <1>2, <2>3, <2>4, <3>1, OthersFollow DEF AccountStateTyped
    <3>4. TenantsAreCounted'
      BY <1>1, <1>2, <3>2, CountKeeps
    <3>5. AccountTypeOK'
      BY <1>1, <1>2, <2>1, <2>4 DEF AccountStateTyped, AccountTypeOK
    <3> QED  BY <2>3, <3>3, <3>4, <3>5 DEF AccountStateTyped
  <2>6. ASSUME WorkspaceAgrees  PROVE WorkspaceAgrees'
    <3>1. tenants = 1 /\ q.tenant = 1 /\ q.op # "oauth"
      BY <1>1, <1>3, <2>6 DEF WorkspaceAgrees, Placed
    <3>2. Placed(r)'
      BY <1>4, <2>2, <2>3, <3>1 DEF Placed
    <3>3. \A p \in AccountRequests \ {r} : Placed(p)'
      BY <1>1, <2>3, <2>6 DEF Placed, WorkspaceAgrees
    <3>4. \A p \in AccountRequests : First(p)' => First(p)
      BY <1>3, <2>2, <2>3 DEF First
    <3>5. \A x \in Existing' : account'[x].tenant = 1
      BY <2>1, <2>6, <3>1 DEF WorkspaceAgrees
    <3> QED  BY <1>1, <2>4, <2>6, <3>1, <3>2, <3>3, <3>4, <3>5 DEF WorkspaceAgrees
  <2>7. MailsAgree'
    <3>1. ASSUME NEW x \in Existing \ mailFlaws
          PROVE  MailAgrees(x)'
      <4>1. r \notin Mailing(x) /\ r \notin Mailing(x)'
        BY <1>1, <2>2, <2>3, <2>4 DEF Mailing
      <4>2. MailAgrees(x)
        BY DEF AccountIInv, MailsAgree
      <4> QED  BY <1>1, <2>1, <2>3, <4>1, <4>2, OtherMails, MailStays
    <3>2. MailAgrees(e)'
      <4>1. \A p \in AccountRequests : p \notin Mailing(e)
        BY <1>2, <2>4 DEF AccountStateTyped, Follows, Mailing
      <4>2. \A p \in AccountRequests \ {r} : p \notin Mailing(e)'
        BY <2>3, <4>1 DEF Mailing
      <4>3. CASE q.op = "register"
        <5>1. Mailing(e)' = {r} /\ accountRequest'[r].code = q.code
          BY <2>2, <2>3, <4>2, <4>3 DEF Mailing
        <5> QED  BY <2>1, <5>1 DEF MailAgrees
      <4>4. CASE q.op # "register"
        <5>1. q.code = 0 /\ Mailing(e)' = {}
          BY <1>2, <1>3, <1>4, <2>2, <2>3, <4>2, <4>4 DEF Follows, Mailing
        <5> QED  BY <2>1, <5>1 DEF MailAgrees
      <4> QED  BY <4>3, <4>4
    <3> QED  BY <1>1, <2>1, <3>1, <3>2 DEF MailsAgree
  <2> QED  BY <1>1, <2>5, <2>6, <2>7 DEF AccountIInv
<1> QED  BY <1>5, <1>6

LEMMA SendsMailStep ==
  ASSUME AccountIInv, NEW r \in AccountRequests, SendsMail(r)
  PROVE  AccountIInv'
<1> DEFINE q == accountRequest[r]
<1>1. /\ q.step = "mail" /\ Ends(r)
      /\ UNCHANGED <<account, tenants, linked, workspaceFlaws, accountRequests>>
  BY DEF SendsMail
<1>2. AccountStateTyped /\ Follows(r)
  BY DEF AccountIInv, AccountStateTyped
<1>3. q # IdleRequest /\ q \in AccountWork
  BY <1>1, <1>2, WorkInStep
<1> PICK e \in Emails : e = q.email
  BY <1>3 DEF AccountWork
<1>4. \/ mailed' = [mailed EXCEPT ![e] = q.code] /\ UNCHANGED mailFlaws
      \/ mailFlaws' = mailFlaws \cup {e} /\ UNCHANGED mailed
  BY DEF SendsMail
<1>5. /\ accountRequest' \in [AccountRequests -> AccountWork \cup {IdleRequest}]
      /\ accountRequest'[r] = IdleRequest
      /\ \A p \in AccountRequests \ {r} : accountRequest'[p] = accountRequest[p]
  BY <1>1, <1>2, WorkEnds
<1>6. Existing' = Existing
  BY <1>1 DEF Existing
<1>7. AccountStateTyped'
  <2>1. Follows(r)' /\ Founding' \subseteq Founding
    BY <1>5 DEF Follows, Founding
  <2>2. \A p \in AccountRequests : Follows(p)'
    BY <1>2, <1>5, <1>6, <2>1, OthersFollow DEF AccountStateTyped
  <2>3. TenantsAreCounted'
    BY <1>1, <1>2, <2>1, CountKeeps
  <2>4. AccountTypeOK'
    BY <1>1, <1>2, <1>3, <1>4, <1>6 DEF AccountStateTyped, AccountTypeOK, AccountWork
  <2> QED  BY <1>5, <2>2, <2>3, <2>4 DEF AccountStateTyped
<1>8. ASSUME WorkspaceAgrees  PROVE WorkspaceAgrees'
  <2>1. ~First(r)' /\ Placed(r)'
    BY <1>5 DEF First, Placed
  <2> QED  BY <1>1, <1>5, <1>6, <1>8, <2>1, WorkspaceStays
<1>9. MailsAgree'
  <2>1. ASSUME NEW x \in Existing \ mailFlaws, x # e
        PROVE  MailAgrees(x)'
    <3>1. r \notin Mailing(x) /\ r \notin Mailing(x)'
      BY <1>5, <2>1 DEF Mailing
    <3>2. MailAgrees(x) /\ mailed'[x] = mailed[x]
      BY <1>2, <1>4, <2>1 DEF AccountIInv, MailsAgree, AccountStateTyped, AccountTypeOK, Existing
    <3> QED  BY <1>1, <1>5, <3>1, <3>2, OtherMails, MailStays
  <2>2. ASSUME e \in Existing, e \notin mailFlaws'
        PROVE  MailAgrees(e)'
    <3>1. mailed'[e] = q.code /\ MailAgrees(e)
      BY <1>2, <1>4, <2>2 DEF AccountIInv, MailsAgree, AccountStateTyped, AccountTypeOK
    <3>2. r \in Mailing(e)
      BY <1>1, <1>3 DEF Mailing
    <3>3. Mailing(e) = {r} /\ account[e].code \in {0, q.code}
      BY <3>1, <3>2 DEF MailAgrees
    <3>4. Mailing(e)' = {}
      BY <1>5, <3>3 DEF Mailing
    <3> QED  BY <1>1, <3>1, <3>3, <3>4 DEF MailAgrees
  <2>3. Existing' \ mailFlaws' \subseteq Existing \ mailFlaws
    BY <1>4, <1>6
  <2> QED  BY <2>1, <2>2, <2>3 DEF MailsAgree
<1> QED  BY <1>1, <1>7, <1>8, <1>9 DEF AccountIInv

LEMMA LinksIdentityStep ==
  ASSUME AccountIInv, NEW r \in AccountRequests, LinksIdentity(r)
  PROVE  AccountIInv'
<1> DEFINE q == accountRequest[r]
<1>1. /\ q.step = "link" /\ Ends(r) /\ linked' = linked \cup {q.email}
      /\ UNCHANGED <<account, tenants, mailed, workspaceFlaws, mailFlaws, accountRequests>>
  BY DEF LinksIdentity
<1>2. AccountStateTyped /\ Follows(r)
  BY DEF AccountIInv, AccountStateTyped
<1>3. q # IdleRequest /\ q \in AccountWork
  BY <1>1, <1>2, WorkInStep
<1>4. Existing' = Existing /\ q.email \in Existing
  BY <1>1, <1>2, <1>3 DEF Existing, Follows
<1>5. /\ accountRequest' \in [AccountRequests -> AccountWork \cup {IdleRequest}]
      /\ accountRequest'[r] = IdleRequest
      /\ \A p \in AccountRequests \ {r} : accountRequest'[p] = accountRequest[p]
  BY <1>1, <1>2, WorkEnds
<1>6. AccountStateTyped'
  <2>1. Follows(r)' /\ Founding' \subseteq Founding
    BY <1>5 DEF Follows, Founding
  <2>2. \A p \in AccountRequests : Follows(p)'
    BY <1>2, <1>4, <1>5, <2>1, OthersFollow DEF AccountStateTyped
  <2>3. TenantsAreCounted'
    BY <1>1, <1>2, <2>1, CountKeeps
  <2>4. AccountTypeOK'
    BY <1>1, <1>2, <1>4 DEF AccountStateTyped, AccountTypeOK
  <2> QED  BY <1>5, <2>2, <2>3, <2>4 DEF AccountStateTyped
<1>7. ASSUME WorkspaceAgrees  PROVE WorkspaceAgrees'
  <2>1. ~First(r)' /\ Placed(r)'
    BY <1>5 DEF First, Placed
  <2> QED  BY <1>1, <1>4, <1>5, <1>7, <2>1, WorkspaceStays
<1>8. MailsAgree'
  <2> SUFFICES ASSUME NEW x \in Existing \ mailFlaws  PROVE MailAgrees(x)'
    BY <1>1, <1>4 DEF MailsAgree
  <2>1. r \notin Mailing(x) /\ r \notin Mailing(x)'
    BY <1>1, <1>5 DEF Mailing
  <2>2. MailAgrees(x)
    BY DEF AccountIInv, MailsAgree
  <2> QED  BY <1>1, <1>5, <2>1, <2>2, OtherMails, MailStays
<1> QED  BY <1>1, <1>6, <1>7, <1>8 DEF AccountIInv

\* One row that is there is written.
LEMMA RowWritten ==
  ASSUME AccountStateTyped, NEW e \in Existing, NEW row \in Account,
         account' = [account EXCEPT ![e] = row]
  PROVE  /\ account' \in [Emails -> Account \cup {NoAccount}]
         /\ Existing' = Existing /\ account'[e] = row
         /\ \A x \in Existing \ {e} : account'[x] = account[x]
<1>1. /\ account \in [Emails -> Account \cup {NoAccount}] /\ e \in Emails
      /\ account[e] # NoAccount
  BY DEF AccountStateTyped, AccountTypeOK, Existing
<1>2. /\ account' \in [Emails -> Account \cup {NoAccount}] /\ account'[e] = row
      /\ \A x \in Emails \ {e} : account'[x] = account[x]
  BY <1>1
<1>3. Existing' = Existing
  BY <1>1, <1>2, NoAccountIsNoRow DEF Existing
<1> QED  BY <1>2, <1>3 DEF Existing

LEMMA RowIsAccount ==
  ASSUME AccountStateTyped, NEW e \in Existing
  PROVE  account[e] \in Account
  BY DEF AccountStateTyped, AccountTypeOK, Existing

LEMMA VerifiesStep ==
  ASSUME AccountIInv, NEW r \in AccountRequests, Verifies(r)
  PROVE  AccountIInv'
<1> DEFINE q == accountRequest[r]
<1>1. /\ q.step = "verify" /\ Ends(r)
      /\ UNCHANGED <<tenants, linked, mailed, workspaceFlaws, mailFlaws, accountRequests>>
  BY DEF Verifies, OnlyAccounts
<1>2. AccountStateTyped /\ Follows(r)
  BY DEF AccountIInv, AccountStateTyped
<1>3. q # IdleRequest /\ q \in AccountWork
  BY <1>1, <1>2, WorkInStep
<1> PICK e \in Existing : e = q.email
  BY <1>1, <1>2, <1>3 DEF Follows
<1> DEFINE row == [account[e] EXCEPT !.verified = TRUE, !.code = 0]
<1>4. account' = [account EXCEPT ![e] = row]
  BY DEF Verifies
<1>5. account[e] \in Account
  BY <1>2, RowIsAccount
<1>6. row \in Account /\ row.tenant = account[e].tenant /\ row.code = 0
  <2>1. 0 \in CodeIds
    BY AccountAssumption DEF CodeIds
  <2> QED  BY <1>5, <2>1 DEF Account
<1> HIDE DEF row
<1>7. /\ account' \in [Emails -> Account \cup {NoAccount}]
      /\ Existing' = Existing /\ account'[e] = row
      /\ \A x \in Existing \ {e} : account'[x] = account[x]
  BY <1>2, <1>4, <1>6, RowWritten
<1>8. /\ accountRequest' \in [AccountRequests -> AccountWork \cup {IdleRequest}]
      /\ accountRequest'[r] = IdleRequest
      /\ \A p \in AccountRequests \ {r} : accountRequest'[p] = accountRequest[p]
  BY <1>1, <1>2, WorkEnds
<1>9. AccountStateTyped'
  <2>1. Follows(r)' /\ Founding' \subseteq Founding
    BY <1>8 DEF Follows, Founding
  <2>2. \A p \in AccountRequests : Follows(p)'
    BY <1>2, <1>7, <1>8, <2>1, OthersFollow DEF AccountStateTyped
  <2>3. TenantsAreCounted'
    BY <1>1, <1>2, <2>1, CountKeeps
  <2>4. AccountTypeOK'
    BY <1>1, <1>2, <1>7 DEF AccountStateTyped, AccountTypeOK
  <2> QED  BY <1>8, <2>2, <2>3, <2>4 DEF AccountStateTyped
<1>10. ASSUME WorkspaceAgrees  PROVE WorkspaceAgrees'
  <2>1. ~First(r)' /\ Placed(r)'
    BY <1>8 DEF First, Placed
  <2> QED  BY <1>1, <1>6, <1>7, <1>8, <1>10, <2>1, WorkspaceStays
<1>11. MailsAgree'
  <2> SUFFICES ASSUME NEW x \in Existing \ mailFlaws  PROVE MailAgrees(x)'
    BY <1>1, <1>7 DEF MailsAgree
  <2>1. r \notin Mailing(x) /\ r \notin Mailing(x)'
    BY <1>1, <1>8 DEF Mailing
  <2>2. MailAgrees(x)
    BY DEF AccountIInv, MailsAgree
  <2>3. account'[x].code \in {0, account[x].code}
    BY <1>6, <1>7
  <2> QED  BY <1>1, <1>8, <2>1, <2>2, <2>3, OtherMails, MailStays
<1> QED  BY <1>1, <1>9, <1>10, <1>11 DEF AccountIInv

LEMMA StoresCodeStep ==
  ASSUME AccountIInv, NEW r \in AccountRequests, StoresCode(r)
  PROVE  AccountIInv'
<1> DEFINE q == accountRequest[r]
           next == [q EXCEPT !.step = "mail"]
<1>1. /\ q.step = "code" /\ Continues(r, next)
      /\ UNCHANGED <<tenants, linked, mailed, workspaceFlaws, accountRequests>>
  BY DEF StoresCode
<1>2. AccountStateTyped /\ Follows(r)
  BY DEF AccountIInv, AccountStateTyped
<1>3. q # IdleRequest /\ q \in AccountWork
  BY <1>1, <1>2, WorkInStep
<1> PICK e \in Existing : e = q.email
  BY <1>1, <1>2, <1>3 DEF Follows
<1> DEFINE row == [account[e] EXCEPT !.code = q.code]
<1>4. /\ account' = [account EXCEPT ![e] = row]
      /\ mailFlaws' = mailFlaws \cup IF WritingCode(e) # {r} THEN {e} ELSE {}
  BY DEF StoresCode
<1>5. account[e] \in Account
  BY <1>2, RowIsAccount
<1>6. row \in Account /\ row.tenant = account[e].tenant /\ row.code = q.code
  BY <1>3, <1>5 DEF Account, AccountWork
<1>7. /\ next \in AccountWork /\ next.step = "mail" /\ next.email = e /\ next.code = q.code
      /\ next.op = q.op /\ next.first = q.first
  BY <1>3 DEF AccountWork
<1> HIDE DEF row, next
<1>8. /\ account' \in [Emails -> Account \cup {NoAccount}]
      /\ Existing' = Existing /\ account'[e] = row
      /\ \A x \in Existing \ {e} : account'[x] = account[x]
  BY <1>2, <1>4, <1>6, RowWritten
<1>9. /\ accountRequest' \in [AccountRequests -> AccountWork \cup {IdleRequest}]
      /\ accountRequest'[r] = next /\ next # IdleRequest
      /\ \A p \in AccountRequests \ {r} : accountRequest'[p] = accountRequest[p]
  BY <1>1, <1>2, <1>7, WorkMoves
<1>10. AccountStateTyped'
  <2>1. Follows(r)'
    BY <1>1, <1>2, <1>3, <1>7, <1>8, <1>9 DEF Follows
  <2>2. Founding' \subseteq Founding
    BY <1>7, <1>9 DEF Founding
  <2>3. \A p \in AccountRequests : Follows(p)'
    BY <1>2, <1>8, <1>9, <2>1, OthersFollow DEF AccountStateTyped
  <2>4. TenantsAreCounted'
    BY <1>1, <1>2, <2>2, CountKeeps
  <2>5. e \in Emails
    BY DEF Existing
  <2>6. AccountTypeOK'
    BY <1>1, <1>2, <1>4, <1>8, <2>5 DEF AccountStateTyped, AccountTypeOK
  <2> QED  BY <1>9, <2>3, <2>4, <2>6 DEF AccountStateTyped
<1>11. ASSUME WorkspaceAgrees  PROVE WorkspaceAgrees'
  <2>1. First(r)' => First(r)
    BY <1>3, <1>7, <1>9 DEF First
  <2>2. Placed(r)' /\ q.step # "user"
    BY <1>1, <1>3, <1>7, <1>9, <1>11 DEF Placed, WorkspaceAgrees
  <2> QED  BY <1>1, <1>6, <1>8, <1>9, <1>11, <2>1, <2>2, WorkspaceStays
<1>12. MailsAgree'
  <2>1. ASSUME NEW x \in Existing \ mailFlaws, x # e
        PROVE  MailAgrees(x)'
    <3>1. r \notin Mailing(x) /\ r \notin Mailing(x)'
      BY <1>1, <1>7, <1>9, <2>1 DEF Mailing
    <3>2. MailAgrees(x)
      BY <2>1 DEF AccountIInv, MailsAgree
    <3> QED  BY <1>1, <1>8, <1>9, <2>1, <3>1, <3>2, OtherMails, MailStays
  <2>2. ASSUME e \notin mailFlaws'  PROVE MailAgrees(e)'
    <3>1. WritingCode(e) = {r}
      BY <1>4, <2>2
    <3>2. \A p \in AccountRequests \ {r} : p \notin Mailing(e)
      BY <3>1 DEF WritingCode, Mailing
    <3>3. Mailing(e)' = {r}
      BY <1>7, <1>9, <3>2 DEF Mailing
    <3> QED  BY <1>6, <1>7, <1>8, <1>9, <3>3 DEF MailAgrees
  <2> QED  BY <1>4, <1>8, <2>1, <2>2 DEF MailsAgree
<1> QED  BY <1>1, <1>10, <1>11, <1>12 DEF AccountIInv

LEMMA AccountRequestFailsStep ==
  ASSUME AccountIInv, NEW r \in AccountRequests, AccountRequestFails(r)
  PROVE  AccountIInv'
<1> DEFINE q == accountRequest[r]
<1>1. /\ q # IdleRequest /\ Ends(r)
      /\ UNCHANGED <<account, tenants, linked, mailed, accountRequests>>
  BY DEF AccountRequestFails
<1>2. AccountStateTyped /\ q \in AccountWork
  BY <1>1 DEF AccountIInv, AccountStateTyped
<1> PICK e \in Emails : e = q.email
  BY <1>2 DEF AccountWork
<1>3. /\ workspaceFlaws' = workspaceFlaws \cup
           IF q.first /\ q.step = "user" THEN {"failed"} ELSE {}
      /\ mailFlaws' = mailFlaws \cup IF q.step = "mail" THEN {e} ELSE {}
  BY DEF AccountRequestFails
<1>4. Existing' = Existing
  BY <1>1 DEF Existing
<1>5. /\ accountRequest' \in [AccountRequests -> AccountWork \cup {IdleRequest}]
      /\ accountRequest'[r] = IdleRequest
      /\ \A p \in AccountRequests \ {r} : accountRequest'[p] = accountRequest[p]
  BY <1>1, <1>2, WorkEnds
<1>6. AccountStateTyped'
  <2>1. Follows(r)' /\ Founding' \subseteq Founding
    BY <1>5 DEF Follows, Founding
  <2>2. \A p \in AccountRequests : Follows(p)'
    BY <1>2, <1>4, <1>5, <2>1, OthersFollow DEF AccountStateTyped
  <2>3. TenantsAreCounted'
    BY <1>1, <1>2, <2>1, CountKeeps
  <2>4. AccountTypeOK'
    BY <1>1, <1>2, <1>3, <1>4 DEF AccountStateTyped, AccountTypeOK
  <2> QED  BY <1>5, <2>2, <2>3, <2>4 DEF AccountStateTyped
<1>7. ASSUME workspaceFlaws' = {}  PROVE WorkspaceAgrees'
  <2>1. WorkspaceAgrees /\ ~(First(r) /\ q.step = "user")
    BY <1>3, <1>7 DEF AccountIInv, First
  <2>2. ~First(r)' /\ Placed(r)'
    BY <1>5 DEF First, Placed
  <2> QED  BY <1>1, <1>4, <1>5, <2>1, <2>2, WorkspaceStays
<1>8. MailsAgree'
  <2> SUFFICES ASSUME NEW x \in Existing \ mailFlaws, x \notin mailFlaws'  PROVE MailAgrees(x)'
    BY <1>3, <1>4 DEF MailsAgree
  <2>1. r \notin Mailing(x) /\ r \notin Mailing(x)'
    BY <1>3, <1>5 DEF Mailing
  <2>2. MailAgrees(x)
    BY DEF AccountIInv, MailsAgree
  <2> QED  BY <1>1, <1>5, <2>1, <2>2, OtherMails, MailStays
<1> QED  BY <1>6, <1>7, <1>8 DEF AccountIInv

\* What an administrator, or a start of the application, does to one row: its tenant and its
\* code stay.
LEMMA RowStep ==
  ASSUME AccountIInv, NEW e \in Emails,
         \/ DeleteUser(e) \/ \E role \in UserRoles : UpdateUser(e, role)
         \/ BootstrapAdmin /\ e = AdminEmail
  PROVE  AccountIInv'
<1>1. /\ e \in Existing /\ AccountStateTyped
      /\ UNCHANGED <<tenants, linked, mailed, workspaceFlaws, mailFlaws, accountRequest>>
      /\ accountRequests' \in accountRequests .. MaxAccountRequests
  <2>1. accountRequests \in 0 .. MaxAccountRequests
    BY DEF AccountIInv, AccountStateTyped, TenantsAreCounted
  <2> QED
    BY <2>1, AccountAssumption DEF DeleteUser, UpdateUser, BootstrapAdmin, OnlyAccounts, Existing,
       AccountIInv
<1>2. account[e] \in Account
  BY <1>1, RowIsAccount
<1>3. PICK row \in Account :
        /\ account' = [account EXCEPT ![e] = row]
        /\ row.tenant = account[e].tenant /\ row.code = account[e].code
  <2>1. CASE DeleteUser(e)
    <3> DEFINE row == [account[e] EXCEPT !.deleted = TRUE]
    <3>1. row \in Account /\ row.tenant = account[e].tenant /\ row.code = account[e].code
      BY <1>2 DEF Account
    <3>2. account' = [account EXCEPT ![e] = row]
      BY <2>1 DEF DeleteUser
    <3> HIDE DEF row
    <3> QED  BY <3>1, <3>2
  <2>2. ASSUME NEW role \in UserRoles,
               account' = [account EXCEPT ![e].role = role]
        PROVE  \E row \in Account :
                 /\ account' = [account EXCEPT ![e] = row]
                 /\ row.tenant = account[e].tenant /\ row.code = account[e].code
    <3> DEFINE row == [account[e] EXCEPT !.role = role]
    <3>1. row \in Account /\ row.tenant = account[e].tenant /\ row.code = account[e].code
      BY <1>2 DEF Account
    <3>2. account' = [account EXCEPT ![e] = row]
      BY <2>2
    <3> HIDE DEF row
    <3> QED  BY <3>1, <3>2
  <2>3. "ADMIN" \in UserRoles
    BY DEF UserRoles
  <2> QED  BY <2>1, <2>2, <2>3 DEF UpdateUser, BootstrapAdmin
<1>4. /\ account' \in [Emails -> Account \cup {NoAccount}]
      /\ Existing' = Existing /\ account'[e] = row
      /\ \A x \in Existing \ {e} : account'[x] = account[x]
  BY <1>1, <1>3, RowWritten
<1>5. AccountStateTyped'
  <2>1. \A p \in AccountRequests : Follows(p)'
    BY <1>1, <1>4, OthersFollow DEF AccountStateTyped
  <2>2. Founding' = Founding /\ tenants \in Nat
    BY <1>1, TenantsAreNatural DEF Founding
  <2>3. TenantsAreCounted'
    BY <1>1, <2>2, CountStays DEF AccountStateTyped
  <2>4. AccountTypeOK'
    BY <1>1, <1>4 DEF AccountStateTyped, AccountTypeOK
  <2> QED  BY <1>1, <2>1, <2>3, <2>4 DEF AccountStateTyped
<1>6. ASSUME WorkspaceAgrees  PROVE WorkspaceAgrees'
  BY <1>1, <1>3, <1>4, <1>6, WorkspaceStays
<1>7. MailsAgree'
  <2> SUFFICES ASSUME NEW x \in Existing \ mailFlaws  PROVE MailAgrees(x)'
    BY <1>1, <1>4 DEF MailsAgree
  <2>1. MailAgrees(x) /\ Mailing(x)' = Mailing(x) /\ account'[x].code = account[x].code
    BY <1>1, <1>3, <1>4 DEF AccountIInv, MailsAgree, Mailing
  <2> QED  BY <1>1, <2>1, MailStays
<1> QED  BY <1>1, <1>5, <1>6, <1>7 DEF AccountIInv

LEMMA AccountsStart == AccountInit => AccountIInv
<1> SUFFICES ASSUME AccountInit  PROVE AccountIInv
  OBVIOUS
<1>1. Existing = {} /\ \A r \in AccountRequests : accountRequest[r] = IdleRequest
  BY DEF AccountInit, Existing
<1>2. Founding = {}
  BY <1>1 DEF Founding
<1>3. TenantsAreCounted
  BY <1>2, FS_EmptySet, AccountAssumption DEF AccountInit, TenantsAreCounted
<1>4. AccountStateTyped
  BY <1>1, <1>3, AccountAssumption DEF AccountInit, AccountStateTyped, AccountTypeOK, Follows,
     TenantIds, CodeIds
<1>5. WorkspaceAgrees
  BY <1>1 DEF AccountInit, WorkspaceAgrees, First, Placed
<1>6. MailsAgree
  BY <1>1 DEF MailsAgree
<1> QED  BY <1>4, <1>5, <1>6 DEF AccountIInv

\* The inductive invariant of the accounts: types, one founder of the only workspace, and one
\* mail at a time with the code of the row.
THEOREM AccountInvariance == AccountSpec => []AccountIInv
<1>1. AccountIInv /\ [AccountNext]_accountVars => AccountIInv'
  <2> SUFFICES ASSUME AccountIInv, [AccountNext]_accountVars  PROVE AccountIInv'
    OBVIOUS
  <2>1. CASE AccountNext
    BY <2>1, ComesStep, CountsUsersStep, FindsTenantStep, CreatesUserStep, SendsMailStep,
       LinksIdentityStep, VerifiesStep, StoresCodeStep, AccountRequestFailsStep, RowStep,
       AccountAssumption
       DEF AccountNext
  <2>2. CASE UNCHANGED accountVars
    <3> USE <2>2 DEF accountVars
    <3>1. AccountStateTyped'
      BY DEF AccountIInv, AccountStateTyped, AccountTypeOK, Follows, TenantsAreCounted, Founding,
         Existing
    <3>2. WorkspaceAgrees => WorkspaceAgrees'
      BY DEF WorkspaceAgrees, First, Placed, Existing
    <3>3. MailsAgree'
      BY DEF AccountIInv, MailsAgree, MailAgrees, Mailing, Existing
    <3> QED  BY <3>1, <3>2, <3>3 DEF AccountIInv
  <2> QED  BY <2>1, <2>2
<1> QED  BY <1>1, AccountsStart, PTL DEF AccountSpec

\* The types of users, tenants and mails.
THEOREM AccountTyped == AccountSpec => []AccountTypeOK
<1>1. AccountIInv => AccountTypeOK
  BY DEF AccountIInv, AccountStateTyped
<1> QED  BY <1>1, AccountInvariance, PTL

\* Everyone is in the workspace the first user founded, and the last mail has a code that
\* verifies, but for the recorded ways in which either may fail.
THEOREM AccountsAreInOneWorkspace == AccountSpec => []AccountsAgree
<1>1. AccountIInv => OneWorkspace
  BY DEF AccountIInv, WorkspaceAgrees, OneWorkspace
<1>2. ASSUME AccountIInv  PROVE MailedCodeVerifies
  <2> SUFFICES ASSUME NEW e \in Existing \ mailFlaws, account[e].code # 0, WritingCode(e) = {}
               PROVE  mailed[e] = account[e].code
    BY DEF MailedCodeVerifies
  <2>1. Mailing(e) = {}
    BY DEF WritingCode, Mailing
  <2> QED  BY <1>2, <2>1 DEF AccountIInv, MailsAgree, MailAgrees
<1> QED  BY <1>1, <1>2, AccountInvariance, PTL DEF AccountsAgree

-----------------------------------------------------------------------------
(***************************************************************************)
(* SignIn: sessions are exchanged once, attempts are counted, and a second *)
(* factor has its secret.                                                  *)
(*                                                                         *)
(* None of the three is inductive.  Each needs what the requests in        *)
(* progress have read: the session an exchange read as valid is still      *)
(* without a successor, a login holds the count of the row, and what       *)
(* enables a second factor still has the secret it was checked with.       *)
(***************************************************************************)
\* What a request in progress holds.
SignInWork ==
  [op : {"login"}, attempts : Nat, factor : BOOLEAN, step : {"compare"}]
    \cup [op : {"issue"}, parent : Sessions \cup {NoSession}]
    \cup [op : {"exchange", "reuse"}, session : Sessions]
    \cup [op : {"none", "enable", "disable", "reset", "forget"}]

Logins == {r \in SignInRequests : signIn[r].op = "login"}

\* The requests that exchange session s, and those that are about to issue its successor.
Exchanging(s) == {r \in SignInRequests : signIn[r].op = "exchange" /\ signIn[r].session = s}
Issuing(s) == {r \in SignInRequests : signIn[r].op = "issue" /\ signIn[r].parent = s}

\* Every wrong password took a request of its own.
FailuresAreBounded ==
  /\ signIns \in 0 .. MaxSignIns
  /\ loginAttempts \in 0 .. signIns /\ failed \in Nat
  /\ IsFiniteSet(Logins) /\ failed + Cardinality(Logins) <= signIns
  /\ \A r \in Logins : signIn[r].attempts \in 0 .. (signIns - 1)

SignInStateTyped ==
  /\ session \in [Sessions -> SessionRow \cup {NoSession}]
  /\ lockedOut \in BOOLEAN /\ secret \in BOOLEAN /\ secondFactor \in BOOLEAN
  /\ resetToken \in BOOLEAN
  /\ signIn \in [SignInRequests -> SignInWork]
  /\ FailuresAreBounded

\* A session whose successor is issued, or about to be, is revoked; unless two requests met
\* at it, one request works on it, before it has a successor.
SessionAgrees(s) ==
  /\ \A r \in InProgress({"exchange", "reuse"}) : signIn[r].session = s => s \in Issued
  /\ Issuing(s) \cup Successors(s) # {} => s \in Issued /\ session[s].revoked
  /\ s \notin raced =>
       /\ \A q, r \in Exchanging(s) \cup Issuing(s) : q = r
       /\ Exchanging(s) \cup Issuing(s) # {} => Successors(s) = {}
       /\ \A t, u \in Successors(s) : t = u

SessionsAgree == \A s \in Sessions : SessionAgrees(s)

\* One login at a time has read the attempts, and no reset is in progress with it.
AttemptsAgree ==
  "attempts" \notin raced =>
    /\ loginAttempts = failed
    /\ \A r \in Logins : signIn[r].attempts = loginAttempts /\ InProgress({"reset"}) = {}
    /\ \A q, r \in Logins : q = r

\* A second factor that is being enabled has its secret, and is not being disabled.
FactorAgrees ==
  "factor" \notin raced =>
    /\ secondFactor => secret
    /\ InProgress({"enable"}) # {} => secret /\ InProgress({"disable"}) = {}

SignInIInv == SignInStateTyped /\ SessionsAgree /\ AttemptsAgree /\ FactorAgrees

\* The fields of a request, by its operation.
LEMMA SignInFields ==
  ASSUME NEW w \in SignInWork
  PROVE  /\ w.op \in {"login", "issue", "exchange", "reuse", "none", "enable", "disable", "reset",
                      "forget"}
         /\ w.op = "login" => w.attempts \in Nat
         /\ w.op = "issue" => w.parent \in Sessions \cup {NoSession}
         /\ w.op \in {"exchange", "reuse"} => w.session \in Sessions
  BY DEF SignInWork

LEMMA BeginsEffect ==
  ASSUME signIn \in [SignInRequests -> SignInWork], NEW r \in SignInRequests,
         NEW new \in SignInWork, signIn' = [signIn EXCEPT ![r] = new]
  PROVE  /\ signIn' \in [SignInRequests -> SignInWork] /\ signIn'[r] = new
         /\ \A q \in SignInRequests \ {r} : signIn'[q] = signIn[q]
  OBVIOUS

LEMMA EndsEffect ==
  ASSUME signIn \in [SignInRequests -> SignInWork], NEW r \in SignInRequests, SignInEnds(r)
  PROVE  /\ signIn' \in [SignInRequests -> SignInWork] /\ signIn'[r].op = "none"
         /\ \A q \in SignInRequests \ {r} : signIn'[q] = signIn[q]
<1>1. NotIn \in SignInWork /\ NotIn.op = "none"
  BY DEF NotIn, SignInWork
<1> HIDE DEF NotIn
<1> QED  BY <1>1 DEF SignInEnds

\* Without a new login the counts stay within the requests so far.
LEMMA BoundsStay ==
  ASSUME FailuresAreBounded, signIns' \in signIns .. MaxSignIns,
         loginAttempts' \in {0, loginAttempts}, failed' \in {0, failed},
         \A r \in Logins' : r \in Logins /\ signIn'[r] = signIn[r]
  PROVE  FailuresAreBounded'
<1>1. /\ IsFiniteSet(Logins') /\ Cardinality(Logins') <= Cardinality(Logins)
      /\ Cardinality(Logins) \in Nat /\ Cardinality(Logins') \in Nat
  BY FS_Subset, FS_CardinalityType DEF FailuresAreBounded
<1>2. signIns' \in Nat /\ signIns \in Nat /\ signIns <= signIns' /\ signIns' <= MaxSignIns
  BY SignInAssumption DEF FailuresAreBounded
<1>3. failed' + Cardinality(Logins') <= signIns' /\ failed' \in Nat
  BY <1>1, <1>2 DEF FailuresAreBounded
<1>4. loginAttempts' \in 0 .. signIns' /\ signIns' \in 0 .. MaxSignIns
  BY <1>2 DEF FailuresAreBounded
<1>5. \A r \in Logins' : signIn'[r].attempts \in 0 .. (signIns' - 1)
  BY <1>2 DEF FailuresAreBounded
<1> QED  BY <1>1, <1>3, <1>4, <1>5 DEF FailuresAreBounded

LEMMA SignInsGrow ==
  ASSUME FailuresAreBounded, signIns < MaxSignIns, signIns' = signIns + 1
  PROVE  signIns' \in signIns .. MaxSignIns
  BY SignInAssumption DEF FailuresAreBounded

LEMMA SignInsKept ==
  ASSUME FailuresAreBounded, signIns' = signIns
  PROVE  signIns' \in signIns .. MaxSignIns
  BY SignInAssumption DEF FailuresAreBounded

\* A step that issues nothing, and in which a request that is not left alone holds no session.
LEMMA SessionsStay ==
  ASSUME SessionsAgree, Issued' = Issued, raced \subseteq raced',
         \A s \in Issued : /\ session'[s].parent = session[s].parent
                           /\ session[s].revoked => session'[s].revoked,
         \A q \in SignInRequests :
           \/ signIn'[q] = signIn[q]
           \/ signIn'[q].op \notin {"exchange", "reuse", "issue"}
           \/ signIn'[q].op = "issue" /\ signIn'[q].parent = NoSession
  PROVE  SessionsAgree'
<1> SUFFICES ASSUME NEW s \in Sessions  PROVE SessionAgrees(s)'
  BY DEF SessionsAgree
<1>1. SessionAgrees(s)
  BY DEF SessionsAgree
<1>2. /\ Exchanging(s)' \subseteq Exchanging(s) /\ Issuing(s)' \subseteq Issuing(s)
      /\ Successors(s)' = Successors(s)
  BY SignInAssumption DEF Exchanging, Issuing, Successors
<1>3. \A r \in InProgress({"exchange", "reuse"})' :
        r \in InProgress({"exchange", "reuse"}) /\ signIn'[r] = signIn[r]
  BY DEF InProgress
<1> QED  BY <1>1, <1>2, <1>3 DEF SessionAgrees

LEMMA AttemptsStay ==
  ASSUME AttemptsAgree, UNCHANGED <<loginAttempts, failed>>, raced \subseteq raced',
         \A q \in SignInRequests :
           signIn'[q] = signIn[q] \/ signIn'[q].op \notin {"login", "reset"}
  PROVE  AttemptsAgree'
<1>1. /\ \A r \in Logins' : r \in Logins /\ signIn'[r] = signIn[r]
      /\ InProgress({"reset"})' \subseteq InProgress({"reset"})
  BY DEF Logins, InProgress
<1> QED  BY <1>1 DEF AttemptsAgree

LEMMA FactorStays ==
  ASSUME FactorAgrees, UNCHANGED secondFactor, secret => secret', raced \subseteq raced',
         \A q \in SignInRequests :
           signIn'[q] = signIn[q] \/ signIn'[q].op \notin {"enable", "disable"}
  PROVE  FactorAgrees'
<1>1. /\ InProgress({"enable"})' \subseteq InProgress({"enable"})
      /\ InProgress({"disable"})' \subseteq InProgress({"disable"})
  BY DEF InProgress
<1> QED  BY <1>1 DEF FactorAgrees

LEMMA LoginStep ==
  ASSUME SignInIInv, NEW r \in SignInRequests, Login(r)
  PROVE  SignInIInv'
<1> DEFINE new == [op |-> "login", attempts |-> loginAttempts, factor |-> secondFactor,
                   step |-> "compare"]
<1>1. /\ signIn[r] = NotIn /\ signIn' = [signIn EXCEPT ![r] = new]
      /\ signIns < MaxSignIns /\ signIns' = signIns + 1
      /\ raced' = raced \cup IF InProgress({"login", "reset"}) # {} THEN {"attempts"} ELSE {}
      /\ UNCHANGED <<session, loginAttempts, lockedOut, secret, secondFactor, resetToken, failed>>
  BY DEF Login, SignInBegins, Races, RowsOfUser
<1>2. SignInStateTyped /\ FailuresAreBounded
  BY DEF SignInIInv, SignInStateTyped
<1>3. signIns \in Nat /\ loginAttempts \in Nat /\ loginAttempts <= signIns
  BY <1>2, SignInAssumption DEF FailuresAreBounded
<1>4. new \in SignInWork /\ new.op = "login" /\ new.attempts = loginAttempts
  BY <1>2, <1>3 DEF SignInStateTyped, SignInWork
<1> HIDE DEF new
<1>5. /\ signIn' \in [SignInRequests -> SignInWork] /\ signIn'[r] = new
      /\ \A q \in SignInRequests \ {r} : signIn'[q] = signIn[q]
  BY <1>1, <1>2, <1>4, BeginsEffect DEF SignInStateTyped
<1>6. Logins' = Logins \cup {r} /\ r \notin Logins
  BY <1>1, <1>4, <1>5 DEF Logins, NotIn
<1>7. FailuresAreBounded'
  <2>1. signIns' \in signIns .. MaxSignIns
    BY <1>1, <1>2, SignInsGrow
  <2>2. signIns' \in 0 .. MaxSignIns /\ loginAttempts' \in 0 .. signIns'
    BY <1>1, <1>3, <2>1
  <2>3. /\ IsFiniteSet(Logins') /\ Cardinality(Logins') = Cardinality(Logins) + 1
        /\ Cardinality(Logins) \in Nat
    BY <1>2, <1>6, FS_AddElement, FS_CardinalityType DEF FailuresAreBounded
  <2>4. failed' \in Nat /\ failed' + Cardinality(Logins') <= signIns'
    BY <1>1, <1>2, <1>3, <2>3 DEF FailuresAreBounded
  <2>5. signIn'[r].attempts \in 0 .. (signIns' - 1)
    BY <1>1, <1>3, <1>4, <1>5
  <2>6. ASSUME NEW q \in Logins  PROVE signIn'[q].attempts \in 0 .. (signIns' - 1)
    <3>1. signIn'[q] = signIn[q] /\ signIn[q].attempts \in 0 .. (signIns - 1)
      BY <1>2, <1>5, <1>6 DEF FailuresAreBounded, Logins
    <3> QED  BY <1>1, <1>3, <3>1
  <2> QED  BY <1>6, <2>2, <2>3, <2>4, <2>5, <2>6 DEF FailuresAreBounded
<1>8. SignInStateTyped'
  BY <1>1, <1>2, <1>5, <1>7 DEF SignInStateTyped
<1>9. SessionsAgree'
  <2>1. Issued' = Issued
    BY <1>1 DEF Issued
  <2> QED  BY <1>1, <1>4, <1>5, <2>1, SessionsStay DEF SignInIInv
<1>10. FactorAgrees'
  BY <1>1, <1>4, <1>5, FactorStays DEF SignInIInv
<1>11. AttemptsAgree'
  <2> SUFFICES ASSUME "attempts" \notin raced'
               PROVE  /\ loginAttempts' = failed'
                      /\ \A q \in Logins' : /\ signIn'[q].attempts = loginAttempts'
                                            /\ InProgress({"reset"})' = {}
                      /\ \A p, q \in Logins' : p = q
    BY DEF AttemptsAgree
  <2>1. "attempts" \notin raced /\ InProgress({"login", "reset"}) = {}
    BY <1>1
  <2>2. loginAttempts = failed /\ Logins = {} /\ InProgress({"reset"}) = {}
    BY <2>1 DEF SignInIInv, AttemptsAgree, Logins, InProgress
  <2>3. InProgress({"reset"})' = {} /\ Logins' = {r}
    BY <1>4, <1>5, <1>6, <2>2 DEF InProgress
  <2> QED  BY <1>1, <1>4, <1>5, <2>2, <2>3
<1> QED  BY <1>8, <1>9, <1>10, <1>11 DEF SignInIInv

LEMMA WrongPasswordStep ==
  ASSUME SignInIInv, NEW r \in SignInRequests, WrongPassword(r)
  PROVE  SignInIInv'
<1>1. /\ r \in Logins /\ loginAttempts' = signIn[r].attempts + 1
      /\ lockedOut' = (signIn[r].attempts + 1 >= MaxLoginAttempts)
      /\ failed' = failed + 1 /\ SignInEnds(r)
      /\ UNCHANGED <<session, secret, secondFactor, resetToken, raced, signIns>>
  BY DEF WrongPassword, Logins
<1>2. SignInStateTyped /\ FailuresAreBounded
  BY DEF SignInIInv, SignInStateTyped
<1>3. /\ signIn' \in [SignInRequests -> SignInWork] /\ signIn'[r].op = "none"
      /\ \A q \in SignInRequests \ {r} : signIn'[q] = signIn[q]
  BY <1>1, <1>2, EndsEffect DEF SignInStateTyped
<1>4. Logins' = Logins \ {r}
  BY <1>3 DEF Logins
<1>5. FailuresAreBounded'
  <2>1. /\ IsFiniteSet(Logins') /\ Cardinality(Logins') = Cardinality(Logins) - 1
        /\ Cardinality(Logins) \in Nat /\ Cardinality(Logins') \in Nat
    BY <1>1, <1>2, <1>4, FS_RemoveElement, FS_CardinalityType DEF FailuresAreBounded
  <2>2. signIns \in Nat /\ signIn[r].attempts \in 0 .. (signIns - 1)
    BY <1>1, <1>2, SignInAssumption DEF FailuresAreBounded
  <2>3. loginAttempts' \in 0 .. signIns'
    BY <1>1, <2>2
  <2>4. failed' \in Nat /\ failed' + Cardinality(Logins') <= signIns'
    BY <1>1, <1>2, <2>1, <2>2 DEF FailuresAreBounded
  <2>5. \A q \in Logins' : signIn'[q].attempts \in 0 .. (signIns' - 1)
    BY <1>1, <1>2, <1>3, <1>4 DEF FailuresAreBounded, Logins
  <2> QED  BY <1>1, <1>2, <2>1, <2>3, <2>4, <2>5 DEF FailuresAreBounded
<1>6. SignInStateTyped'
  BY <1>1, <1>2, <1>3, <1>5 DEF SignInStateTyped
<1>7. SessionsAgree'
  <2>1. Issued' = Issued
    BY <1>1 DEF Issued
  <2> QED  BY <1>1, <1>3, <2>1, SessionsStay DEF SignInIInv
<1>8. FactorAgrees'
  BY <1>1, <1>3, FactorStays DEF SignInIInv
<1>9. AttemptsAgree'
  <2> SUFFICES ASSUME "attempts" \notin raced
               PROVE  loginAttempts' = failed' /\ Logins' = {}
    BY <1>1 DEF AttemptsAgree
  <2> QED  BY <1>1, <1>4 DEF SignInIInv, AttemptsAgree
<1> QED  BY <1>6, <1>7, <1>8, <1>9 DEF SignInIInv

\* What most steps leave to prove: counts and the second factor stay, sessions are revoked at
\* most, and a request ends, or is about to issue a session that was exchanged for none.
LEMMA QuietStep ==
  ASSUME SignInIInv, UNCHANGED <<loginAttempts, failed, secondFactor>>, secret => secret',
         lockedOut' \in BOOLEAN, secret' \in BOOLEAN, resetToken' \in BOOLEAN,
         raced \subseteq raced', signIns' \in signIns .. MaxSignIns,
         session' \in [Sessions -> SessionRow \cup {NoSession}], Issued' = Issued,
         \A s \in Issued : /\ session'[s].parent = session[s].parent
                           /\ session[s].revoked => session'[s].revoked,
         signIn' \in [SignInRequests -> SignInWork],
         \A q \in SignInRequests :
           \/ signIn'[q] = signIn[q]
           \/ signIn'[q].op \in {"none", "forget"}
           \/ signIn'[q].op = "issue" /\ signIn'[q].parent = NoSession
  PROVE  SignInIInv'
<1>1. FailuresAreBounded'
  <2>1. \A r \in Logins' : r \in Logins /\ signIn'[r] = signIn[r]
    BY DEF Logins
  <2> QED  BY <2>1, BoundsStay DEF SignInIInv, SignInStateTyped
<1>2. SignInStateTyped'
  BY <1>1 DEF SignInIInv, SignInStateTyped
<1>3. SessionsAgree'
  BY SessionsStay DEF SignInIInv
<1>4. AttemptsAgree'
  BY AttemptsStay DEF SignInIInv
<1>5. FactorAgrees'
  BY FactorStays DEF SignInIInv
<1> QED  BY <1>2, <1>3, <1>4, <1>5 DEF SignInIInv

LEMMA SessionKept ==
  ASSUME UNCHANGED session
  PROVE  /\ Issued' = Issued
         /\ \A s \in Issued : /\ session'[s].parent = session[s].parent
                              /\ session[s].revoked => session'[s].revoked
  BY DEF Issued

LEMMA RevokeEffect ==
  ASSUME session \in [Sessions -> SessionRow \cup {NoSession}], NEW ss, Revoke(ss)
  PROVE  /\ session' \in [Sessions -> SessionRow \cup {NoSession}] /\ Issued' = Issued
         /\ \A s \in Issued : /\ session'[s].parent = session[s].parent
                              /\ session[s].revoked => session'[s].revoked
<1>1. \A s \in Issued : session[s] \in SessionRow
  BY DEF Issued
<1>2. \A s \in Issued : /\ [session[s] EXCEPT !.revoked = TRUE] \in SessionRow
                        /\ [session[s] EXCEPT !.revoked = TRUE].parent = session[s].parent
                        /\ [session[s] EXCEPT !.revoked = TRUE].revoked
  BY <1>1 DEF SessionRow
<1>3. /\ session' = [s \in Sessions |-> session'[s]]
      /\ \A s \in Sessions : session'[s] = IF s \in ss \cap Issued
                                           THEN [session[s] EXCEPT !.revoked = TRUE]
                                           ELSE session[s]
  BY DEF Revoke
<1>4. \A s \in Sessions : session'[s] \in SessionRow \cup {NoSession}
  BY <1>1, <1>2, <1>3 DEF Issued
<1>5. \A s \in Sessions : session'[s] # NoSession <=> session[s] # NoSession
  BY <1>1, <1>2, <1>3, NoSessionIsNoRow DEF Issued
<1>6. \A s \in Issued : /\ session'[s].parent = session[s].parent
                        /\ session[s].revoked => session'[s].revoked
  BY <1>2, <1>3 DEF Issued
<1>7. Issued' = Issued
  BY <1>5 DEF Issued
<1>8. session' \in [Sessions -> SessionRow \cup {NoSession}]
  BY <1>3, <1>4
<1> QED  BY <1>6, <1>7, <1>8

LEMMA RightPasswordStep ==
  ASSUME SignInIInv, NEW r \in SignInRequests, RightPassword(r)
  PROVE  SignInIInv'
<1>1. /\ r \in Logins /\ loginAttempts' = 0 /\ lockedOut' = FALSE /\ failed' = 0
      /\ UNCHANGED <<session, secret, secondFactor, resetToken, raced, signIns>>
  BY DEF RightPassword, Logins
<1>2. PICK new \in SignInWork :
        /\ signIn' = [signIn EXCEPT ![r] = new]
        /\ new.op = "none" \/ (new.op = "issue" /\ new.parent = NoSession)
  <2>1. NotIn \in SignInWork /\ NotIn.op = "none"
    BY DEF NotIn, SignInWork
  <2> DEFINE issue == [op |-> "issue", parent |-> NoSession]
  <2>2. issue \in SignInWork /\ issue.op = "issue" /\ issue.parent = NoSession
    BY DEF SignInWork
  <2>3. signIn' = [signIn EXCEPT ![r] = NotIn] \/ signIn' = [signIn EXCEPT ![r] = issue]
    BY DEF RightPassword, SignInEnds
  <2> HIDE DEF NotIn, issue
  <2> QED  BY <2>1, <2>2, <2>3
<1>3. SignInStateTyped /\ FailuresAreBounded
  BY DEF SignInIInv, SignInStateTyped
<1>4. /\ signIn' \in [SignInRequests -> SignInWork] /\ signIn'[r] = new
      /\ \A q \in SignInRequests \ {r} : signIn'[q] = signIn[q]
  BY <1>2, <1>3, BeginsEffect DEF SignInStateTyped
<1>5. Logins' = Logins \ {r} /\ \A q \in Logins' : signIn'[q] = signIn[q]
  BY <1>2, <1>4 DEF Logins
<1>6. FailuresAreBounded'
  BY <1>1, <1>3, <1>5, SignInsKept, BoundsStay
<1>7. SignInStateTyped'
  BY <1>1, <1>3, <1>4, <1>6 DEF SignInStateTyped
<1>8. SessionsAgree'
  BY <1>1, <1>2, <1>4, SessionKept, SessionsStay DEF SignInIInv
<1>9. FactorAgrees'
  BY <1>1, <1>2, <1>4, FactorStays DEF SignInIInv
<1>10. AttemptsAgree'
  <2> SUFFICES ASSUME "attempts" \notin raced
               PROVE  loginAttempts' = failed' /\ Logins' = {}
    BY <1>1 DEF AttemptsAgree
  <2> QED  BY <1>1, <1>5 DEF SignInIInv, AttemptsAgree
<1> QED  BY <1>7, <1>8, <1>9, <1>10 DEF SignInIInv

LEMMA IssuesTokensStep ==
  ASSUME SignInIInv, NEW r \in SignInRequests, IssuesTokens(r)
  PROVE  SignInIInv'
<1>1. SignInStateTyped /\ FailuresAreBounded
  BY DEF SignInIInv, SignInStateTyped
<1>2. /\ signIn[r].op = "issue" /\ SignInEnds(r)
      /\ UNCHANGED <<loginAttempts, lockedOut, secret, secondFactor, resetToken, failed, raced,
                     signIns>>
  BY DEF IssuesTokens, RowsOfUser
<1>3. PICK parent \in Sessions \cup {NoSession} : parent = signIn[r].parent
  BY <1>1, <1>2, SignInFields DEF SignInStateTyped
<1> DEFINE row == [revoked |-> FALSE, parent |-> parent]
<1>4. PICK n \in Sessions \ Issued : session' = [session EXCEPT ![n] = row]
  BY <1>3 DEF IssuesTokens
<1>5. row \in SessionRow /\ row.parent = parent
  BY DEF SessionRow
<1> HIDE DEF row
<1>6. /\ session' \in [Sessions -> SessionRow \cup {NoSession}]
      /\ Issued' = Issued \cup {n} /\ session'[n].parent = parent
      /\ \A s \in Issued : session'[s] = session[s]
  BY <1>1, <1>4, <1>5, NoSessionIsNoRow DEF SignInStateTyped, Issued
<1>7. /\ signIn' \in [SignInRequests -> SignInWork] /\ signIn'[r].op = "none"
      /\ \A q \in SignInRequests \ {r} : signIn'[q] = signIn[q]
  BY <1>1, <1>2, EndsEffect DEF SignInStateTyped
<1>8. SignInStateTyped'
  <2>1. \A q \in Logins' : q \in Logins /\ signIn'[q] = signIn[q]
    BY <1>7 DEF Logins
  <2>2. FailuresAreBounded'
    BY <1>1, <1>2, <2>1, SignInsKept, BoundsStay
  <2> QED  BY <1>1, <1>2, <1>6, <1>7, <2>2 DEF SignInStateTyped
<1>9. SessionsAgree'
  <2> SUFFICES ASSUME NEW s \in Sessions  PROVE SessionAgrees(s)'
    BY DEF SessionsAgree
  <2>1. SessionAgrees(s)
    BY DEF SignInIInv, SessionsAgree
  <2>2. /\ Exchanging(s)' \subseteq Exchanging(s) /\ Issuing(s)' = Issuing(s) \ {r}
        /\ \A q \in InProgress({"exchange", "reuse"})' :
             q \in InProgress({"exchange", "reuse"}) /\ signIn'[q] = signIn[q]
    BY <1>7 DEF Exchanging, Issuing, InProgress
  <2>3. s \in Issued => s \in Issued' /\ session'[s] = session[s]
    BY <1>6
  <2>4. CASE parent = s
    <3>1. r \in Issuing(s) /\ Successors(s)' = Successors(s) \cup {n}
      BY <1>2, <1>3, <1>6, <2>4 DEF Issuing, Successors
    <3>2. s \in Issued /\ session[s].revoked
      BY <2>1, <3>1 DEF SessionAgrees
    <3>3. ASSUME s \notin raced
          PROVE  Successors(s) = {} /\ Exchanging(s)' \cup Issuing(s)' = {}
      <4>1. Successors(s) = {} /\ \A q \in Exchanging(s) \cup Issuing(s) : q = r
        BY <2>1, <3>1, <3>3 DEF SessionAgrees
      <4>2. r \notin Exchanging(s)
        BY <1>2 DEF Exchanging
      <4> QED  BY <2>2, <4>1, <4>2
    <3> QED  BY <1>2, <2>1, <2>2, <2>3, <3>1, <3>2, <3>3 DEF SessionAgrees
  <2>5. CASE parent # s
    <3>1. Successors(s)' = Successors(s)
      BY <1>6, <2>5 DEF Successors
    <3> QED  BY <1>2, <2>1, <2>2, <2>3, <3>1 DEF SessionAgrees
  <2> QED  BY <2>4, <2>5
<1>10. AttemptsAgree' /\ FactorAgrees'
  BY <1>2, <1>7, AttemptsStay, FactorStays DEF SignInIInv
<1> QED  BY <1>8, <1>9, <1>10 DEF SignInIInv

LEMMA RefreshStep ==
  ASSUME SignInIInv, NEW r \in SignInRequests, NEW s \in Sessions, Refresh(r, s)
  PROVE  SignInIInv'
<1> DEFINE new == [op |-> IF session[s].revoked THEN "reuse" ELSE "exchange", session |-> s]
<1>1. /\ s \in Issued /\ signIn[r] = NotIn /\ signIn' = [signIn EXCEPT ![r] = new]
      /\ signIns < MaxSignIns /\ signIns' = signIns + 1
      /\ UNCHANGED <<session, loginAttempts, lockedOut, secret, secondFactor, resetToken, failed>>
      /\ raced' = raced \cup
           IF \E q \in InProgress({"exchange"}) : signIn[q].session = s THEN {s} ELSE {}
  BY DEF Refresh, SignInBegins, RowsOfUser
<1>2. SignInStateTyped /\ FailuresAreBounded
  BY DEF SignInIInv, SignInStateTyped
<1>3. /\ new \in SignInWork /\ new.session = s
      /\ \/ new.op = "exchange" /\ ~session[s].revoked
         \/ new.op = "reuse"
  BY DEF SignInWork
<1> HIDE DEF new
<1>4. /\ signIn' \in [SignInRequests -> SignInWork] /\ signIn'[r] = new
      /\ \A q \in SignInRequests \ {r} : signIn'[q] = signIn[q]
  BY <1>1, <1>2, <1>3, BeginsEffect DEF SignInStateTyped
<1>5. SignInStateTyped'
  <2>1. \A q \in Logins' : q \in Logins /\ signIn'[q] = signIn[q]
    BY <1>3, <1>4 DEF Logins
  <2>2. FailuresAreBounded'
    BY <1>1, <1>2, <2>1, SignInsGrow, BoundsStay
  <2> QED  BY <1>1, <1>2, <1>4, <2>2 DEF SignInStateTyped
<1>6. SessionsAgree'
  <2> SUFFICES ASSUME NEW x \in Sessions  PROVE SessionAgrees(x)'
    BY DEF SessionsAgree
  <2>1. SessionAgrees(x)
    BY DEF SignInIInv, SessionsAgree
  <2>2. /\ Issued' = Issued /\ Successors(x)' = Successors(x) /\ Issuing(x)' = Issuing(x)
        /\ \A q \in InProgress({"exchange", "reuse"})' \ {r} :
             q \in InProgress({"exchange", "reuse"}) /\ signIn'[q] = signIn[q]
        /\ Exchanging(x)' \ {r} = Exchanging(x)
    BY <1>1, <1>3, <1>4 DEF Issued, Successors, Issuing, InProgress, NotIn, Exchanging
  <2>3. \A q \in InProgress({"exchange", "reuse"})' : signIn'[q].session = x => x \in Issued'
    BY <1>1, <1>3, <1>4, <2>1, <2>2 DEF SessionAgrees
  <2>4. CASE new.op = "exchange" /\ x = s
    <3>1. ~session[x].revoked
      BY <1>3, <2>4
    <3>2. Issuing(x) = {} /\ Successors(x) = {}
      BY <2>1, <3>1 DEF SessionAgrees
    <3>3. x \notin raced' => Exchanging(x) = {}
      BY <1>1, <2>4 DEF Exchanging, InProgress
    <3>4. Exchanging(x)' \subseteq Exchanging(x) \cup {r}
      BY <2>2
    <3> QED  BY <2>2, <2>3, <3>2, <3>3, <3>4 DEF SessionAgrees
  <2>5. CASE new.op # "exchange" \/ x # s
    <3>1. Exchanging(x)' = Exchanging(x)
      BY <1>3, <1>4, <2>2, <2>5 DEF Exchanging
    <3>2. x \notin raced' => x \notin raced
      BY <1>1
    <3> QED  BY <1>1, <2>1, <2>2, <2>3, <3>1, <3>2 DEF SessionAgrees
  <2> QED  BY <2>4, <2>5
<1>7. AttemptsAgree' /\ FactorAgrees'
  BY <1>1, <1>3, <1>4, AttemptsStay, FactorStays DEF SignInIInv
<1> QED  BY <1>5, <1>6, <1>7 DEF SignInIInv

LEMMA ExchangesTokenStep ==
  ASSUME SignInIInv, NEW r \in SignInRequests, ExchangesToken(r)
  PROVE  SignInIInv'
<1>1. SignInStateTyped /\ FailuresAreBounded
  BY DEF SignInIInv, SignInStateTyped
<1>2. PICK s \in Sessions : s = signIn[r].session
  BY <1>1, SignInFields DEF ExchangesToken, SignInStateTyped
<1> DEFINE new == [op |-> "issue", parent |-> s]
           row == [session[s] EXCEPT !.revoked = TRUE]
<1>3. /\ signIn[r].op = "exchange" /\ session' = [session EXCEPT ![s] = row]
      /\ signIn' = [signIn EXCEPT ![r] = new]
      /\ UNCHANGED <<loginAttempts, lockedOut, secret, secondFactor, resetToken, failed, raced,
                     signIns>>
  BY <1>2 DEF ExchangesToken, RowsOfUser
<1>4. s \in Issued
  BY <1>2, <1>3 DEF SignInIInv, SessionsAgree, SessionAgrees, InProgress
<1>5. session[s] \in SessionRow
  BY <1>1, <1>4 DEF Issued, SignInStateTyped
<1>6. row \in SessionRow /\ row.parent = session[s].parent /\ row.revoked
  BY <1>5 DEF SessionRow
<1>7. new \in SignInWork /\ new.op = "issue" /\ new.parent = s
  BY DEF SignInWork
<1> HIDE DEF row, new
<1>8. /\ session' \in [Sessions -> SessionRow \cup {NoSession}]
      /\ session'[s] = row /\ \A x \in Sessions \ {s} : session'[x] = session[x]
  BY <1>1, <1>3, <1>6 DEF SignInStateTyped
<1>9. /\ Issued' = Issued
      /\ \A x \in Issued : /\ session'[x].parent = session[x].parent
                           /\ session[x].revoked => session'[x].revoked
  BY <1>4, <1>6, <1>8, NoSessionIsNoRow DEF Issued
<1>10. /\ signIn' \in [SignInRequests -> SignInWork] /\ signIn'[r] = new
       /\ \A q \in SignInRequests \ {r} : signIn'[q] = signIn[q]
  BY <1>1, <1>3, <1>7, BeginsEffect DEF SignInStateTyped
<1>11. SignInStateTyped'
  <2>1. \A q \in Logins' : q \in Logins /\ signIn'[q] = signIn[q]
    BY <1>7, <1>10 DEF Logins
  <2>2. FailuresAreBounded'
    BY <1>1, <1>3, <2>1, SignInsKept, BoundsStay
  <2> QED  BY <1>1, <1>3, <1>8, <1>10, <2>2 DEF SignInStateTyped
<1>12. SessionsAgree'
  <2> SUFFICES ASSUME NEW x \in Sessions  PROVE SessionAgrees(x)'
    BY DEF SessionsAgree
  <2>1. SessionAgrees(x)
    BY DEF SignInIInv, SessionsAgree
  <2>2. /\ Successors(x)' = Successors(x)
        /\ \A q \in InProgress({"exchange", "reuse"})' :
             q \in InProgress({"exchange", "reuse"}) /\ signIn'[q] = signIn[q]
        /\ Exchanging(x)' = Exchanging(x) \ {r}
    BY <1>7, <1>9, <1>10 DEF Successors, InProgress, Exchanging
  <2>3. CASE x = s
    <3>1. r \in Exchanging(x) /\ Issuing(x)' = Issuing(x) \cup {r}
      BY <1>2, <1>3, <1>7, <1>10, <2>3 DEF Exchanging, Issuing
    <3>2. x \in Issued' /\ session'[x].revoked
      BY <1>4, <1>6, <1>8, <1>9, <2>3
    <3> QED  BY <1>3, <1>9, <2>1, <2>2, <3>1, <3>2 DEF SessionAgrees
  <2>4. CASE x # s
    <3>1. Issuing(x)' = Issuing(x)
      BY <1>3, <1>7, <1>10, <2>4 DEF Issuing
    <3> QED  BY <1>3, <1>9, <2>1, <2>2, <3>1 DEF SessionAgrees
  <2> QED  BY <2>3, <2>4
<1>13. AttemptsAgree' /\ FactorAgrees'
  BY <1>3, <1>7, <1>10, AttemptsStay, FactorStays DEF SignInIInv
<1> QED  BY <1>11, <1>12, <1>13 DEF SignInIInv

LEMMA FactorBeginsStep ==
  ASSUME SignInIInv, NEW r \in SignInRequests, EnableTwoFactor(r) \/ DisableTwoFactor(r)
  PROVE  SignInIInv'
<1>1. PICK op \in {"enable", "disable"} :
        /\ secret /\ (op = "disable" => secondFactor)
        /\ SignInBegins(r, [op |-> op])
        /\ raced' = raced \cup IF InProgress({"enable", "disable"} \ {op}) # {}
                               THEN {"factor"} ELSE {}
  <2>1. {"enable", "disable"} \ {"enable"} = {"disable"}
        /\ {"enable", "disable"} \ {"disable"} = {"enable"}
    OBVIOUS
  <2> QED  BY <2>1 DEF EnableTwoFactor, DisableTwoFactor, Races
<1> DEFINE new == [op |-> op]
<1>2. /\ signIn[r] = NotIn /\ signIn' = [signIn EXCEPT ![r] = new]
      /\ signIns < MaxSignIns /\ signIns' = signIns + 1
      /\ UNCHANGED <<session, loginAttempts, lockedOut, secret, secondFactor, resetToken, failed>>
  BY <1>1 DEF SignInBegins, RowsOfUser
<1>3. new \in SignInWork /\ new.op = op
  BY DEF SignInWork
<1> HIDE DEF new
<1>4. SignInStateTyped /\ FailuresAreBounded
  BY DEF SignInIInv, SignInStateTyped
<1>5. /\ signIn' \in [SignInRequests -> SignInWork] /\ signIn'[r] = new
      /\ \A q \in SignInRequests \ {r} : signIn'[q] = signIn[q]
  BY <1>2, <1>3, <1>4, BeginsEffect DEF SignInStateTyped
<1>6. SignInStateTyped'
  <2>1. \A q \in Logins' : q \in Logins /\ signIn'[q] = signIn[q]
    BY <1>3, <1>5 DEF Logins
  <2>2. FailuresAreBounded'
    BY <1>2, <1>4, <2>1, SignInsGrow, BoundsStay
  <2> QED  BY <1>2, <1>4, <1>5, <2>2 DEF SignInStateTyped
<1>7. SessionsAgree' /\ AttemptsAgree'
  BY <1>1, <1>2, <1>3, <1>5, SessionKept, SessionsStay, AttemptsStay DEF SignInIInv
<1>8. FactorAgrees'
  <2> SUFFICES ASSUME "factor" \notin raced'
               PROVE  InProgress({"enable"})' # {} => InProgress({"disable"})' = {}
    BY <1>1, <1>2 DEF FactorAgrees
  <2>1. "factor" \notin raced /\ InProgress({"enable", "disable"} \ {op}) = {}
    BY <1>1
  <2>2. /\ InProgress({"enable"})' \subseteq InProgress({"enable"}) \cup {r}
        /\ InProgress({"disable"})' \subseteq InProgress({"disable"}) \cup {r}
    BY <1>5 DEF InProgress
  <2>3. CASE op = "enable"
    <3>1. InProgress({"disable"}) = {} /\ r \notin InProgress({"disable"})'
      BY <1>3, <1>5, <2>1, <2>3 DEF InProgress
    <3> QED  BY <2>2, <3>1
  <2>4. CASE op = "disable"
    <3>1. InProgress({"enable"}) = {} /\ r \notin InProgress({"enable"})'
      BY <1>3, <1>5, <2>1, <2>4 DEF InProgress
    <3> QED  BY <2>2, <3>1
  <2> QED  BY <2>3, <2>4
<1> QED  BY <1>6, <1>7, <1>8 DEF SignInIInv

LEMMA WritesFactorStep ==
  ASSUME SignInIInv, NEW r \in SignInRequests, WritesFactor(r)
  PROVE  SignInIInv'
<1>1. /\ signIn[r].op \in {"enable", "disable"}
      /\ secondFactor' = (signIn[r].op = "enable")
      /\ secret' = IF signIn[r].op = "disable" THEN FALSE ELSE secret
      /\ SignInEnds(r)
      /\ UNCHANGED <<session, loginAttempts, lockedOut, resetToken, failed, raced, signIns>>
  BY DEF WritesFactor
<1>2. SignInStateTyped /\ FailuresAreBounded
  BY DEF SignInIInv, SignInStateTyped
<1>3. /\ signIn' \in [SignInRequests -> SignInWork] /\ signIn'[r].op = "none"
      /\ \A q \in SignInRequests \ {r} : signIn'[q] = signIn[q]
  BY <1>1, <1>2, EndsEffect DEF SignInStateTyped
<1>4. SignInStateTyped'
  <2>1. \A q \in Logins' : q \in Logins /\ signIn'[q] = signIn[q]
    BY <1>3 DEF Logins
  <2>2. FailuresAreBounded'
    BY <1>1, <1>2, <2>1, SignInsKept, BoundsStay
  <2>3. secondFactor' \in BOOLEAN /\ secret' \in BOOLEAN
    BY <1>1, <1>2 DEF SignInStateTyped
  <2> QED  BY <1>1, <1>2, <1>3, <2>2, <2>3 DEF SignInStateTyped
<1>5. SessionsAgree' /\ AttemptsAgree'
  BY <1>1, <1>3, SessionKept, SessionsStay, AttemptsStay DEF SignInIInv
<1>6. FactorAgrees'
  <2> SUFFICES ASSUME "factor" \notin raced
               PROVE  /\ secondFactor' => secret'
                      /\ InProgress({"enable"})' # {} =>
                           secret' /\ InProgress({"disable"})' = {}
    BY <1>1 DEF FactorAgrees
  <2>1. /\ InProgress({"enable"})' \subseteq InProgress({"enable"})
        /\ InProgress({"disable"})' \subseteq InProgress({"disable"})
    BY <1>3 DEF InProgress
  <2>2. InProgress({"enable"}) # {} => secret /\ InProgress({"disable"}) = {}
    BY DEF SignInIInv, FactorAgrees
  <2>3. CASE signIn[r].op = "enable"
    <3>1. r \in InProgress({"enable"})
      BY <2>3 DEF InProgress
    <3> QED  BY <1>1, <2>1, <2>2, <2>3, <3>1
  <2>4. CASE signIn[r].op = "disable"
    <3>1. r \in InProgress({"disable"})
      BY <2>4 DEF InProgress
    <3> QED  BY <1>1, <2>1, <2>2, <2>4, <3>1
  <2> QED  BY <1>1, <2>3, <2>4
<1> QED  BY <1>4, <1>5, <1>6 DEF SignInIInv

LEMMA ResetPasswordStep ==
  ASSUME SignInIInv, NEW r \in SignInRequests, ResetPassword(r)
  PROVE  SignInIInv'
<1> DEFINE new == [op |-> "reset"]
<1>1. /\ signIn[r] = NotIn /\ signIn' = [signIn EXCEPT ![r] = new]
      /\ signIns < MaxSignIns /\ signIns' = signIns + 1
      /\ raced' = raced \cup IF InProgress({"login"}) # {} THEN {"attempts"} ELSE {}
      /\ UNCHANGED <<session, loginAttempts, lockedOut, secret, secondFactor, resetToken, failed>>
  BY DEF ResetPassword, SignInBegins, Races, RowsOfUser
<1>2. new \in SignInWork /\ new.op = "reset"
  BY DEF SignInWork
<1> HIDE DEF new
<1>3. SignInStateTyped /\ FailuresAreBounded
  BY DEF SignInIInv, SignInStateTyped
<1>4. /\ signIn' \in [SignInRequests -> SignInWork] /\ signIn'[r] = new
      /\ \A q \in SignInRequests \ {r} : signIn'[q] = signIn[q]
  BY <1>1, <1>2, <1>3, BeginsEffect DEF SignInStateTyped
<1>5. \A q \in Logins' : q \in Logins /\ signIn'[q] = signIn[q]
  BY <1>2, <1>4 DEF Logins
<1>6. SignInStateTyped'
  <2>1. FailuresAreBounded'
    BY <1>1, <1>3, <1>5, SignInsGrow, BoundsStay
  <2> QED  BY <1>1, <1>3, <1>4, <2>1 DEF SignInStateTyped
<1>7. SessionsAgree' /\ FactorAgrees'
  BY <1>1, <1>2, <1>4, SessionKept, SessionsStay, FactorStays DEF SignInIInv
<1>8. AttemptsAgree'
  <2> SUFFICES ASSUME "attempts" \notin raced'
               PROVE  loginAttempts' = failed' /\ Logins' = {}
    BY DEF AttemptsAgree
  <2>1. "attempts" \notin raced /\ Logins = {}
    BY <1>1 DEF InProgress, Logins
  <2> QED  BY <1>1, <1>5, <2>1 DEF SignInIInv, AttemptsAgree
<1> QED  BY <1>6, <1>7, <1>8 DEF SignInIInv

LEMMA WritesPasswordStep ==
  ASSUME SignInIInv, NEW r \in SignInRequests, WritesPassword(r)
  PROVE  SignInIInv'
<1> DEFINE new == [op |-> "forget"]
<1>1. /\ signIn[r].op = "reset" /\ signIn' = [signIn EXCEPT ![r] = new]
      /\ loginAttempts' = 0 /\ lockedOut' = FALSE /\ failed' = 0
      /\ UNCHANGED <<session, secret, secondFactor, resetToken, raced, signIns>>
  BY DEF WritesPassword
<1>2. new \in SignInWork /\ new.op = "forget"
  BY DEF SignInWork
<1> HIDE DEF new
<1>3. SignInStateTyped /\ FailuresAreBounded
  BY DEF SignInIInv, SignInStateTyped
<1>4. /\ signIn' \in [SignInRequests -> SignInWork] /\ signIn'[r] = new
      /\ \A q \in SignInRequests \ {r} : signIn'[q] = signIn[q]
  BY <1>1, <1>2, <1>3, BeginsEffect DEF SignInStateTyped
<1>5. \A q \in Logins' : q \in Logins /\ signIn'[q] = signIn[q]
  BY <1>2, <1>4 DEF Logins
<1>6. SignInStateTyped'
  <2>1. FailuresAreBounded'
    BY <1>1, <1>3, <1>5, SignInsKept, BoundsStay
  <2> QED  BY <1>1, <1>3, <1>4, <2>1 DEF SignInStateTyped
<1>7. SessionsAgree' /\ FactorAgrees'
  BY <1>1, <1>2, <1>4, SessionKept, SessionsStay, FactorStays DEF SignInIInv
<1>8. AttemptsAgree'
  <2> SUFFICES ASSUME "attempts" \notin raced  PROVE Logins' = {}
    BY <1>1 DEF AttemptsAgree
  <2>1. r \in InProgress({"reset"})
    BY <1>1 DEF InProgress
  <2> QED  BY <1>5, <2>1 DEF SignInIInv, AttemptsAgree
<1> QED  BY <1>6, <1>7, <1>8 DEF SignInIInv

LEMMA QuietSteps ==
  ASSUME SignInIInv,
         \/ LockPasses \/ GenerateTwoFactorSecret \/ ForgotPassword
         \/ \E s \in Sessions : Logout(s) \/ RevokeAllSessions(s)
         \/ \E r \in SignInRequests : \/ LoginWithTwoFactor(r) \/ RevokesAllOnReuse(r)
                                      \/ DeletesResetToken(r) \/ SignInFails(r)
         \/ UNCHANGED signInVars
  PROVE  SignInIInv'
<1>1. /\ session \in [Sessions -> SessionRow \cup {NoSession}]
      /\ signIn \in [SignInRequests -> SignInWork] /\ FailuresAreBounded
      /\ lockedOut \in BOOLEAN /\ secret \in BOOLEAN /\ resetToken \in BOOLEAN
  BY DEF SignInIInv, SignInStateTyped
<1>2. signIns' = signIns => signIns' \in signIns .. MaxSignIns
  BY <1>1, SignInsKept
<1>3. CASE LockPasses \/ UNCHANGED signInVars
  <2>1. /\ UNCHANGED <<session, loginAttempts, secret, secondFactor, resetToken, signIn, failed,
                       raced, signIns>>
        /\ lockedOut' \in BOOLEAN
    BY <1>1, <1>3 DEF LockPasses, signInVars
  <2> QED  BY <1>1, <1>2, <2>1, SessionKept, QuietStep
<1>4. CASE GenerateTwoFactorSecret \/ ForgotPassword
  <2>1. /\ UNCHANGED <<session, loginAttempts, lockedOut, secondFactor, signIn, failed, raced>>
        /\ secret => secret'
        /\ secret' \in BOOLEAN /\ resetToken' \in BOOLEAN
        /\ signIns < MaxSignIns /\ signIns' = signIns + 1
    BY <1>1, <1>4 DEF GenerateTwoFactorSecret, ForgotPassword
  <2> QED  BY <1>1, <2>1, SessionKept, SignInsGrow, QuietStep
<1>5. CASE \E s \in Sessions : Logout(s) \/ RevokeAllSessions(s)
  <2>1. PICK ss : Revoke(ss)
    BY <1>5 DEF Logout, RevokeAllSessions, Revokes
  <2>2. /\ UNCHANGED <<loginAttempts, lockedOut, secret, secondFactor, resetToken, signIn, failed,
                       raced>>
        /\ signIns < MaxSignIns /\ signIns' = signIns + 1
    BY <1>5 DEF Logout, RevokeAllSessions, Revokes, RowsOfUser
  <2> QED  BY <1>1, <2>1, <2>2, RevokeEffect, SignInsGrow, QuietStep
<1>6. ASSUME NEW r \in SignInRequests, LoginWithTwoFactor(r)  PROVE SignInIInv'
  <2> DEFINE new == [op |-> "issue", parent |-> NoSession]
  <2>1. /\ signIn' = [signIn EXCEPT ![r] = new]
        /\ signIns < MaxSignIns /\ signIns' = signIns + 1
        /\ UNCHANGED <<session, loginAttempts, lockedOut, secret, secondFactor, resetToken,
                       failed, raced>>
    BY <1>6 DEF LoginWithTwoFactor, SignInBegins, RowsOfUser
  <2>2. new \in SignInWork /\ new.op = "issue" /\ new.parent = NoSession
    BY DEF SignInWork
  <2> HIDE DEF new
  <2>3. /\ signIn' \in [SignInRequests -> SignInWork] /\ signIn'[r] = new
        /\ \A q \in SignInRequests \ {r} : signIn'[q] = signIn[q]
    BY <1>1, <2>1, <2>2, BeginsEffect
  <2> QED  BY <1>1, <2>1, <2>2, <2>3, SessionKept, SignInsGrow, QuietStep
<1>7. ASSUME NEW r \in SignInRequests,
             RevokesAllOnReuse(r) \/ DeletesResetToken(r) \/ SignInFails(r)
      PROVE  SignInIInv'
  <2>1. /\ SignInEnds(r)
        /\ UNCHANGED <<loginAttempts, lockedOut, secret, secondFactor, failed, raced, signIns>>
        /\ resetToken' \in BOOLEAN
        /\ Revoke(Sessions) \/ UNCHANGED session
    BY <1>1, <1>7 DEF RevokesAllOnReuse, DeletesResetToken, SignInFails, RowsOfUser
  <2>2. /\ signIn' \in [SignInRequests -> SignInWork] /\ signIn'[r].op = "none"
        /\ \A q \in SignInRequests \ {r} : signIn'[q] = signIn[q]
    BY <1>1, <2>1, EndsEffect
  <2>3. /\ session' \in [Sessions -> SessionRow \cup {NoSession}] /\ Issued' = Issued
        /\ \A s \in Issued : /\ session'[s].parent = session[s].parent
                             /\ session[s].revoked => session'[s].revoked
    BY <1>1, <2>1, SessionKept, RevokeEffect
  <2> QED  BY <1>1, <1>2, <2>1, <2>2, <2>3, QuietStep
<1> QED  BY <1>3, <1>4, <1>5, <1>6, <1>7

LEMMA SignInStarts == SignInInit => SignInIInv
<1> SUFFICES ASSUME SignInInit  PROVE SignInIInv
  OBVIOUS
<1>1. NotIn \in SignInWork /\ NotIn.op = "none"
  BY DEF NotIn, SignInWork
<1> HIDE DEF NotIn
<1>2. /\ signIn \in [SignInRequests -> SignInWork]
      /\ \A r \in SignInRequests : signIn[r].op = "none"
  BY <1>1 DEF SignInInit
<1>3. Logins = {} /\ Issued = {} /\ \A ops : "none" \notin ops => InProgress(ops) = {}
  BY <1>2 DEF SignInInit, Logins, Issued, InProgress
<1>4. FailuresAreBounded
  BY <1>3, FS_EmptySet, SignInAssumption DEF SignInInit, FailuresAreBounded
<1>5. SignInStateTyped
  BY <1>2, <1>4 DEF SignInInit, SignInStateTyped
<1>6. SessionsAgree
  BY <1>2, <1>3 DEF SessionsAgree, SessionAgrees, InProgress, Issuing, Exchanging, Successors
<1>7. AttemptsAgree /\ FactorAgrees
  BY <1>3 DEF SignInInit, AttemptsAgree, FactorAgrees
<1> QED  BY <1>5, <1>6, <1>7 DEF SignInIInv

\* The inductive invariant of logins and sessions: counts within the requests so far, and for
\* each kind of row what the requests in progress have read of it, unless two of them met.
THEOREM SignInInvariance == SignInSpec => []SignInIInv
<1>1. SignInIInv /\ [SignInNext]_signInVars => SignInIInv'
  BY LoginStep, WrongPasswordStep, RightPasswordStep, IssuesTokensStep, RefreshStep,
     ExchangesTokenStep, FactorBeginsStep, WritesFactorStep, ResetPasswordStep,
     WritesPasswordStep, QuietSteps
     DEF SignInNext
<1> QED  BY <1>1, SignInStarts, PTL DEF SignInSpec

\* The types of sessions and of the user's row; the attempts are within the requests so far.
THEOREM SignInTyped == SignInSpec => []SignInTypeOK
<1>1. ASSUME SignInIInv  PROVE SignInTypeOK
  <2>1. SignInStateTyped /\ FailuresAreBounded
    BY <1>1 DEF SignInIInv, SignInStateTyped
  <2>2. signIns \in Nat /\ signIns <= MaxSignIns /\ MaxSignIns \in Nat
    BY <2>1, SignInAssumption DEF FailuresAreBounded
  <2>3. loginAttempts \in 0 .. MaxSignIns
    BY <2>1, <2>2 DEF FailuresAreBounded
  <2>4. failed \in 0 .. MaxSignIns
    <3>1. Cardinality(Logins) \in Nat
      BY <2>1, FS_CardinalityType DEF FailuresAreBounded
    <3> QED  BY <2>1, <2>2, <3>1 DEF FailuresAreBounded
  <2>5. \A r \in InProgress({"exchange", "reuse"}) : signIn[r].session \in Issued
    <3> SUFFICES ASSUME NEW r \in InProgress({"exchange", "reuse"})
                 PROVE  signIn[r].session \in Issued
      OBVIOUS
    <3>1. signIn[r].session \in Sessions
      BY <2>1, SignInFields DEF SignInStateTyped, InProgress
    <3> QED  BY <1>1, <3>1 DEF SignInIInv, SessionsAgree, SessionAgrees
  <2> QED  BY <2>1, <2>3, <2>4, <2>5 DEF SignInTypeOK, SignInStateTyped
<1> QED  BY <1>1, SignInInvariance, PTL

\* A session is exchanged once, wrong passwords are counted, and a second factor has its
\* secret, each unless two requests met at it.
THEOREM SignInsAgree == SignInSpec => []SignInAgrees
<1>1. ASSUME SignInIInv  PROVE TokensAreExchangedOnce
  <2> SUFFICES ASSUME NEW s \in Sessions
               PROVE  /\ Successors(s) # {} => session[s] # NoSession /\ session[s].revoked
                      /\ s \notin raced => Cardinality(Successors(s)) <= 1
    BY DEF TokensAreExchangedOnce
  <2>1. SessionAgrees(s)
    BY <1>1 DEF SignInIInv, SessionsAgree
  <2>2. ASSUME s \notin raced  PROVE Cardinality(Successors(s)) <= 1
    <3>1. Successors(s) = {} \/ \E t : Successors(s) = {t}
      BY <2>1, <2>2 DEF SessionAgrees
    <3>2. Cardinality({}) = 0 /\ \A t : Cardinality({t}) = 1
      BY FS_EmptySet, FS_Singleton
    <3>3. CASE Successors(s) = {}
      BY <3>2, <3>3
    <3>4. CASE \E t : Successors(s) = {t}
      <4>1. PICK t : Successors(s) = {t}
        BY <3>4
      <4>2. Cardinality(Successors(s)) = 1
        BY <3>2, <4>1
      <4> QED  BY <4>2
    <3> QED  BY <3>1, <3>3, <3>4
  <2> QED  BY <2>1, <2>2 DEF SessionAgrees, Issued
<1>2. SignInIInv => FailuresAreCounted /\ SecondFactorHasSecret
  BY DEF SignInIInv, AttemptsAgree, FactorAgrees, FailuresAreCounted, SecondFactorHasSecret
<1> QED  BY <1>1, <1>2, SignInInvariance, PTL DEF SignInAgrees

-----------------------------------------------------------------------------
(***************************************************************************)
(* The templates of the intercom.                                          *)
(*                                                                         *)
(* While nothing but one seeding has touched them, the templates are a     *)
(* function of what is left to seed: a default is there once, unless it is *)
(* in the list of the one who seeds.  Other names have no row.             *)
(***************************************************************************)
IntercomStateTyped == IntercomTypeOK /\ answers \in [Commands -> SUBSET Crew]

\* The names some listing has yet to create.
ToSeed == UNION {seeding[r] : r \in Readers}

\* Without edits, failures and second readers: one listing seeds, and each default is there or
\* about to be.
SeedingAgrees ==
  /\ \A r, q \in Seeders : r = q
  /\ \/ NoTemplates /\ Seeders = {}
     \/ \A n \in Names : template[n] = IF n \in Defaults \ ToSeed THEN 1 ELSE 0

IntercomIInv == IntercomStateTyped /\ (seededBy = {} => SeedingAgrees)

LEMMA CommandStepTyped ==
  ASSUME IntercomStateTyped,
         \/ \E u \in Crew : \/ \E cs \in SUBSET Commands : CommandIsSentBy(u, cs)
                            \/ RatePasses(u)
                            \/ \E c \in Commands : HandleCommandAck(u, c)
         \/ \E c \in Commands : SendCommand(c) \/ SendFails(c) \/ HandleCommandDelivered(c)
  PROVE  IntercomStateTyped' /\ TemplatesUnchanged
<1>1. TemplatesUnchanged
  BY DEF CommandIsSentBy, RatePasses, HandleCommandAck, SendCommand, SendFails,
     HandleCommandDelivered
<1>2. CASE \E u \in Crew : \/ \E cs \in SUBSET Commands : CommandIsSentBy(u, cs)
                           \/ RatePasses(u)
  BY <1>2 DEF CommandIsSentBy, RatePasses, TemplatesUnchanged, IntercomStateTyped, IntercomTypeOK
<1>3. CASE \E u \in Crew, c \in Commands : HandleCommandAck(u, c)
  BY <1>3 DEF HandleCommandAck, TemplatesUnchanged, IntercomStateTyped, IntercomTypeOK
<1>4. CASE \E c \in Commands : SendCommand(c) \/ SendFails(c) \/ HandleCommandDelivered(c)
  BY <1>4 DEF SendCommand, SendFails, HandleCommandDelivered, TemplatesUnchanged,
     IntercomStateTyped, IntercomTypeOK, CommandStatus
<1> QED  BY <1>1, <1>2, <1>3, <1>4

LEMMA TemplateStepTyped ==
  ASSUME IntercomStateTyped,
         \/ \E r \in Readers : \/ GetTemplates(r) \/ SeedingFails(r)
                               \/ \E n \in Defaults : SeedsDefault(r, n)
         \/ \E n, m \in Names : UpdateTemplate(n, m)
         \/ \E n \in Names : CreateTemplate(n) \/ DeleteTemplate(n)
  PROVE  IntercomStateTyped'
<1>1. UNCHANGED <<command, received, answers, limited>>
  BY DEF GetTemplates, SeedingFails, SeedsDefault, UpdateTemplate, CreateTemplate,
     DeleteTemplate, CommandsUnchanged
<1>2. ASSUME template' \in [Names -> 0 .. MaxTemplates], seeding' \in [Readers -> SUBSET Defaults],
             seededBy' \subseteq {"two readers", "failure", "by hand"}
      PROVE  IntercomStateTyped'
  BY <1>1, <1>2 DEF IntercomStateTyped, IntercomTypeOK
<1>3. /\ template \in [Names -> 0 .. MaxTemplates] /\ seeding \in [Readers -> SUBSET Defaults]
      /\ seededBy \subseteq {"two readers", "failure", "by hand"} /\ MaxTemplates \in Nat
  BY IntercomAssumption DEF IntercomStateTyped, IntercomTypeOK
<1>n. \A n \in Names : template[n] \in Int /\ 0 <= template[n] /\ template[n] <= MaxTemplates
  <2>1. \A n \in Names : template[n] \in 0 .. MaxTemplates
    BY <1>3
  <2> QED  BY <2>1, IntercomAssumption
<1>m. MaxTemplates \in Nat
  BY IntercomAssumption
<1>4. ASSUME NEW r \in Readers, GetTemplates(r) \/ SeedingFails(r)
      PROVE  IntercomStateTyped'
  BY <1>2, <1>3, <1>4 DEF GetTemplates, SeedingFails
<1>5. ASSUME NEW r \in Readers, NEW n \in Defaults, SeedsDefault(r, n)
      PROVE  IntercomStateTyped'
  <2>1. n \in Names /\ template[n] < MaxTemplates
    BY <1>5, IntercomAssumption DEF SeedsDefault
  <2>2. template[n] + 1 \in 0 .. MaxTemplates
    BY <1>n, <1>m, <2>1
  <2>3. template' \in [Names -> 0 .. MaxTemplates]
    BY <1>3, <1>5, <2>2 DEF SeedsDefault
  <2>4. seeding' \in [Readers -> SUBSET Defaults] /\ seededBy' = seededBy
    BY <1>3, <1>5 DEF SeedsDefault
  <2> QED  BY <1>2, <1>3, <2>3, <2>4
<1>6. ASSUME NEW n \in Names, NEW m \in Names, UpdateTemplate(n, m)
      PROVE  IntercomStateTyped'
  <2>1. template[n] > 0 /\ template[m] < MaxTemplates
    BY <1>6 DEF UpdateTemplate
  <2>2. template[n] - 1 \in 0 .. MaxTemplates /\ template[m] + 1 \in 0 .. MaxTemplates
    BY <1>n, <1>m, <2>1
  <2>3. template' \in [Names -> 0 .. MaxTemplates]
    BY <1>3, <1>6, <2>2 DEF UpdateTemplate
  <2> QED  BY <1>2, <1>3, <1>6, <2>3 DEF UpdateTemplate
<1>7. ASSUME NEW n \in Names, CreateTemplate(n) \/ DeleteTemplate(n)
      PROVE  IntercomStateTyped'
  <2>1. /\ CreateTemplate(n) => template[n] < MaxTemplates
        /\ DeleteTemplate(n) => template[n] > 0
    BY DEF CreateTemplate, DeleteTemplate
  <2>2. /\ CreateTemplate(n) => template[n] + 1 \in 0 .. MaxTemplates
        /\ DeleteTemplate(n) => template[n] - 1 \in 0 .. MaxTemplates
    BY <1>n, <1>m, <2>1
  <2>3. template' \in [Names -> 0 .. MaxTemplates]
    BY <1>3, <1>7, <2>2 DEF CreateTemplate, DeleteTemplate
  <2> QED  BY <1>2, <1>3, <1>7, <2>3 DEF CreateTemplate, DeleteTemplate
<1> QED  BY <1>4, <1>5, <1>6, <1>7

LEMMA SeedingStep ==
  ASSUME IntercomStateTyped, seededBy = {} => SeedingAgrees, seededBy' = {},
         \/ \E r \in Readers : \/ GetTemplates(r) \/ SeedingFails(r)
                               \/ \E n \in Defaults : SeedsDefault(r, n)
         \/ \E n, m \in Names : UpdateTemplate(n, m)
         \/ \E n \in Names : CreateTemplate(n) \/ DeleteTemplate(n)
  PROVE  SeedingAgrees'
<1>1. /\ template \in [Names -> 0 .. MaxTemplates] /\ seeding \in [Readers -> SUBSET Defaults]
      /\ Defaults \subseteq Names
  BY IntercomAssumption DEF IntercomStateTyped, IntercomTypeOK
<1>2. ASSUME NEW r \in Readers, GetTemplates(r)  PROVE SeedingAgrees'
  <2>1. /\ SeedingAgrees /\ Seeders = {} /\ NoTemplates /\ UNCHANGED template
        /\ seeding' = [seeding EXCEPT ![r] = Defaults]
    BY <1>2 DEF GetTemplates
  <2>2. Seeders' \subseteq {r} /\ ToSeed' = Defaults
    BY <1>1, <2>1 DEF Seeders, ToSeed
  <2> QED  BY <2>1, <2>2 DEF SeedingAgrees, NoTemplates
<1>3. ASSUME NEW r \in Readers, NEW n \in Defaults, SeedsDefault(r, n)
      PROVE  SeedingAgrees'
  <2>1. /\ SeedingAgrees /\ n \in seeding[r]
        /\ template' = [template EXCEPT ![n] = @ + 1]
        /\ seeding' = [seeding EXCEPT ![r] = @ \ {n}]
    BY <1>3 DEF SeedsDefault
  <2>2. r \in Seeders /\ \A q \in Seeders : q = r
    BY <2>1 DEF SeedingAgrees, Seeders
  <2>3. ToSeed = seeding[r]
    BY <2>2 DEF ToSeed, Seeders
  <2>4. Seeders' \subseteq Seeders /\ ToSeed' = ToSeed \ {n}
    BY <1>1, <2>1, <2>2, <2>3 DEF ToSeed, Seeders
  <2>5. \A x \in Names : template[x] = IF x \in Defaults \ ToSeed THEN 1 ELSE 0
    BY <2>1, <2>2 DEF SeedingAgrees
  <2>6. n \in ToSeed /\ template[n] = 0 /\ template'[n] = 1
        /\ \A x \in Names \ {n} : template'[x] = template[x]
    BY <1>1, <2>1, <2>3, <2>5
  <2>7. \A x \in Names : template'[x] = IF x \in Defaults \ ToSeed' THEN 1 ELSE 0
    BY <2>4, <2>5, <2>6
  <2> QED  BY <2>2, <2>4, <2>7 DEF SeedingAgrees
<1>4. ASSUME NEW r \in Readers, SeedingFails(r)  PROVE FALSE
  BY <1>4 DEF SeedingFails
<1>5. ASSUME NEW n \in Names, NEW m \in Names,
             UpdateTemplate(n, m) \/ CreateTemplate(n) \/ DeleteTemplate(n)
      PROVE  FALSE
  BY <1>5 DEF UpdateTemplate, CreateTemplate, DeleteTemplate
<1> QED  BY <1>2, <1>3, <1>4, <1>5

LEMMA SeedingStays ==
  ASSUME SeedingAgrees, TemplatesUnchanged
  PROVE  SeedingAgrees'
  BY DEF TemplatesUnchanged, SeedingAgrees, Seeders, ToSeed, NoTemplates

\* The inductive invariant of the intercom.
THEOREM IntercomInvariance == IntercomSpec => []IntercomIInv
<1>1. IntercomInit => IntercomIInv
  BY IntercomAssumption DEF IntercomInit, IntercomIInv, IntercomStateTyped, IntercomTypeOK,
     SeedingAgrees, CommandStatus, Seeders, NoTemplates
<1>2. IntercomIInv /\ [IntercomNext]_intercomVars => IntercomIInv'
  <2> SUFFICES ASSUME IntercomIInv, [IntercomNext]_intercomVars  PROVE IntercomIInv'
    OBVIOUS
  <2>1. CASE \/ \E u \in Crew : \/ \E cs \in SUBSET Commands : CommandIsSentBy(u, cs)
                                \/ RatePasses(u)
                                \/ \E c \in Commands : HandleCommandAck(u, c)
             \/ \E c \in Commands : SendCommand(c) \/ SendFails(c) \/ HandleCommandDelivered(c)
    <3>1. IntercomStateTyped' /\ TemplatesUnchanged
      BY <2>1, CommandStepTyped DEF IntercomIInv
    <3>2. seededBy' = seededBy
      BY <3>1 DEF TemplatesUnchanged
    <3> QED  BY <3>1, <3>2, SeedingStays DEF IntercomIInv
  <2>2. CASE \/ \E r \in Readers : \/ GetTemplates(r) \/ SeedingFails(r)
                                   \/ \E n \in Defaults : SeedsDefault(r, n)
             \/ \E n, m \in Names : UpdateTemplate(n, m)
             \/ \E n \in Names : CreateTemplate(n) \/ DeleteTemplate(n)
    BY <2>2, TemplateStepTyped, SeedingStep DEF IntercomIInv
  <2>3. CASE UNCHANGED intercomVars
    <3>1. TemplatesUnchanged /\ IntercomStateTyped'
      BY <2>3 DEF intercomVars, TemplatesUnchanged, IntercomIInv, IntercomStateTyped,
         IntercomTypeOK
    <3>2. seededBy' = seededBy
      BY <3>1 DEF TemplatesUnchanged
    <3> QED  BY <3>1, <3>2, SeedingStays DEF IntercomIInv
  <2> QED  BY <2>1, <2>2, <2>3 DEF IntercomNext
<1> QED  BY <1>1, <1>2, PTL DEF IntercomSpec

\* The types of templates and commands; what was answered or delivered was received.
THEOREM IntercomTyped == IntercomSpec => []IntercomTypeOK
<1>1. IntercomIInv => IntercomTypeOK
  BY DEF IntercomIInv, IntercomStateTyped
<1> QED  BY <1>1, IntercomInvariance, PTL

\* Each default template is there once when it has been seeded, unless two listings found
\* none, a seeding failed, or somebody edited the templates.
THEOREM DefaultsAreSeeded == IntercomSpec => []TemplatesAreSeeded
<1>1. ASSUME IntercomIInv  PROVE TemplatesAreSeeded
  <2> SUFFICES ASSUME seededBy = {}, ~NoTemplates, NEW n \in Names
               PROVE  template[n] + Cardinality({r \in Seeders : n \in seeding[r]})
                        = IF n \in Defaults THEN 1 ELSE 0
    BY DEF TemplatesAreSeeded
  <2>1. /\ template[n] = IF n \in Defaults \ ToSeed THEN 1 ELSE 0
        /\ \A r, q \in Seeders : r = q
        /\ seeding \in [Readers -> SUBSET Defaults]
    BY <1>1 DEF IntercomIInv, SeedingAgrees, IntercomStateTyped, IntercomTypeOK
  <2>2. Cardinality({}) = 0 /\ \A r : Cardinality({r}) = 1
    BY FS_EmptySet, FS_Singleton
  <2>3. CASE n \in ToSeed
    <3>1. PICK r \in Seeders : n \in seeding[r]
      BY <2>3 DEF ToSeed, Seeders
    <3>2. {q \in Seeders : n \in seeding[q]} = {r}
      BY <2>1, <3>1
    <3>3. Cardinality({q \in Seeders : n \in seeding[q]}) = 1
      BY <2>2, <3>2
    <3>4. n \in Defaults
      BY <2>1, <3>1 DEF Seeders
    <3> QED  BY <2>1, <2>3, <3>3, <3>4
  <2>4. CASE n \notin ToSeed
    <3>1. {q \in Seeders : n \in seeding[q]} = {}
      BY <2>4 DEF ToSeed, Seeders
    <3>2. Cardinality({q \in Seeders : n \in seeding[q]}) = 0
      BY <2>2, <3>1
    <3> QED  BY <2>1, <2>4, <3>2
  <2> QED  BY <2>3, <2>4
<1> QED  BY <1>1, IntercomInvariance, PTL

-----------------------------------------------------------------------------
(***************************************************************************)
(* The chat connection to Restream.                                        *)
(*                                                                         *)
(* That an open socket is the known one depends on where the runs of       *)
(* connectProduction are: without overlaps there is one at most, and as    *)
(* long as it is in progress the maps know no socket.  Reconnections are   *)
(* bounded by the sockets that have closed.                                *)
(***************************************************************************)
\* What a run of connectProduction that is in progress holds.
Run == [step : {"find", "refresh", "reread", "open"}, by : {"request", "timer", "start"}]

Closed == {s \in ChatSockets : chatSocket[s] = "closed"}
Closing == {s \in ChatSockets : chatSocket[s] = "closing"}

\* Each closing, which is reported once, owes one reconnection at most.
RestreamStateTyped ==
  /\ tokenRow \in TokenRow /\ unlinking \in BOOLEAN /\ crossed \in BOOLEAN
  /\ chatSocket \in [ChatSockets -> {"new", "open", "closing", "closed"}]
  /\ connection \in ChatSockets \cup {NoSocket}
  /\ heartbeat \in ChatSockets \cup {NoSocket}
  /\ strayTimers \subseteq ChatSockets
  /\ connecting \in [ConnectRuns -> Run \cup {NoRun}]
  /\ reconnects \in Nat /\ reconnects <= Cardinality(Closed)

\* One run at most, and none beside a socket; the socket the map knows has been opened.
ConnectionAgrees ==
  /\ \A c, d \in Running : c = d
  /\ Running # {} => connection = NoSocket
  /\ \A s \in Open : connection = s /\ heartbeat \in {s} \cup Closing
  /\ connection # NoSocket => chatSocket[connection] \in {"open", "closing"}

RestreamIInv == RestreamStateTyped /\ (~crossed => ConnectionAgrees)

LEMMA NoRunIsNone == NoRun \notin Run
  BY DEF NoRun, Run

LEMMA StepsEffect ==
  ASSUME connecting \in [ConnectRuns -> Run \cup {NoRun}], NEW c \in ConnectRuns,
         connecting[c] # NoRun, NEW step \in {"find", "refresh", "reread", "open"},
         Steps(c, step)
  PROVE  connecting' \in [ConnectRuns -> Run \cup {NoRun}] /\ Running' = Running
<1> DEFINE new == [connecting[c] EXCEPT !.step = step]
<1>1. connecting[c] \in Run
  OBVIOUS
<1>2. new \in Run
  BY <1>1 DEF Run
<1>3. connecting' = [connecting EXCEPT ![c] = new]
  BY DEF Steps
<1> HIDE DEF new
<1> QED  BY <1>2, <1>3, NoRunIsNone DEF Running

LEMMA ReturnsEffect ==
  ASSUME connecting \in [ConnectRuns -> Run \cup {NoRun}], NEW c \in ConnectRuns, Returns(c)
  PROVE  connecting' \in [ConnectRuns -> Run \cup {NoRun}] /\ Running' = Running \ {c}
<1> HIDE DEF NoRun
<1> QED  BY DEF Returns, Running

LEMMA BeginsEffectOfConnect ==
  ASSUME RestreamStateTyped, NEW by \in {"request", "timer"}, BeginsConnect(by)
  PROVE  /\ connecting' \in [ConnectRuns -> Run \cup {NoRun}] /\ crossed' \in BOOLEAN
         /\ \/ connection # NoSocket /\ UNCHANGED <<connecting, crossed>>
            \/ /\ connection = NoSocket /\ crossed' = (crossed \/ Running # {})
               /\ \E c \in ConnectRuns : Running' = Running \cup {c}
<1>1. connecting \in [ConnectRuns -> Run \cup {NoRun}] /\ crossed \in BOOLEAN
  BY DEF RestreamStateTyped
<1>2. CASE connection # NoSocket
  BY <1>1, <1>2 DEF BeginsConnect
<1>3. CASE connection = NoSocket
  <2> DEFINE new == [step |-> "find", by |-> by]
  <2>1. PICK c \in ConnectRuns : connecting' = [connecting EXCEPT ![c] = new]
    BY <1>3 DEF BeginsConnect, Running
  <2>2. new \in Run /\ crossed' = (crossed \/ Running # {})
    BY <1>3 DEF Run, BeginsConnect
  <2> HIDE DEF new
  <2>3. /\ connecting' \in [ConnectRuns -> Run \cup {NoRun}]
        /\ Running' = Running \cup {c}
    BY <1>1, <2>1, <2>2, NoRunIsNone DEF Running
  <2>4. crossed' \in BOOLEAN
    BY <2>2
  <2> QED  BY <1>3, <2>2, <2>3, <2>4
<1> QED  BY <1>2, <1>3

LEMMA ConnectionStays ==
  ASSUME ConnectionAgrees, UNCHANGED <<chatSocket, connection, heartbeat>>,
         \A c, d \in Running' : c = d, Running' # {} => connection = NoSocket
  PROVE  ConnectionAgrees'
  BY DEF ConnectionAgrees, Open, Closing

\* A run of connectProduction begins.
LEMMA ConnectBeginsStep ==
  ASSUME RestreamIInv, NEW by \in {"request", "timer"}, BeginsConnect(by),
         tokenRow' \in TokenRow, UNCHANGED <<unlinking, chatSocket, connection, heartbeat, strayTimers>>,
         reconnects' \in Nat, reconnects' <= reconnects
  PROVE  RestreamIInv'
<1>1. RestreamStateTyped
  BY DEF RestreamIInv
<1>2. /\ connecting' \in [ConnectRuns -> Run \cup {NoRun}] /\ crossed' \in BOOLEAN
      /\ \/ connection # NoSocket /\ UNCHANGED <<connecting, crossed>>
         \/ /\ connection = NoSocket /\ crossed' = (crossed \/ Running # {})
            /\ \E c \in ConnectRuns : Running' = Running \cup {c}
  BY <1>1, BeginsEffectOfConnect
<1>3. RestreamStateTyped'
  <2>1. Closed' = Closed /\ Cardinality(Closed) \in Nat
    BY ChatAssumption, FS_Subset, FS_CardinalityType DEF Closed
  <2>2. reconnects' <= Cardinality(Closed')
    BY <1>1, <2>1 DEF RestreamStateTyped
  <2> QED  BY <1>1, <1>2, <2>2 DEF RestreamStateTyped
<1>4. ASSUME ~crossed'  PROVE ConnectionAgrees'
  <2>1. CASE UNCHANGED <<connecting, crossed>>
    <3>1. ConnectionAgrees /\ Running' = Running
      BY <1>4, <2>1 DEF RestreamIInv, Running
    <3> QED  BY <3>1, ConnectionStays DEF ConnectionAgrees
  <2>2. CASE ~UNCHANGED <<connecting, crossed>>
    <3>1. PICK c \in ConnectRuns : Running' = Running \cup {c}
      BY <1>2, <2>2
    <3>2. connection = NoSocket /\ Running = {} /\ ~crossed
      BY <1>2, <1>4, <2>2
    <3> QED  BY <3>1, <3>2, ConnectionStays DEF RestreamIInv
  <2> QED  BY <2>1, <2>2
<1> QED  BY <1>3, <1>4 DEF RestreamIInv

\* A step of a run that opens no socket.
LEMMA RunStep ==
  ASSUME RestreamIInv, NEW c \in ConnectRuns, connecting[c] # NoRun,
         \/ Returns(c)
         \/ \E step \in {"find", "refresh", "reread", "open"} : Steps(c, step),
         tokenRow' \in TokenRow,
         UNCHANGED <<unlinking, chatSocket, connection, heartbeat, strayTimers, reconnects, crossed>>
  PROVE  RestreamIInv'
<1>1. RestreamStateTyped
  BY DEF RestreamIInv
<1>2. connecting' \in [ConnectRuns -> Run \cup {NoRun}] /\ Running' \subseteq Running
  BY <1>1, StepsEffect, ReturnsEffect DEF RestreamStateTyped
<1>3. Closed' = Closed
  BY DEF Closed
<1>4. RestreamStateTyped'
  BY <1>1, <1>2, <1>3 DEF RestreamStateTyped
<1>5. ASSUME ~crossed'  PROVE ConnectionAgrees'
  BY <1>2, <1>5, ConnectionStays DEF RestreamIInv, ConnectionAgrees
<1> QED  BY <1>4, <1>5 DEF RestreamIInv

LEMMA ConnectOpensStep ==
  ASSUME RestreamIInv, NEW c \in ConnectRuns, ConnectOpens(c)
  PROVE  RestreamIInv'
<1>1. RestreamStateTyped /\ connecting[c] # NoRun /\ Returns(c)
      /\ UNCHANGED <<tokenRow, unlinking, strayTimers, reconnects, crossed>>
  BY DEF RestreamIInv, ConnectOpens
<1>2. PICK s \in Fresh : OpensSocket(s)
  BY DEF ConnectOpens
<1>3. connecting' \in [ConnectRuns -> Run \cup {NoRun}] /\ Running' = Running \ {c}
  BY <1>1, ReturnsEffect DEF RestreamStateTyped
<1>4. /\ s \in ChatSockets /\ chatSocket[s] = "new" /\ connection' = s /\ heartbeat' = s
      /\ chatSocket' = [chatSocket EXCEPT ![s] = "open"]
  BY <1>2 DEF OpensSocket, ResetsHeartbeat, Fresh
<1>5. Closed' = Closed /\ Open' = Open \cup {s} /\ chatSocket'[s] = "open"
  BY <1>1, <1>4 DEF Closed, Open, RestreamStateTyped
<1>6. RestreamStateTyped'
  BY <1>1, <1>3, <1>4, <1>5 DEF RestreamStateTyped
<1>7. ASSUME ~crossed'  PROVE ConnectionAgrees'
  <2>1. ConnectionAgrees /\ c \in Running
    BY <1>1, <1>7 DEF RestreamIInv, Running
  <2>2. connection = NoSocket /\ Running' = {}
    BY <1>3, <2>1 DEF ConnectionAgrees
  <2>3. Open = {}
    BY <2>1, <2>2, ChatAssumption DEF ConnectionAgrees, Open
  <2> QED  BY <1>4, <1>5, <2>2, <2>3 DEF ConnectionAgrees
<1> QED  BY <1>6, <1>7 DEF RestreamIInv

LEMMA SocketClosesStep ==
  ASSUME RestreamIInv, NEW s \in ChatSockets, SocketCloses(s)
  PROVE  RestreamIInv'
<1>1. /\ RestreamStateTyped /\ chatSocket[s] \in {"open", "closing"}
      /\ chatSocket' = [chatSocket EXCEPT ![s] = "closed"]
      /\ connection' = NoSocket /\ heartbeat' = NoSocket
      /\ strayTimers' = strayTimers \cup ({heartbeat} \ {NoSocket})
      /\ reconnects' = reconnects + 1
      /\ crossed' = (crossed \/ connection \notin {s, NoSocket})
      /\ UNCHANGED <<tokenRow, unlinking, connecting>>
  BY DEF RestreamIInv, SocketCloses, HandlesClose
<1>2. /\ Closed' = Closed \cup {s} /\ s \notin Closed /\ Closed \subseteq ChatSockets
      /\ Open' = Open \ {s} /\ Running' = Running
  BY <1>1 DEF Closed, Open, Running, RestreamStateTyped
<1>3. /\ IsFiniteSet(Closed) /\ Cardinality(Closed) \in Nat
      /\ Cardinality(Closed') = Cardinality(Closed) + 1
  BY <1>2, ChatAssumption, FS_Subset, FS_CardinalityType, FS_AddElement
<1>4. reconnects' \in Nat /\ reconnects' <= Cardinality(Closed')
  BY <1>1, <1>3 DEF RestreamStateTyped
<1>5. strayTimers' \subseteq ChatSockets /\ crossed' \in BOOLEAN
  BY <1>1 DEF RestreamStateTyped
<1>6. chatSocket' \in [ChatSockets -> {"new", "open", "closing", "closed"}]
  BY <1>1 DEF RestreamStateTyped
<1>7. RestreamStateTyped'
  BY <1>1, <1>4, <1>5, <1>6 DEF RestreamStateTyped
<1>8. ASSUME ~crossed'  PROVE ConnectionAgrees'
  <2>1. ConnectionAgrees /\ connection \in {s, NoSocket}
    BY <1>1, <1>8 DEF RestreamIInv
  <2>2. Open' = {}
    BY <1>2, <2>1, ChatAssumption DEF ConnectionAgrees, Open
  <2> QED  BY <1>1, <1>2, <2>1, <2>2 DEF ConnectionAgrees
<1> QED  BY <1>7, <1>8 DEF RestreamIInv

\* A socket is asked to close, or one is watched anew: none opens, none is closed.
LEMMA SocketStep ==
  ASSUME RestreamIInv,
         \/ \E s \in ChatSockets : ReceivesMessage(s) \/ HeartbeatFires(s)
         \/ UnlinksAccount
  PROVE  RestreamIInv'
<1>1. RestreamStateTyped /\ UNCHANGED <<tokenRow, connecting, reconnects, crossed>>
      /\ Running' = Running
  BY DEF RestreamIInv, ReceivesMessage, HeartbeatFires, UnlinksAccount, Running
<1>2. /\ chatSocket' \in [ChatSockets -> {"new", "open", "closing", "closed"}]
      /\ \A t \in ChatSockets : \/ chatSocket'[t] = chatSocket[t]
                                \/ chatSocket[t] = "open" /\ chatSocket'[t] = "closing"
  BY <1>1 DEF RestreamStateTyped, ReceivesMessage, HeartbeatFires, UnlinksAccount, Disconnect
<1>3. /\ connection' \in {connection, NoSocket}
      /\ heartbeat' \in ChatSockets \cup {NoSocket} /\ strayTimers' \subseteq ChatSockets
      /\ unlinking' \in BOOLEAN
  BY <1>1 DEF RestreamStateTyped, ReceivesMessage, HeartbeatFires, UnlinksAccount, Disconnect,
     ResetsHeartbeat, Open
<1>4. Closed' = Closed /\ Open' \subseteq Open
  BY <1>1, <1>2 DEF Closed, Open, RestreamStateTyped
<1>5. RestreamStateTyped'
  BY <1>1, <1>2, <1>3, <1>4 DEF RestreamStateTyped
<1>6. ASSUME ~crossed'  PROVE ConnectionAgrees'
  <2>1. ConnectionAgrees
    BY <1>1, <1>6 DEF RestreamIInv
  <2>2. \A t \in Open' : connection' = t /\ heartbeat' \in {t} \cup Closing'
    <3>1. CASE \E s \in ChatSockets : ReceivesMessage(s)
      BY <1>4, <2>1, <3>1 DEF ReceivesMessage, ResetsHeartbeat, ConnectionAgrees, Open, Closing
    <3>2. CASE \E s \in ChatSockets : HeartbeatFires(s)
      BY <1>1, <1>4, <2>1, <3>2 DEF HeartbeatFires, ConnectionAgrees, Closing, RestreamStateTyped
    <3>3. CASE UnlinksAccount
      <4>1. ASSUME NEW t \in Open'  PROVE FALSE
        <5>1. t = connection /\ t \in ChatSockets /\ chatSocket[t] = "open"
          BY <1>4, <2>1, <4>1 DEF ConnectionAgrees, Open
        <5>2. chatSocket'[t] = "closing"
          BY <3>3, <5>1 DEF UnlinksAccount, Disconnect
        <5> QED  BY <4>1, <5>2 DEF Open
      <4> QED  BY <4>1
    <3> QED  BY <3>1, <3>2, <3>3
  <2>3. connection' # NoSocket => chatSocket'[connection'] \in {"open", "closing"}
    BY <1>1, <1>2, <1>3, <2>1 DEF ConnectionAgrees, RestreamStateTyped
  <2> QED  BY <1>1, <1>3, <2>1, <2>2, <2>3 DEF ConnectionAgrees
<1> QED  BY <1>5, <1>6 DEF RestreamIInv

LEMMA RestartStep ==
  ASSUME RestreamIInv, Restarts
  PROVE  RestreamIInv'
<1>1. PICK c \in ConnectRuns :
        connecting' = [d \in ConnectRuns |->
          IF d = c /\ tokenRow # "none" THEN [step |-> "find", by |-> "start"] ELSE NoRun]
  BY DEF Restarts
<1>2. [step |-> "find", by |-> "start"] \in Run
  BY DEF Run
<1>3. connecting' \in [ConnectRuns -> Run \cup {NoRun}]
  BY <1>1, <1>2
<1>4. Running' \subseteq {c}
  BY <1>1 DEF Running
<1>5. /\ tokenRow' \in TokenRow /\ unlinking' = FALSE /\ crossed' = FALSE /\ strayTimers' = {}
      /\ connection' = NoSocket /\ heartbeat' = NoSocket /\ reconnects' = 0
      /\ chatSocket' \in [ChatSockets -> {"new", "closed"}]
  BY DEF Restarts, RestreamIInv, RestreamStateTyped
<1>6. Cardinality(Closed') \in Nat /\ Open' = {}
  BY <1>5, ChatAssumption, FS_Subset, FS_CardinalityType DEF Closed, Open
<1>7. RestreamStateTyped'
  <2>1. reconnects' \in Nat /\ reconnects' <= Cardinality(Closed')
    BY <1>5, <1>6
  <2>2. chatSocket' \in [ChatSockets -> {"new", "open", "closing", "closed"}]
    BY <1>5
  <2>3. crossed' \in BOOLEAN /\ unlinking' \in BOOLEAN
    BY <1>5
  <2> QED  BY <1>3, <1>5, <2>1, <2>2, <2>3 DEF RestreamStateTyped
<1>8. ConnectionAgrees'
  BY <1>4, <1>5, <1>6 DEF ConnectionAgrees
<1> QED  BY <1>7, <1>8 DEF RestreamIInv

\* The inductive invariant of the chat connection.
THEOREM RestreamInvariance == ChatSpec => []RestreamIInv
<1>1. ChatInit => RestreamIInv
  <2> SUFFICES ASSUME ChatInit  PROVE RestreamIInv
    OBVIOUS
  <2>1. Running = {} /\ Open = {} /\ Closed = {}
    BY DEF ChatInit, Running, Open, Closed
  <2>2. reconnects \in Nat /\ reconnects <= Cardinality(Closed)
    BY <2>1, FS_EmptySet DEF ChatInit
  <2> QED  BY <2>1, <2>2 DEF ChatInit, RestreamIInv, RestreamStateTyped, ConnectionAgrees, TokenRow
<1>2. RestreamIInv /\ [ChatNext]_chatVars => RestreamIInv'
  <2> SUFFICES ASSUME RestreamIInv, [ChatNext]_chatVars  PROVE RestreamIInv'
    OBVIOUS
  <2>1. RestreamStateTyped /\ reconnects \in Nat
    BY DEF RestreamIInv, RestreamStateTyped
  <2>2. CASE LinksAccount
    BY <2>1, <2>2, ConnectBeginsStep DEF LinksAccount, TokenRow
  <2>3. CASE ReconnectFires
    <3>1. reconnects' \in Nat /\ reconnects' <= reconnects
      BY <2>1, <2>3 DEF ReconnectFires
    <3> QED  BY <2>1, <2>3, <3>1, ConnectBeginsStep DEF ReconnectFires, RestreamStateTyped
  <2>4. CASE ProcessRestarts
    BY <2>4, RestartStep DEF ProcessRestarts
  <2>5. CASE UnlinksAccount \/ \E s \in ChatSockets : ReceivesMessage(s) \/ HeartbeatFires(s)
    BY <2>5, SocketStep
  <2>6. CASE \E s \in ChatSockets : SocketCloses(s)
    BY <2>6, SocketClosesStep
  <2>7. ASSUME NEW c \in ConnectRuns, FindsRow(c) \/ RefreshesToken(c) \/ RereadsRow(c)
        PROVE  RestreamIInv'
    <3>1. /\ connecting[c] # NoRun /\ tokenRow' \in TokenRow
          /\ Returns(c) \/ \E step \in {"find", "refresh", "reread", "open"} : Steps(c, step)
          /\ UNCHANGED <<unlinking, chatSocket, connection, heartbeat, strayTimers, reconnects,
                         crossed>>
      BY <2>1, <2>7 DEF FindsRow, RefreshesToken, RereadsRow, RestreamStateTyped, TokenRow
    <3> QED  BY <3>1, RunStep
  <2>8. ASSUME NEW c \in ConnectRuns, ConnectOpens(c)  PROVE RestreamIInv'
    BY <2>8, ConnectOpensStep
  <2>9. ASSUME NEW c \in ConnectRuns, ConnectFails(c)  PROVE RestreamIInv'
    <3>1. CASE Restarts
      BY <3>1, RestartStep
    <3>2. CASE ~Restarts
      <4>1. /\ connecting[c] # NoRun /\ Returns(c)
            /\ UNCHANGED <<tokenRow, unlinking, chatSocket, connection, heartbeat, strayTimers,
                           reconnects, crossed>>
        BY <2>9, <3>2 DEF ConnectFails
      <4> QED  BY <2>1, <4>1, RunStep DEF RestreamStateTyped
    <3> QED  BY <3>1, <3>2
  <2>10. CASE TokenExpires \/ DeletesRow \/ UNCHANGED chatVars
    <3>1. /\ tokenRow' \in TokenRow /\ unlinking' \in BOOLEAN
          /\ UNCHANGED <<chatSocket, connection, heartbeat, strayTimers, connecting, reconnects,
                         crossed>>
      BY <2>1, <2>10 DEF TokenExpires, DeletesRow, chatVars, RestreamStateTyped, TokenRow
    <3>2. Running' = Running /\ Open' = Open /\ Closed' = Closed /\ Closing' = Closing
      BY <3>1 DEF Running, Open, Closed, Closing
    <3> QED  BY <3>1, <3>2 DEF RestreamIInv, RestreamStateTyped, ConnectionAgrees
  <2> QED  BY <2>2, <2>3, <2>4, <2>5, <2>6, <2>7, <2>8, <2>9, <2>10 DEF ChatNext
<1> QED  BY <1>1, <1>2, PTL DEF ChatSpec

\* The types of the tokens and sockets; a reconnection is owed to a socket that has closed.
THEOREM RestreamTyped == ChatSpec => []ChatTypeOK
<1>1. ASSUME RestreamIInv  PROVE ChatTypeOK
  <2>1. /\ RestreamStateTyped
        /\ \A c \in Running : connecting[c] \in Run
    BY <1>1 DEF RestreamIInv, RestreamStateTyped, Running
  <2>2. \A c \in Running : connecting[c].step \in {"find", "refresh", "reread", "open"}
    BY <2>1 DEF Run
  <2>3. /\ Closed \subseteq ChatSockets /\ Cardinality(Closed) \in Nat
        /\ Cardinality(Closed) <= Cardinality(ChatSockets) /\ Cardinality(ChatSockets) \in Nat
    BY ChatAssumption, FS_Subset, FS_CardinalityType DEF Closed
  <2>4. reconnects \in 0 .. Cardinality(ChatSockets)
    BY <2>1, <2>3 DEF RestreamStateTyped
  <2> QED  BY <2>1, <2>2, <2>4 DEF RestreamStateTyped, ChatTypeOK
<1> QED  BY <1>1, RestreamInvariance, PTL

\* Unless runs or sockets overlapped, an open socket is the one the map knows, watched by its
\* timer or crossed by a late message of a closing one, and the map knows no closed socket.
THEOREM ChatHasOneSocket == ChatSpec => []OneChatConnection
<1>1. RestreamIInv => OneChatConnection
  BY ChatAssumption DEF RestreamIInv, ConnectionAgrees, OneChatConnection, Closing
<1> QED  BY <1>1, RestreamInvariance, PTL

-----------------------------------------------------------------------------
(***************************************************************************)
(* The comments and polls that go on air.                                  *)
(*                                                                         *)
(* One at most is on air because, while one is about to be put there, none *)
(* is; a tally counts every vote because the one vote in progress still    *)
(* holds the tally it has read.  The votes are bounded by the requests.    *)
(***************************************************************************)
\* What a request on the wall holds while it is in progress.
WallWork ==
  [op : {"ingest"}, comment : Comments]
    \cup [op : {"status"}, comment : Comments, status : CommentStatus]
    \cup [op : {"vote"}, poll : Polls, read : Nat]
    \cup [op : {"none", "poll"}]

PutsOnAir == {r \in WallRequests : wallRequest[r].op = "status" /\ wallRequest[r].status = "ON_AIR"}
Voting(p) == {r \in WallRequests : wallRequest[r].op = "vote" /\ wallRequest[r].poll = p}

\* Every vote took a request of its own, and what it read is a tally of before.
VotesAreBounded ==
  /\ wallRequests \in 0 .. MaxWall
  /\ \A p \in Polls :
       /\ tally[p] \in 0 .. wallRequests /\ cast[p] \in Nat
       /\ IsFiniteSet(Voting(p)) /\ cast[p] + Cardinality(Voting(p)) <= wallRequests
       /\ \A r \in Voting(p) : wallRequest[r].read < wallRequests

WallStateTyped ==
  /\ comment \in [Comments -> CommentStatus \cup {"none"}]
  /\ graphic \in Comments \cup {NoComment}
  /\ poll \in [Polls -> {"none", "active", "closed"}]
  /\ tally \in [Polls -> Nat] /\ cast \in [Polls -> Nat]
  /\ wallRequest \in [WallRequests -> WallWork]
  /\ wallRaces \subseteq {"comments", "polls", "votes"}

\* Nothing is on air while a comment is about to be put there.
CommentsAgree ==
  /\ \A q, r \in PutsOnAir : q = r
  /\ PutsOnAir # {} => OnAir = {}
  /\ \A m, n \in OnAir : m = n
  /\ \A m \in OnAir : graphic \in {m, NoComment}

\* No poll is active while another is about to be created.
ActiveAgrees ==
  /\ \A q, r \in InWall({"poll"}) : q = r
  /\ InWall({"poll"}) # {} => ActivePolls = {}
  /\ \A p, q \in ActivePolls : p = q

\* A vote in progress holds the tally as it still is.
TalliesAgree ==
  \A p \in Polls :
    /\ tally[p] = cast[p]
    /\ \A r \in Voting(p) : wallRequest[r].read = tally[p]
    /\ \A q, r \in Voting(p) : q = r

WallIInv ==
  /\ WallStateTyped
  /\ VotesAreBounded
  /\ "comments" \notin wallRaces => CommentsAgree
  /\ "polls" \notin wallRaces => ActiveAgrees
  /\ "votes" \notin wallRaces => TalliesAgree

LEMMA WallWorkFields ==
  ASSUME NEW w \in WallWork
  PROVE  /\ w.op \in {"ingest", "status", "vote", "none", "poll"}
         /\ w.op \in {"ingest", "status"} => w.comment \in Comments
         /\ w.op = "status" => w.status \in CommentStatus
         /\ w.op = "vote" => w.poll \in Polls /\ w.read \in Nat
  BY DEF WallWork

LEMMA WallBeginsEffect ==
  ASSUME WallStateTyped, VotesAreBounded, NEW r \in WallRequests, NEW new \in WallWork, NEW races,
         WallBegins(r, new, races)
  PROVE  /\ wallRequest[r].op = "none"
         /\ wallRequest' \in [WallRequests -> WallWork] /\ wallRequest'[r] = new
         /\ \A q \in WallRequests \ {r} : wallRequest'[q] = wallRequest[q]
         /\ wallRequests' = wallRequests + 1 /\ wallRequests' \in 0 .. MaxWall
         /\ wallRequests \in Nat
         /\ wallRaces' = wallRaces \cup races
<1>1. wallRequest[r].op = "none"
  BY DEF WallBegins, NoWallRequest
<1>2. /\ wallRequests' = wallRequests + 1 /\ wallRequests' \in 0 .. MaxWall
      /\ wallRequests \in Nat
  BY WallAssumption DEF WallBegins, VotesAreBounded
<1> QED  BY <1>1, <1>2 DEF WallBegins, WallStateTyped

LEMMA WallEndsEffect ==
  ASSUME WallStateTyped, NEW r \in WallRequests, WallEnds(r)
  PROVE  /\ wallRequest' \in [WallRequests -> WallWork] /\ wallRequest'[r].op = "none"
         /\ \A q \in WallRequests \ {r} : wallRequest'[q] = wallRequest[q]
<1>1. NoWallRequest \in WallWork /\ NoWallRequest.op = "none"
  BY DEF NoWallRequest, WallWork
<1> HIDE DEF NoWallRequest
<1> QED  BY <1>1 DEF WallEnds, WallStateTyped

LEMMA CommentsStay ==
  ASSUME CommentsAgree, UNCHANGED <<comment, graphic>>,
         \A q \in WallRequests : \/ wallRequest'[q] = wallRequest[q]
                                 \/ wallRequest'[q].op # "status"
                                 \/ wallRequest'[q].status # "ON_AIR"
  PROVE  CommentsAgree'
<1>1. PutsOnAir' \subseteq PutsOnAir /\ OnAir' = OnAir
  BY DEF PutsOnAir, OnAir
<1> QED  BY <1>1 DEF CommentsAgree

LEMMA ActiveStays ==
  ASSUME ActiveAgrees, \A p \in Polls : poll'[p] = "active" => poll[p] = "active",
         \A q \in WallRequests : wallRequest'[q] = wallRequest[q] \/ wallRequest'[q].op # "poll"
  PROVE  ActiveAgrees'
<1>1. InWall({"poll"})' \subseteq InWall({"poll"}) /\ ActivePolls' \subseteq ActivePolls
  BY DEF InWall, ActivePolls
<1> QED  BY <1>1 DEF ActiveAgrees

LEMMA VotingStays ==
  ASSUME \A q \in WallRequests : wallRequest'[q] = wallRequest[q] \/ wallRequest'[q].op # "vote",
         NEW p \in Polls
  PROVE  /\ Voting(p)' \subseteq Voting(p)
         /\ \A r \in Voting(p)' : wallRequest'[r] = wallRequest[r]
  BY DEF Voting

LEMMA TalliesStay ==
  ASSUME TalliesAgree, UNCHANGED <<tally, cast>>,
         \A q \in WallRequests : wallRequest'[q] = wallRequest[q] \/ wallRequest'[q].op # "vote"
  PROVE  TalliesAgree'
  BY VotingStays DEF TalliesAgree

LEMMA VotesStay ==
  ASSUME VotesAreBounded, UNCHANGED <<tally, cast>>,
         wallRequests' \in {wallRequests, wallRequests + 1}, wallRequests' \in 0 .. MaxWall,
         \A q \in WallRequests : wallRequest'[q] = wallRequest[q] \/ wallRequest'[q].op # "vote",
         \A q \in WallRequests : wallRequest'[q] \in WallWork
  PROVE  VotesAreBounded'
<1> SUFFICES ASSUME NEW p \in Polls
             PROVE  /\ tally'[p] \in 0 .. wallRequests' /\ cast'[p] \in Nat
                    /\ IsFiniteSet(Voting(p)')
                    /\ cast'[p] + Cardinality(Voting(p)') <= wallRequests'
                    /\ \A r \in Voting(p)' : wallRequest'[r].read < wallRequests'
  BY DEF VotesAreBounded
<1>1. /\ tally[p] \in 0 .. wallRequests /\ cast[p] \in Nat /\ wallRequests \in Nat
      /\ IsFiniteSet(Voting(p)) /\ cast[p] + Cardinality(Voting(p)) <= wallRequests
      /\ \A r \in Voting(p) : wallRequest[r].read < wallRequests
  BY WallAssumption DEF VotesAreBounded
<1>2. /\ Voting(p)' \subseteq Voting(p)
      /\ \A r \in Voting(p)' : wallRequest'[r] = wallRequest[r]
  BY VotingStays
<1>3. /\ IsFiniteSet(Voting(p)') /\ Cardinality(Voting(p)') <= Cardinality(Voting(p))
      /\ Cardinality(Voting(p)) \in Nat /\ Cardinality(Voting(p)') \in Nat
  BY <1>1, <1>2, FS_Subset, FS_CardinalityType
<1>4. wallRequests' \in Nat /\ wallRequests <= wallRequests'
  BY <1>1
<1>5. cast'[p] + Cardinality(Voting(p)') <= wallRequests'
  BY <1>1, <1>3, <1>4
<1>6. tally'[p] \in 0 .. wallRequests'
  BY <1>1, <1>4
<1>7. ASSUME NEW r \in Voting(p)'  PROVE wallRequest'[r].read < wallRequests'
  <2>1. wallRequest'[r].read \in Nat /\ wallRequest'[r].read < wallRequests
    BY <1>1, <1>2, WallWorkFields DEF Voting
  <2> QED  BY <1>1, <1>4, <2>1
<1> QED  BY <1>1, <1>3, <1>5, <1>6, <1>7

\* A request begins or ends that is no vote, and the tallies stay.
LEMMA WallVotesKept ==
  ASSUME WallIInv, UNCHANGED <<tally, cast>>, wallRaces \subseteq wallRaces',
         wallRequests' \in {wallRequests, wallRequests + 1}, wallRequests' \in 0 .. MaxWall,
         wallRequest' \in [WallRequests -> WallWork],
         \A q \in WallRequests : wallRequest'[q] = wallRequest[q] \/ wallRequest'[q].op # "vote"
  PROVE  VotesAreBounded' /\ ("votes" \notin wallRaces' => TalliesAgree')
<1>1. VotesAreBounded'
  BY VotesStay DEF WallIInv
<1>2. ASSUME "votes" \notin wallRaces'  PROVE TalliesAgree'
  BY <1>2, TalliesStay DEF WallIInv
<1> QED  BY <1>1, <1>2

LEMMA WallRequestsKept ==
  ASSUME WallIInv, wallRequests' = wallRequests
  PROVE  wallRequests' \in {wallRequests, wallRequests + 1} /\ wallRequests' \in 0 .. MaxWall
  BY DEF WallIInv, VotesAreBounded

LEMMA IngestStep ==
  ASSUME WallIInv, NEW r \in WallRequests, NEW m \in Comments, IngestMessage(r, m)
  PROVE  WallIInv'
<1> DEFINE new == [op |-> "ingest", comment |-> m]
<1>1. new \in WallWork /\ new.op = "ingest"
  BY DEF WallWork
<1>2. WallBegins(r, new, {}) /\ UNCHANGED <<comment, graphic, poll, tally, cast>>
  BY DEF IngestMessage
<1> HIDE DEF new
<1>3. WallStateTyped /\ VotesAreBounded
  BY DEF WallIInv
<1>4. /\ wallRequest' \in [WallRequests -> WallWork] /\ wallRequest'[r] = new
      /\ \A q \in WallRequests \ {r} : wallRequest'[q] = wallRequest[q]
      /\ wallRequests' = wallRequests + 1 /\ wallRequests' \in 0 .. MaxWall
      /\ wallRaces' = wallRaces \cup {}
  BY <1>1, <1>2, <1>3, WallBeginsEffect
<1>5. WallStateTyped'
  BY <1>2, <1>3, <1>4 DEF WallStateTyped
<1>6. VotesAreBounded' /\ ("votes" \notin wallRaces' => TalliesAgree')
  BY <1>1, <1>2, <1>4, WallVotesKept
<1>7. "comments" \notin wallRaces' => CommentsAgree'
  BY <1>1, <1>2, <1>4, CommentsStay DEF WallIInv
<1>8. "polls" \notin wallRaces' => ActiveAgrees'
  BY <1>1, <1>2, <1>4, ActiveStays DEF WallIInv
<1> QED  BY <1>5, <1>6, <1>7, <1>8 DEF WallIInv

LEMMA UpdateStatusStep ==
  ASSUME WallIInv, NEW r \in WallRequests, NEW m \in Comments, NEW status \in CommentStatus,
         UpdateMessageStatus(r, m, status)
  PROVE  WallIInv'
<1> DEFINE new == [op |-> "status", comment |-> m, status |-> status]
<1> DEFINE races == IF status = "ON_AIR" /\ \E q \in InWall({"status"}) : wallRequest[q].status = "ON_AIR"
                    THEN {"comments"} ELSE {}
<1>1. new \in WallWork /\ new.op = "status" /\ new.status = status
  BY DEF WallWork
<1>2. /\ WallBegins(r, new, races) /\ UNCHANGED <<graphic, poll, tally, cast>>
      /\ comment' = [n \in Comments |->
           IF status = "ON_AIR" /\ comment[n] = "ON_AIR" THEN "APPROVED" ELSE comment[n]]
  BY DEF UpdateMessageStatus
<1>3. races \subseteq {"comments"}
  OBVIOUS
<1>4. ASSUME status = "ON_AIR", "comments" \notin races  PROVE PutsOnAir = {}
  BY <1>4 DEF PutsOnAir, InWall
<1> HIDE DEF new, races
<1>5. WallStateTyped /\ VotesAreBounded
  BY DEF WallIInv
<1>6. /\ wallRequest' \in [WallRequests -> WallWork] /\ wallRequest'[r] = new
      /\ \A q \in WallRequests \ {r} : wallRequest'[q] = wallRequest[q]
      /\ wallRequests' = wallRequests + 1 /\ wallRequests' \in 0 .. MaxWall
      /\ wallRaces' = wallRaces \cup races
  BY <1>1, <1>2, <1>5, WallBeginsEffect
<1>7. WallStateTyped'
  <2>1. comment' \in [Comments -> CommentStatus \cup {"none"}]
    BY <1>2, <1>5 DEF WallStateTyped, CommentStatus
  <2> QED  BY <1>2, <1>3, <1>5, <1>6, <2>1 DEF WallStateTyped
<1>8. VotesAreBounded' /\ ("votes" \notin wallRaces' => TalliesAgree')
  BY <1>1, <1>2, <1>6, WallVotesKept
<1>9. ASSUME "comments" \notin wallRaces'  PROVE CommentsAgree'
  <2>1. CommentsAgree /\ "comments" \notin races
    BY <1>6, <1>9 DEF WallIInv
  <2>2. CASE status = "ON_AIR"
    <3>1. PutsOnAir' \subseteq {r}
      BY <1>4, <1>6, <2>1, <2>2 DEF PutsOnAir
    <3>2. OnAir' = {}
      BY <1>2, <2>2 DEF OnAir
    <3> QED  BY <3>1, <3>2 DEF CommentsAgree
  <2>3. CASE status # "ON_AIR"
    <3>1. comment' = comment
      BY <1>2, <1>5, <2>3 DEF WallStateTyped
    <3> QED  BY <1>1, <1>2, <1>6, <2>1, <2>3, <3>1, CommentsStay
  <2> QED  BY <2>2, <2>3
<1>10. "polls" \notin wallRaces' => ActiveAgrees'
  BY <1>1, <1>2, <1>6, ActiveStays DEF WallIInv
<1> QED  BY <1>7, <1>8, <1>9, <1>10 DEF WallIInv

LEMMA CreatePollStep ==
  ASSUME WallIInv, NEW r \in WallRequests, CreatePoll(r)
  PROVE  WallIInv'
<1> DEFINE new == [op |-> "poll"]
<1> DEFINE races == IF InWall({"poll"}) # {} THEN {"polls"} ELSE {}
<1>1. new \in WallWork /\ new.op = "poll"
  BY DEF WallWork
<1>2. /\ WallBegins(r, new, races) /\ UNCHANGED <<comment, graphic, tally, cast>>
      /\ poll' = [p \in Polls |-> IF poll[p] = "active" THEN "closed" ELSE poll[p]]
  BY DEF CreatePoll
<1>3. races \subseteq {"polls"} /\ ("polls" \notin races => InWall({"poll"}) = {})
  OBVIOUS
<1> HIDE DEF new, races
<1>4. WallStateTyped /\ VotesAreBounded
  BY DEF WallIInv
<1>5. /\ wallRequest' \in [WallRequests -> WallWork] /\ wallRequest'[r] = new
      /\ \A q \in WallRequests \ {r} : wallRequest'[q] = wallRequest[q]
      /\ wallRequests' = wallRequests + 1 /\ wallRequests' \in 0 .. MaxWall
      /\ wallRaces' = wallRaces \cup races
  BY <1>1, <1>2, <1>4, WallBeginsEffect
<1>6. WallStateTyped'
  <2>1. poll' \in [Polls -> {"none", "active", "closed"}]
    BY <1>2, <1>4 DEF WallStateTyped
  <2> QED  BY <1>2, <1>3, <1>4, <1>5, <2>1 DEF WallStateTyped
<1>7. VotesAreBounded' /\ ("votes" \notin wallRaces' => TalliesAgree')
  BY <1>1, <1>2, <1>5, WallVotesKept
<1>8. "comments" \notin wallRaces' => CommentsAgree'
  BY <1>1, <1>2, <1>5, CommentsStay DEF WallIInv
<1>9. ASSUME "polls" \notin wallRaces'  PROVE ActiveAgrees'
  <2>1. InWall({"poll"})' \subseteq {r}
    BY <1>3, <1>5, <1>9 DEF InWall
  <2>2. ActivePolls' = {}
    BY <1>2 DEF ActivePolls
  <2> QED  BY <2>1, <2>2 DEF ActiveAgrees
<1> QED  BY <1>6, <1>7, <1>8, <1>9 DEF WallIInv

LEMMA VotePollStep ==
  ASSUME WallIInv, NEW r \in WallRequests, NEW p \in Polls, VotePoll(r, p)
  PROVE  WallIInv'
<1> DEFINE new == [op |-> "vote", poll |-> p, read |-> tally[p]]
<1> DEFINE races == IF \E q \in InWall({"vote"}) : wallRequest[q].poll = p THEN {"votes"} ELSE {}
<1>1. WallStateTyped /\ VotesAreBounded
  BY DEF WallIInv
<1>2. new \in WallWork /\ new.op = "vote" /\ new.poll = p /\ new.read = tally[p]
  BY <1>1 DEF WallWork, WallStateTyped
<1>3. WallBegins(r, new, races) /\ UNCHANGED <<comment, graphic, poll, tally, cast>>
  BY DEF VotePoll
<1>4. races \subseteq {"votes"} /\ ("votes" \notin races => Voting(p) = {})
  BY DEF InWall, Voting
<1> HIDE DEF new, races
<1>5. /\ wallRequest[r].op = "none"
      /\ wallRequest' \in [WallRequests -> WallWork] /\ wallRequest'[r] = new
      /\ \A q \in WallRequests \ {r} : wallRequest'[q] = wallRequest[q]
      /\ wallRequests' = wallRequests + 1 /\ wallRequests' \in 0 .. MaxWall
      /\ wallRequests \in Nat /\ wallRaces' = wallRaces \cup races
  BY <1>1, <1>2, <1>3, WallBeginsEffect
<1>6. WallStateTyped'
  BY <1>1, <1>3, <1>4, <1>5 DEF WallStateTyped
<1>7. /\ Voting(p)' = Voting(p) \cup {r} /\ r \notin Voting(p)
      /\ \A k \in Polls \ {p} : Voting(k)' = Voting(k) /\ r \notin Voting(k)
  BY <1>2, <1>5 DEF Voting
<1>8. VotesAreBounded'
  <2> SUFFICES ASSUME NEW k \in Polls
               PROVE  /\ tally'[k] \in 0 .. wallRequests' /\ cast'[k] \in Nat
                      /\ IsFiniteSet(Voting(k)')
                      /\ cast'[k] + Cardinality(Voting(k)') <= wallRequests'
                      /\ \A q \in Voting(k)' : wallRequest'[q].read < wallRequests'
    BY <1>5 DEF VotesAreBounded
  <2>1. /\ tally[k] \in 0 .. wallRequests /\ cast[k] \in Nat
        /\ IsFiniteSet(Voting(k)) /\ cast[k] + Cardinality(Voting(k)) <= wallRequests
        /\ \A q \in Voting(k) : wallRequest[q].read < wallRequests
    BY <1>1 DEF VotesAreBounded
  <2>2. Cardinality(Voting(k)) \in Nat
    BY <2>1, FS_CardinalityType
  <2>3. /\ IsFiniteSet(Voting(k)')
        /\ Cardinality(Voting(k)') \in {Cardinality(Voting(k)), Cardinality(Voting(k)) + 1}
    <3>1. CASE k = p
      BY <1>7, <2>1, <3>1, FS_AddElement
    <3>2. CASE k # p
      BY <1>7, <2>1, <3>2
    <3> QED  BY <3>1, <3>2
  <2>4. cast'[k] + Cardinality(Voting(k)') <= wallRequests'
    BY <1>3, <1>5, <2>1, <2>2, <2>3
  <2>5. tally'[k] \in 0 .. wallRequests' /\ cast'[k] \in Nat
    BY <1>3, <1>5, <2>1
  <2>6. ASSUME NEW q \in Voting(k)'  PROVE wallRequest'[q].read < wallRequests'
    <3>1. CASE q = r
      <4>1. k = p
        BY <1>7, <2>6, <3>1
      <4>2. wallRequest'[q].read = tally[k] /\ tally[k] \in 0 .. wallRequests
        BY <1>2, <1>5, <2>1, <3>1, <4>1
      <4> QED  BY <1>5, <4>2
    <3>2. CASE q # r
      <4>1. q \in Voting(k) /\ wallRequest'[q] = wallRequest[q]
        BY <1>5, <1>7, <2>6, <3>2 DEF Voting
      <4>2. wallRequest[q].read \in Nat
        BY <1>1, <4>1, WallWorkFields DEF Voting, WallStateTyped
      <4> QED  BY <1>5, <2>1, <4>1, <4>2
    <3> QED  BY <3>1, <3>2
  <2> QED  BY <2>3, <2>4, <2>5, <2>6
<1>9. ASSUME "votes" \notin wallRaces'  PROVE TalliesAgree'
  <2>1. TalliesAgree /\ Voting(p) = {}
    BY <1>4, <1>5, <1>9 DEF WallIInv
  <2>2. ASSUME NEW k \in Polls
        PROVE  /\ \A q \in Voting(k)' : wallRequest'[q].read = tally'[k]
               /\ \A q, s \in Voting(k)' : q = s
    <3>1. CASE k = p
      BY <1>2, <1>3, <1>5, <1>7, <2>1, <3>1
    <3>2. CASE k # p
      BY <1>3, <1>5, <1>7, <2>1, <3>2 DEF TalliesAgree, Voting
    <3> QED  BY <3>1, <3>2
  <2> QED  BY <1>3, <2>1, <2>2 DEF TalliesAgree
<1>10. "comments" \notin wallRaces' => CommentsAgree'
  BY <1>2, <1>3, <1>5, CommentsStay DEF WallIInv
<1>11. "polls" \notin wallRaces' => ActiveAgrees'
  BY <1>2, <1>3, <1>5, ActiveStays DEF WallIInv
<1> QED  BY <1>6, <1>8, <1>9, <1>10, <1>11 DEF WallIInv

\* A comment comes in, or a request fails: nothing goes on air.
LEMMA WallQuietStep ==
  ASSUME WallIInv, NEW r \in WallRequests, StoresComment(r) \/ WallRequestFails(r)
  PROVE  WallIInv'
<1>1. /\ WallStateTyped /\ VotesAreBounded /\ WallEnds(r)
      /\ UNCHANGED <<graphic, poll, tally, cast, wallRaces, wallRequests>>
  BY DEF WallIInv, StoresComment, WallRequestFails
<1>2. /\ wallRequest' \in [WallRequests -> WallWork] /\ wallRequest'[r].op = "none"
      /\ \A q \in WallRequests \ {r} : wallRequest'[q] = wallRequest[q]
  BY <1>1, WallEndsEffect
<1>3. /\ comment' \in [Comments -> CommentStatus \cup {"none"}]
      /\ \A m \in Comments : comment'[m] = "ON_AIR" => comment[m] = "ON_AIR"
  <2>1. comment \in [Comments -> CommentStatus \cup {"none"}]
    BY <1>1 DEF WallStateTyped
  <2>2. CASE comment' = comment
    BY <2>1, <2>2
  <2>3. CASE comment' # comment
    <3>1. StoresComment(r)
      BY <2>3 DEF WallRequestFails
    <3>2. \E status \in {"PENDING", "REJECTED"} :
            comment' = [comment EXCEPT ![wallRequest[r].comment] = status]
      BY <2>3, <3>1 DEF StoresComment
    <3> QED  BY <2>1, <3>2 DEF CommentStatus
  <2> QED  BY <2>2, <2>3
<1>4. WallStateTyped'
  BY <1>1, <1>2, <1>3 DEF WallStateTyped
<1>5. VotesAreBounded' /\ ("votes" \notin wallRaces' => TalliesAgree')
  BY <1>1, <1>2, WallVotesKept, WallRequestsKept
<1>6. ASSUME "comments" \notin wallRaces'  PROVE CommentsAgree'
  <2>1. CommentsAgree
    BY <1>1, <1>6 DEF WallIInv
  <2>2. PutsOnAir' \subseteq PutsOnAir /\ OnAir' \subseteq OnAir
    BY <1>2, <1>3 DEF PutsOnAir, OnAir
  <2> QED  BY <1>1, <2>1, <2>2 DEF CommentsAgree
<1>7. "polls" \notin wallRaces' => ActiveAgrees'
  BY <1>1, <1>2, ActiveStays DEF WallIInv
<1> QED  BY <1>4, <1>5, <1>6, <1>7 DEF WallIInv

LEMMA SetsStatusStep ==
  ASSUME WallIInv, NEW r \in WallRequests, SetsStatusOf(r)
  PROVE  WallIInv'
<1>1. /\ WallStateTyped /\ wallRequest[r] \in WallWork /\ wallRequest[r].op = "status"
      /\ WallEnds(r) /\ UNCHANGED <<poll, tally, cast, wallRaces, wallRequests>>
  BY DEF WallIInv, WallStateTyped, SetsStatusOf
<1>2. PICK m \in Comments, status \in CommentStatus :
        m = wallRequest[r].comment /\ status = wallRequest[r].status
  BY <1>1, WallWorkFields
<1>3. /\ comment' = [comment EXCEPT ![m] = status]
      /\ graphic' = IF status = "ON_AIR" THEN m ELSE NoComment
  BY <1>2 DEF SetsStatusOf
<1>4. /\ wallRequest' \in [WallRequests -> WallWork] /\ wallRequest'[r].op = "none"
      /\ \A q \in WallRequests \ {r} : wallRequest'[q] = wallRequest[q]
  BY <1>1, WallEndsEffect
<1>5. WallStateTyped'
  BY <1>1, <1>3, <1>4 DEF WallStateTyped
<1>6. VotesAreBounded' /\ ("votes" \notin wallRaces' => TalliesAgree')
  BY <1>1, <1>4, WallVotesKept, WallRequestsKept
<1>7. ASSUME "comments" \notin wallRaces'  PROVE CommentsAgree'
  <2>1. CommentsAgree
    BY <1>1, <1>7 DEF WallIInv
  <2>2. PutsOnAir' \subseteq PutsOnAir \ {r}
    BY <1>4 DEF PutsOnAir
  <2>3. CASE status = "ON_AIR"
    <3>1. r \in PutsOnAir
      BY <1>1, <1>2, <2>3 DEF PutsOnAir
    <3>2. OnAir = {} /\ PutsOnAir' = {}
      BY <2>1, <2>2, <3>1 DEF CommentsAgree
    <3>3. OnAir' \subseteq {m}
      BY <1>1, <1>3, <3>2 DEF OnAir, WallStateTyped
    <3> QED  BY <1>3, <2>3, <3>2, <3>3 DEF CommentsAgree
  <2>4. CASE status # "ON_AIR"
    <3>1. OnAir' \subseteq OnAir
      BY <1>1, <1>3, <2>4 DEF OnAir, WallStateTyped
    <3> QED  BY <1>3, <2>1, <2>2, <2>4, <3>1 DEF CommentsAgree
  <2> QED  BY <2>3, <2>4
<1>8. "polls" \notin wallRaces' => ActiveAgrees'
  BY <1>1, <1>4, ActiveStays DEF WallIInv
<1> QED  BY <1>5, <1>6, <1>7, <1>8 DEF WallIInv

LEMMA OpensPollStep ==
  ASSUME WallIInv, NEW r \in WallRequests, OpensPoll(r)
  PROVE  WallIInv'
<1>1. /\ WallStateTyped /\ wallRequest[r].op = "poll"
      /\ WallEnds(r) /\ UNCHANGED <<comment, graphic, tally, cast, wallRaces, wallRequests>>
  BY DEF WallIInv, OpensPoll
<1>2. PICK p \in Polls : poll' = [poll EXCEPT ![p] = "active"]
  BY DEF OpensPoll
<1>3. /\ wallRequest' \in [WallRequests -> WallWork] /\ wallRequest'[r].op = "none"
      /\ \A q \in WallRequests \ {r} : wallRequest'[q] = wallRequest[q]
  BY <1>1, WallEndsEffect
<1>4. WallStateTyped'
  BY <1>1, <1>2, <1>3 DEF WallStateTyped
<1>5. VotesAreBounded' /\ ("votes" \notin wallRaces' => TalliesAgree')
  BY <1>1, <1>3, WallVotesKept, WallRequestsKept
<1>6. "comments" \notin wallRaces' => CommentsAgree'
  BY <1>1, <1>3, CommentsStay DEF WallIInv
<1>7. ASSUME "polls" \notin wallRaces'  PROVE ActiveAgrees'
  <2>1. ActiveAgrees /\ r \in InWall({"poll"})
    BY <1>1, <1>7 DEF WallIInv, InWall
  <2>2. ActivePolls = {} /\ InWall({"poll"})' = {}
    BY <1>3, <2>1 DEF ActiveAgrees, InWall
  <2>3. ActivePolls' \subseteq {p}
    BY <1>1, <1>2, <2>2 DEF ActivePolls, WallStateTyped
  <2> QED  BY <2>2, <2>3 DEF ActiveAgrees
<1> QED  BY <1>4, <1>5, <1>6, <1>7 DEF WallIInv

LEMMA CountsVoteStep ==
  ASSUME WallIInv, NEW r \in WallRequests, CountsVote(r)
  PROVE  WallIInv'
<1>1. /\ WallStateTyped /\ VotesAreBounded /\ wallRequest[r].op = "vote"
      /\ wallRequest[r] \in WallWork
      /\ WallEnds(r) /\ UNCHANGED <<comment, graphic, poll, wallRaces, wallRequests>>
  BY DEF WallIInv, WallStateTyped, CountsVote
<1>2. PICK p \in Polls, n \in Nat : p = wallRequest[r].poll /\ n = wallRequest[r].read
  BY <1>1, WallWorkFields
<1>3. tally' = [tally EXCEPT ![p] = n + 1] /\ cast' = [cast EXCEPT ![p] = cast[p] + 1]
  BY <1>2 DEF CountsVote
<1>4. /\ wallRequest' \in [WallRequests -> WallWork] /\ wallRequest'[r].op = "none"
      /\ \A q \in WallRequests \ {r} : wallRequest'[q] = wallRequest[q]
  BY <1>1, WallEndsEffect
<1>5. n + 1 \in Nat /\ cast[p] + 1 \in Nat
  BY <1>1 DEF WallStateTyped
<1>6. WallStateTyped'
  BY <1>1, <1>3, <1>4, <1>5 DEF WallStateTyped
<1>7. /\ r \in Voting(p) /\ Voting(p)' = Voting(p) \ {r}
      /\ \A k \in Polls \ {p} : Voting(k)' = Voting(k) /\ r \notin Voting(k)
  BY <1>1, <1>2, <1>4 DEF Voting
<1>8. /\ tally'[p] = n + 1 /\ cast'[p] = cast[p] + 1
      /\ \A k \in Polls \ {p} : tally'[k] = tally[k] /\ cast'[k] = cast[k]
  BY <1>1, <1>3 DEF WallStateTyped
<1>9. VotesAreBounded'
  <2>1. wallRequests \in 0 .. MaxWall /\ wallRequests' = wallRequests /\ wallRequests \in Nat
    BY <1>1, WallAssumption DEF VotesAreBounded
  <2> SUFFICES ASSUME NEW k \in Polls
               PROVE  /\ tally'[k] \in 0 .. wallRequests' /\ cast'[k] \in Nat
                      /\ IsFiniteSet(Voting(k)')
                      /\ cast'[k] + Cardinality(Voting(k)') <= wallRequests'
                      /\ \A q \in Voting(k)' : wallRequest'[q].read < wallRequests'
    BY <2>1 DEF VotesAreBounded
  <2>2. /\ tally[k] \in 0 .. wallRequests /\ cast[k] \in Nat
        /\ IsFiniteSet(Voting(k)) /\ cast[k] + Cardinality(Voting(k)) <= wallRequests
        /\ \A q \in Voting(k) : wallRequest[q].read < wallRequests
    BY <1>1 DEF VotesAreBounded
  <2>3. \A q \in Voting(k)' : q \in Voting(k) /\ wallRequest'[q] = wallRequest[q]
    BY <1>4, <1>7 DEF Voting
  <2>4. \A q \in Voting(k)' : wallRequest'[q].read < wallRequests'
    BY <2>1, <2>2, <2>3
  <2>5. CASE k = p
    <3>1. /\ IsFiniteSet(Voting(k)') /\ Cardinality(Voting(k)') = Cardinality(Voting(k)) - 1
          /\ Cardinality(Voting(k)) \in Nat
      BY <1>7, <2>2, <2>5, FS_RemoveElement, FS_CardinalityType
    <3>2. cast'[k] = cast[k] + 1 /\ tally'[k] = n + 1 /\ n < wallRequests
      BY <1>2, <1>7, <1>8, <2>2, <2>5
    <3>3. cast'[k] \in Nat /\ cast'[k] + Cardinality(Voting(k)') <= wallRequests'
      BY <2>1, <2>2, <3>1, <3>2
    <3>4. tally'[k] \in 0 .. wallRequests'
      BY <1>2, <2>1, <3>2
    <3> QED  BY <2>4, <3>1, <3>3, <3>4
  <2>6. CASE k # p
    BY <1>7, <1>8, <2>1, <2>2, <2>4, <2>6
  <2> QED  BY <2>5, <2>6
<1>10. ASSUME "votes" \notin wallRaces'  PROVE TalliesAgree'
  <2>1. TalliesAgree
    BY <1>1, <1>10 DEF WallIInv
  <2>2. tally'[p] = cast'[p] /\ Voting(p)' = {}
    <3>1. n = tally[p] /\ tally[p] = cast[p] /\ \A q \in Voting(p) : q = r
      BY <1>2, <1>7, <2>1 DEF TalliesAgree
    <3> QED  BY <1>7, <1>8, <3>1
  <2>3. ASSUME NEW k \in Polls \ {p}
        PROVE  /\ tally'[k] = cast'[k]
               /\ \A q \in Voting(k)' : wallRequest'[q].read = tally'[k]
               /\ \A q, s \in Voting(k)' : q = s
    BY <1>4, <1>7, <1>8, <2>1 DEF TalliesAgree, Voting
  <2> QED  BY <2>2, <2>3 DEF TalliesAgree
<1>11. "comments" \notin wallRaces' => CommentsAgree'
  BY <1>1, <1>4, CommentsStay DEF WallIInv
<1>12. "polls" \notin wallRaces' => ActiveAgrees'
  BY <1>1, <1>4, ActiveStays DEF WallIInv
<1> QED  BY <1>6, <1>9, <1>10, <1>11, <1>12 DEF WallIInv

LEMMA ClosePollStep ==
  ASSUME WallIInv, NEW p \in Polls, ClosePoll(p)
  PROVE  WallIInv'
<1>1. /\ WallStateTyped /\ poll' = [poll EXCEPT ![p] = "closed"]
      /\ wallRequests < MaxWall /\ wallRequests' = wallRequests + 1
      /\ UNCHANGED <<comment, graphic, tally, wallRequest, cast, wallRaces>>
  BY DEF WallIInv, ClosePoll
<1>2. /\ poll' \in [Polls -> {"none", "active", "closed"}]
      /\ \A k \in Polls : poll'[k] = "active" => poll[k] = "active"
  BY <1>1 DEF WallStateTyped
<1>3. WallStateTyped'
  BY <1>1, <1>2 DEF WallStateTyped
<1>4. wallRequests' \in 0 .. MaxWall
  BY <1>1, WallAssumption DEF WallIInv, VotesAreBounded
<1>5. VotesAreBounded' /\ ("votes" \notin wallRaces' => TalliesAgree')
  BY <1>1, <1>4, WallVotesKept DEF WallStateTyped
<1>6. "comments" \notin wallRaces' => CommentsAgree'
  BY <1>1, CommentsStay DEF WallIInv
<1>7. "polls" \notin wallRaces' => ActiveAgrees'
  BY <1>1, <1>2, ActiveStays DEF WallIInv
<1> QED  BY <1>3, <1>5, <1>6, <1>7 DEF WallIInv

\* The inductive invariant of the wall.
THEOREM WallInvariance == WallSpec => []WallIInv
<1>1. WallInit => WallIInv
  <2> SUFFICES ASSUME WallInit  PROVE WallIInv
    OBVIOUS
  <2>1. /\ PutsOnAir = {} /\ OnAir = {} /\ ActivePolls = {} /\ InWall({"poll"}) = {}
        /\ \A p \in Polls : Voting(p) = {}
    BY DEF WallInit, NoWallRequest, PutsOnAir, OnAir, ActivePolls, InWall, Voting
  <2>2. WallStateTyped
    BY DEF WallInit, WallStateTyped, NoWallRequest, WallWork
  <2>3. VotesAreBounded
    <3>1. IsFiniteSet({}) /\ Cardinality({}) = 0
      BY FS_EmptySet
    <3> QED  BY <2>1, <3>1, WallAssumption DEF WallInit, VotesAreBounded
  <2> QED  BY <2>1, <2>2, <2>3 DEF WallIInv, WallInit, CommentsAgree, ActiveAgrees, TalliesAgree
<1>2. WallIInv /\ [WallNext]_wallVars => WallIInv'
  <2> SUFFICES ASSUME WallIInv, [WallNext]_wallVars  PROVE WallIInv'
    OBVIOUS
  <2>1. ASSUME NEW r \in WallRequests, NEW m \in Comments, IngestMessage(r, m)
        PROVE  WallIInv'
    BY <2>1, IngestStep
  <2>2. ASSUME NEW r \in WallRequests, NEW m \in Comments, NEW status \in CommentStatus,
               UpdateMessageStatus(r, m, status)
        PROVE  WallIInv'
    BY <2>2, UpdateStatusStep
  <2>3. ASSUME NEW r \in WallRequests,
               \/ StoresComment(r) \/ SetsStatusOf(r) \/ CreatePoll(r) \/ OpensPoll(r)
               \/ CountsVote(r) \/ WallRequestFails(r)
        PROVE  WallIInv'
    BY <2>3, WallQuietStep, SetsStatusStep, CreatePollStep, OpensPollStep, CountsVoteStep
  <2>4. ASSUME NEW r \in WallRequests, NEW p \in Polls, VotePoll(r, p)
        PROVE  WallIInv'
    BY <2>4, VotePollStep
  <2>5. ASSUME NEW p \in Polls, ClosePoll(p)
        PROVE  WallIInv'
    BY <2>5, ClosePollStep
  <2>6. CASE UNCHANGED wallVars
    <3>1. /\ PutsOnAir' = PutsOnAir /\ OnAir' = OnAir /\ ActivePolls' = ActivePolls
          /\ InWall({"poll"})' = InWall({"poll"})
          /\ \A p \in Polls : Voting(p)' = Voting(p)
      BY <2>6 DEF wallVars, PutsOnAir, OnAir, ActivePolls, InWall, Voting
    <3> QED  BY <2>6, <3>1 DEF wallVars, WallIInv, WallStateTyped, VotesAreBounded, CommentsAgree,
                ActiveAgrees, TalliesAgree
  <2> QED  BY <2>1, <2>2, <2>3, <2>4, <2>5, <2>6 DEF WallNext
<1> QED  BY <1>1, <1>2, PTL DEF WallSpec

\* The types of comments and polls; a tally never exceeds the votes that were begun.
THEOREM WallTyped == WallSpec => []WallTypeOK
<1>1. ASSUME WallIInv  PROVE WallTypeOK
  <2>1. WallStateTyped /\ VotesAreBounded /\ wallRequests \in Nat /\ wallRequests <= MaxWall
    BY <1>1, WallAssumption DEF WallIInv, VotesAreBounded
  <2>2. ASSUME NEW p \in Polls  PROVE tally[p] \in 0 .. MaxWall /\ cast[p] \in 0 .. MaxWall
    <3>1. /\ tally[p] \in 0 .. wallRequests /\ cast[p] \in Nat
          /\ Cardinality(Voting(p)) \in Nat /\ cast[p] + Cardinality(Voting(p)) <= wallRequests
      BY <2>1, FS_CardinalityType DEF VotesAreBounded
    <3> QED  BY <2>1, <3>1, WallAssumption
  <2>3. tally \in [Polls -> 0 .. MaxWall] /\ cast \in [Polls -> 0 .. MaxWall]
    BY <2>1, <2>2 DEF WallStateTyped
  <2> QED  BY <2>1, <2>3 DEF WallStateTyped, WallTypeOK
<1> QED  BY <1>1, WallInvariance, PTL

LEMMA AtMostOne ==
  ASSUME NEW S, \A x, y \in S : x = y
  PROVE  Cardinality(S) <= 1
<1>1. CASE S = {}
  BY <1>1, FS_EmptySet
<1>2. CASE S # {}
  <2>1. PICK x \in S : S = {x}
    BY <1>2
  <2> QED  BY <2>1, FS_Singleton
<1> QED  BY <1>1, <1>2

\* One comment and one poll at most are on air, the graphics show that comment or none, and
\* the tally counts the votes, each unless two requests met.
THEOREM WallIsConsistent == WallSpec => []WallAgrees
<1>1. ASSUME WallIInv  PROVE WallAgrees
  <2>1. OneCommentOnAir
    BY <1>1, AtMostOne DEF WallIInv, CommentsAgree, OneCommentOnAir
  <2>2. "polls" \notin wallRaces => Cardinality(ActivePolls) <= 1
    BY <1>1, AtMostOne DEF WallIInv, ActiveAgrees
  <2>3. "votes" \notin wallRaces => tally = cast
    BY <1>1 DEF WallIInv, WallStateTyped, TalliesAgree
  <2> QED  BY <2>1, <2>2, <2>3 DEF PollsAgree, WallAgrees
<1> QED  BY <1>1, WallInvariance, PTL

-----------------------------------------------------------------------------
(***************************************************************************)
(* What is broadcast: an action property of Presence.                      *)
(*                                                                         *)
(* That a production hears of a socket that goes, or of a command, needs   *)
(* where sockets are associated: with the production they are in last, and *)
(* with each whose room they are in.                                       *)
(***************************************************************************)
\* A socket is associated with the production it is in last, and with those of its rooms.
Associated ==
  \A s \in Sockets, p \in Productions :
    /\ s \in productionToSockets[p] =>
         current[s] \in Productions /\ s \in productionToSockets[current[s]]
    /\ s \in room[p] => s \in productionToSockets[p]

LEMMA AssociatedStep ==
  ASSUME PresenceTypeOK, Associated, PresenceNext
  PROVE  Associated'
<1>1. ASSUME UNCHANGED <<current, productionToSockets>>,
             \A p \in Productions : room'[p] \subseteq room[p]
      PROVE  Associated'
  BY <1>1 DEF Associated
<1>2. ASSUME NEW s \in Sockets, NEW p \in Productions, Enters(s, p),
             \A q \in Productions : productionToSockets'[q]
                                      = productionToSockets[q] \cup IF q = p THEN {s} ELSE {}
      PROVE  Associated'
  <2>1. /\ current'[s] = p /\ \A t \in Sockets \ {s} : current'[t] = current[t]
        /\ room'[p] \subseteq room[p] \cup {s}
        /\ \A q \in Productions \ {p} : room'[q] = room[q]
    BY <1>2 DEF Enters, PresenceTypeOK
  <2> SUFFICES ASSUME NEW t \in Sockets, NEW q \in Productions
               PROVE  /\ t \in productionToSockets'[q] =>
                           current'[t] \in Productions /\ t \in productionToSockets'[current'[t]]
                      /\ t \in room'[q] => t \in productionToSockets'[q]
    BY DEF Associated
  <2>2. CASE t = s
    BY <1>2, <2>1, <2>2 DEF Associated
  <2>3. CASE t # s
    <3>1. t \in productionToSockets'[q] <=> t \in productionToSockets[q]
      BY <1>2, <2>3
    <3>2. t \in productionToSockets[q] => t \in productionToSockets'[current[t]]
                                          /\ current[t] \in Productions
      BY <1>2 DEF Associated
    <3> QED  BY <2>1, <2>3, <3>1, <3>2 DEF Associated
  <2> QED  BY <2>2, <2>3
<1>3. ASSUME NEW s \in Sockets, Goes(s)  PROVE Associated'
  <2>1. /\ current' = current
        /\ \A p \in Productions : /\ room'[p] = room[p] \ {s}
                                  /\ productionToSockets'[p] = productionToSockets[p] \ {s}
    BY <1>3 DEF Goes, RemovePresence
  <2> QED  BY <2>1 DEF Associated
<1>4. ASSUME NEW s \in Sockets, NEW p \in Productions \cup {None},
             Connects(s, p) \/ SetsStatus(s, p) \/ Disconnects(s) \/ Heartbeats(s)
      PROVE  Associated'
  <2>1. CASE Disconnects(s)
    BY <1>3, <2>1 DEF Disconnects
  <2>2. CASE ~Disconnects(s)
    <3>1. UNCHANGED <<current, productionToSockets, room>>
      BY <1>4, <2>2 DEF Connects, SetsStatus, Heartbeats, StatusesChange
    <3> QED  BY <1>1, <3>1
  <2> QED  BY <2>1, <2>2
<1>5. ASSUME NEW s \in Sockets, NEW p \in Productions \cup {None}, Identifies(s, p)
      PROVE  Associated'
  <2>1. CASE p = None
    <3>1. /\ UNCHANGED <<room, current>>
          /\ \A q \in Productions : productionToSockets'[q] = productionToSockets[q]
      BY <1>5, <2>1 DEF Identifies, UpsertPresence
    <3> QED  BY <3>1 DEF Associated
  <2>2. CASE p # None
    <3>1. p \in Productions /\ Enters(s, p) /\ UpsertPresence(s, {p})
      <4>1. {p} \ {None} = {p}
        BY <2>2
      <4> QED  BY <1>5, <2>2, <4>1 DEF Identifies
    <3>2. \A q \in Productions : productionToSockets'[q]
                                   = productionToSockets[q] \cup IF q = p THEN {s} ELSE {}
      BY <3>1 DEF UpsertPresence
    <3> QED  BY <1>2, <3>1, <3>2
  <2> QED  BY <2>1, <2>2
<1>6. ASSUME NEW s \in Sockets, NEW p \in Productions,
             \/ ConnectionIsRecorded(s, p) \/ ConnectionIsRefused(s, p)
             \/ Joins(s, p) \/ JoinIsRecorded(s, p) \/ JoinIsRefused(s, p) \/ Leaves(s, p)
      PROVE  Associated'
  <2>1. CASE ConnectionIsRecorded(s, p)
    <3>1. /\ Enters(s, p)
          /\ \A q \in Productions : productionToSockets'[q]
                                      = productionToSockets[q] \cup IF q = p THEN {s} ELSE {}
      BY <2>1 DEF ConnectionIsRecorded, UpsertPresence
    <3> QED  BY <1>2, <3>1
  <2>2. CASE JoinIsRecorded(s, p)
    <3>1. /\ Enters(s, p)
          /\ \A q \in Productions : productionToSockets'[q]
                                      = productionToSockets[q] \cup IF q = p THEN {s} ELSE {}
      BY <2>2 DEF JoinIsRecorded, PresenceTypeOK
    <3> QED  BY <1>2, <3>1
  <2>3. CASE Goes(s)
    BY <1>3, <2>3
  <2>4. CASE (ConnectionIsRefused(s, p) /\ ~Goes(s)) \/ Joins(s, p) \/ JoinIsRefused(s, p)
             \/ Leaves(s, p)
    <3>1. /\ UNCHANGED <<current, productionToSockets>>
          /\ \A q \in Productions : room'[q] \subseteq room[q]
      BY <2>4 DEF ConnectionIsRefused, Joins, JoinIsRefused, Leaves, PresenceTypeOK
    <3> QED  BY <1>1, <3>1
  <2> QED  BY <1>6, <2>1, <2>2, <2>3, <2>4
<1>7. CASE \/ \E ss \in SUBSET Sockets : CleanUp(ss)
           \/ \E p \in Productions, targets \in SUBSET Sockets : CommandIsSent(p, targets)
           \/ \E u \in Users : GraceExpires(u)
  <2>1. UNCHANGED <<current, productionToSockets, room>>
    BY <1>7 DEF CleanUp, CommandIsSent, GraceExpires, StatusesChange
  <2> QED  BY <1>1, <2>1
<1>8. CASE GatewayRestarts
  BY <1>8 DEF GatewayRestarts, Associated
<1> QED  BY <1>4, <1>5, <1>6, <1>7, <1>8 DEF PresenceNext

\* Where a recorded socket is, the rooms lead to.
LEMMA SocketsAreAssociated == PresenceSpec => []Associated
<1>1. PresenceInit => Associated
  BY DEF PresenceInit, Associated
<1>2. PresenceTypeOK /\ Associated /\ [PresenceNext]_presenceVars => Associated'
  <2>1. Associated /\ UNCHANGED presenceVars => Associated'
    BY DEF Associated, presenceVars
  <2> QED  BY <2>1, AssociatedStep
<1> QED  BY <1>1, <1>2, PresenceTyped, PTL DEF PresenceSpec

LEMMA ToldIsBroadcast ==
  ASSUME NEW ps, NEW p \in Productions \cap ps, BroadcastsTo(ps)
  PROVE  told'[p] = Members(p)'
<1> HIDE DEF Members
<1> QED  BY DEF BroadcastsTo

\* A list is a matter of the recorded sockets of the production, and of who it waits for.
LEMMA MembersKept ==
  ASSUME NEW p \in Productions,
         \A s \in Sockets :
           /\ s \in productionToSockets'[p] /\ activeSockets'[s] # None
                <=> s \in productionToSockets[p] /\ activeSockets[s] # None
           /\ s \in productionToSockets[p] /\ activeSockets[s] # None
                => activeSockets'[s] = activeSockets[s],
         \A u \in Users : reconnecting'[u].production = p <=> reconnecting[u].production = p
  PROVE  Members(p)' = Members(p)
<1>1. ASSUME NEW u \in Users
      PROVE  {activeSockets'[s] : s \in productionToSockets'[p] \cap SocketsOf(u)'}
               = {activeSockets[s] : s \in productionToSockets[p] \cap SocketsOf(u)}
  <2>1. productionToSockets'[p] \cap SocketsOf(u)' = productionToSockets[p] \cap SocketsOf(u)
    BY DEF SocketsOf
  <2>2. \A s \in productionToSockets[p] \cap SocketsOf(u) : activeSockets'[s] = activeSockets[s]
    BY DEF SocketsOf
  <2> QED  BY <2>1, <2>2
<1> QED  BY <1>1 DEF Members

\* A socket goes: the production it is in last is told; another can only have lost it.
LEMMA GoesIsBroadcast ==
  ASSUME PresenceTypeOK, Associated, NEW s \in Sockets, Goes(s), NEW p \in Productions,
         Members(p)' # Members(p)
  PROVE  \/ told'[p] = Members(p)'
         \/ InSeveral(s) /\ activeSockets'[s] # activeSockets[s]
<1>1. /\ BroadcastsTo({current[s]} \ {None}) /\ RemovePresence(s)
      /\ activeSockets' = [activeSockets EXCEPT ![s] = None]
      /\ productionToSockets'[p] = productionToSockets[p] \ {s}
      /\ p # None /\ UserOf[s] \in Users
  BY PresenceAssumption DEF Goes, RemovePresence
<1>2. CASE p = current[s]
  BY <1>1, <1>2, ToldIsBroadcast
<1>3. CASE p # current[s] /\ s \in productionToSockets[p] /\ activeSockets[s] # None
  <2>1. current[s] \in Productions /\ s \in productionToSockets[current[s]]
    BY <1>3 DEF Associated
  <2>2. InSeveral(s)
    BY <1>3, <2>1 DEF InSeveral
  <2>3. activeSockets'[s] = None
    BY <1>1 DEF PresenceTypeOK
  <2> QED  BY <1>3, <2>2, <2>3
<1>4. CASE s \notin productionToSockets[p] \/ activeSockets[s] = None
  <2>1. \A t \in Sockets : activeSockets'[t] = IF t = s THEN None ELSE activeSockets[t]
    BY <1>1 DEF PresenceTypeOK
  <2>2. \A t \in Sockets :
          /\ t \in productionToSockets'[p] /\ activeSockets'[t] # None
               <=> t \in productionToSockets[p] /\ activeSockets[t] # None
          /\ t \in productionToSockets[p] /\ activeSockets[t] # None
               => activeSockets'[t] = activeSockets[t]
    BY <1>1, <1>4, <2>1
  <2>3. ASSUME NEW u \in Users
        PROVE  reconnecting'[u].production = p <=> reconnecting[u].production = p
    <3>1. CASE SocketsOf(UserOf[s]) = {s} /\ u = UserOf[s]
      <4>1. s \notin productionToSockets[p] /\ reconnecting[u] = NoGrace
        BY <1>4, <3>1 DEF SocketsOf, PresenceTypeOK
      <4>2. PICK waiting \in {q \in Productions : s \in productionToSockets[q]} \cup {None} :
              reconnecting' = [reconnecting EXCEPT ![UserOf[s]] = [production |-> waiting]]
        BY <1>1, <3>1 DEF RemovePresence
      <4>3. reconnecting'[u].production = waiting /\ waiting # p
        BY <1>1, <3>1, <4>1, <4>2 DEF PresenceTypeOK
      <4>4. reconnecting[u].production # p
        BY <4>1, PresenceAssumption DEF NoGrace
      <4> QED  BY <4>3, <4>4
    <3>2. CASE SocketsOf(UserOf[s]) = {s} /\ u # UserOf[s]
      <4>1. PICK waiting :
              reconnecting' = [reconnecting EXCEPT ![UserOf[s]] = [production |-> waiting]]
        BY <1>1, <3>2 DEF RemovePresence
      <4> QED  BY <3>2, <4>1 DEF PresenceTypeOK
    <3>3. CASE SocketsOf(UserOf[s]) # {s}
      BY <1>1, <3>3 DEF RemovePresence
    <3> QED  BY <3>1, <3>2, <3>3
  <2> QED  BY <2>2, <2>3, MembersKept
<1> QED  BY <1>2, <1>3, <1>4

\* A status or a timer changes: the production is told, or a socket of several has changed.
LEMMA StatusIsBroadcast ==
  ASSUME PresenceTypeOK, Associated, NEW p \in Productions, Members(p)' # Members(p),
         \/ \E ss \in SUBSET Sockets : CleanUp(ss)
         \/ \E q \in Productions, targets \in SUBSET Sockets : CommandIsSent(q, targets)
         \/ \E u \in Users : GraceExpires(u)
  PROVE  \/ told'[p] = Members(p)'
         \/ \E s \in Sockets : InSeveral(s) /\ activeSockets'[s] # activeSockets[s]
<1>1. ASSUME NEW ss \in SUBSET Sockets, CleanUp(ss)
      PROVE  told'[p] = Members(p)'
  <2>1. productionToSockets' = productionToSockets /\ reconnecting' = reconnecting
    BY <1>1 DEF CleanUp, StatusesChange
  <2>2. CASE productionToSockets[p] = {}
    BY <2>1, <2>2, MembersKept
  <2>3. CASE productionToSockets[p] # {}
    <3>1. BroadcastsTo({q \in Productions : productionToSockets[q] # {}})
      BY <1>1 DEF CleanUp
    <3> QED  BY <2>3, <3>1, ToldIsBroadcast
  <2> QED  BY <2>2, <2>3
<1>2. ASSUME NEW q \in Productions, NEW targets \in SUBSET Sockets, CommandIsSent(q, targets)
      PROVE  \/ told'[p] = Members(p)'
             \/ \E s \in Sockets : InSeveral(s) /\ activeSockets'[s] # activeSockets[s]
  <2>1. CASE p = q
    BY <1>2, <2>1, ToldIsBroadcast DEF CommandIsSent
  <2>2. CASE p # q
    <3>1. /\ productionToSockets' = productionToSockets /\ reconnecting' = reconnecting
          /\ \A s \in Sockets : activeSockets'[s] =
               IF s \in targets /\ activeSockets[s] # None THEN "BUSY" ELSE activeSockets[s]
      BY <1>2 DEF CommandIsSent, StatusesChange
    <3>2. PICK s \in Sockets : s \in productionToSockets[p] /\ activeSockets'[s] # activeSockets[s]
      BY <3>1, MembersKept, NoneIsNoStatus DEF Status
    <3>3. s \in room[q]
      BY <1>2, <3>1, <3>2 DEF CommandIsSent
    <3>4. s \in productionToSockets[q]
      BY <3>3 DEF Associated
    <3> QED  BY <2>2, <3>2, <3>4 DEF InSeveral
  <2> QED  BY <2>1, <2>2
<1>3. ASSUME NEW u \in Users, GraceExpires(u)
      PROVE  told'[p] = Members(p)'
  <2>1. /\ reconnecting' = [reconnecting EXCEPT ![u] = NoGrace]
        /\ UNCHANGED <<activeSockets, productionToSockets>>
        /\ BroadcastsTo({reconnecting[u].production} \ {None})
    BY <1>3 DEF GraceExpires
  <2>2. p # None /\ NoGrace.production # p
    BY PresenceAssumption DEF NoGrace
  <2>3. CASE reconnecting[u].production = p
    BY <2>1, <2>2, <2>3, ToldIsBroadcast
  <2>4. CASE reconnecting[u].production # p
    <3>1. \A v \in Users : reconnecting'[v].production = p <=> reconnecting[v].production = p
      BY <2>1, <2>2, <2>4 DEF PresenceTypeOK
    <3> QED  BY <2>1, <3>1, MembersKept
  <2> QED  BY <2>3, <2>4
<1> QED  BY <1>1, <1>2, <1>3

\* A production hears of every change of its list, but for the four the code does not tell.
THEOREM ChangesAreTold == PresenceSpec => ChangesAreBroadcast
<1> DEFINE Accounted(p) ==
      \/ told'[p] = Members(p)'
      \/ \E s \in Sockets : Heartbeats(s)
      \/ \E s \in Sockets, q \in (Productions \cup {None}) \ {p} :
           RecordedFor(s, q) \/ SetsStatus(s, q)
      \/ \E s \in Sockets : InSeveral(s) /\ activeSockets'[s] # activeSockets[s]
      \/ GatewayRestarts
<1>1. ASSUME PresenceTypeOK, Associated, PresenceNext, NEW p \in Productions,
             Members(p)' # Members(p)
      PROVE  Accounted(p)
  <2>1. ASSUME UNCHANGED <<activeSockets, productionToSockets, reconnecting>>  PROVE FALSE
    BY <1>1, <2>1, MembersKept
  <2>2. ASSUME NEW s \in Sockets, NEW q \in Productions \cup {None}, Connects(s, q)
        PROVE  FALSE
    BY <2>1, <2>2 DEF Connects
  <2>3. ASSUME NEW s \in Sockets, NEW q \in Productions \cup {None},
               Identifies(s, q) \/ SetsStatus(s, q)
        PROVE  Accounted(p)
    <3>1. CASE q = p
      <4>1. BroadcastsTo({p} \ {None}) /\ p # None
        BY <2>3, <3>1, PresenceAssumption DEF Identifies, SetsStatus
      <4> QED  BY <4>1, ToldIsBroadcast
    <3>2. CASE q # p
      BY <2>3, <3>2 DEF RecordedFor
    <3> QED  BY <3>1, <3>2
  <2>4. ASSUME NEW s \in Sockets, Goes(s)  PROVE Accounted(p)
    BY <1>1, <2>4, GoesIsBroadcast
  <2>5. ASSUME NEW s \in Sockets, NEW q \in Productions, ConnectionIsRecorded(s, q)
        PROVE  Accounted(p)
    <3>1. CASE q = p
      BY <2>5, <3>1, ToldIsBroadcast DEF ConnectionIsRecorded
    <3>2. CASE q # p
      BY <2>5, <3>2 DEF RecordedFor
    <3> QED  BY <3>1, <3>2
  <2>6. ASSUME NEW s \in Sockets, NEW q \in Productions, JoinIsRecorded(s, q)
        PROVE  Accounted(p)
    <3>1. CASE q = p
      BY <2>6, <3>1, ToldIsBroadcast DEF JoinIsRecorded
    <3>2. CASE q # p
      <4>1. /\ UNCHANGED <<activeSockets, reconnecting>>
            /\ productionToSockets'[p] = productionToSockets[p]
        BY <2>6, <3>2 DEF JoinIsRecorded, PresenceTypeOK
      <4> QED  BY <1>1, <4>1, MembersKept
    <3> QED  BY <3>1, <3>2
  <2>7. ASSUME NEW s \in Sockets, NEW q \in Productions,
               (ConnectionIsRefused(s, q) /\ ~Goes(s)) \/ Joins(s, q) \/ JoinIsRefused(s, q)
               \/ Leaves(s, q)
        PROVE  FALSE
    BY <2>1, <2>7 DEF ConnectionIsRefused, Joins, JoinIsRefused, Leaves
  <2>8. CASE \/ \E ss \in SUBSET Sockets : CleanUp(ss)
             \/ \E q \in Productions, targets \in SUBSET Sockets : CommandIsSent(q, targets)
             \/ \E u \in Users : GraceExpires(u)
    BY <1>1, <2>8, StatusIsBroadcast
  <2> HIDE DEF Accounted
  <2>9. CASE (\E s \in Sockets : Heartbeats(s)) \/ GatewayRestarts
    BY <2>9 DEF Accounted
  <2>10. ASSUME NEW s \in Sockets, Disconnects(s)  PROVE Accounted(p)
    BY <2>4, <2>10 DEF Disconnects
  <2> QED  BY <1>1, <2>2, <2>3, <2>4, <2>5, <2>6, <2>7, <2>8, <2>9, <2>10 DEF PresenceNext
<1>2. PresenceTypeOK /\ Associated /\ [PresenceNext]_presenceVars
        => [\A p \in Productions : Members(p)' # Members(p) => Accounted(p)]_presenceVars
  BY <1>1
<1> QED  BY <1>2, PresenceTyped, SocketsAreAssociated, PTL DEF PresenceSpec, ChangesAreBroadcast

-----------------------------------------------------------------------------
(***************************************************************************)
(* The composition: what each component keeps, it keeps beside the others. *)
(***************************************************************************)
\* Whichever component moves, the others stutter.
LEMMA RoomImplementsComponents ==
  RoomSpec => /\ PresenceSpec /\ AccountSpec /\ SignInSpec /\ ChatSpec
              /\ WallSpec /\ IntercomSpec /\ CallSpec /\ PinSpec
<1>1. RoomInit => /\ PresenceInit /\ AccountInit /\ SignInInit /\ ChatInit
                  /\ WallInit /\ IntercomInit /\ CallInit /\ PinInit
  BY DEF RoomInit
<1>2. [RoomNext]_roomVars => /\ [PresenceNext]_presenceVars /\ [AccountNext]_accountVars
                             /\ [SignInNext]_signInVars /\ [ChatNext]_chatVars
                             /\ [WallNext]_wallVars /\ [IntercomNext]_intercomVars
                             /\ [CallNext]_callVars /\ [PinNext]_pinVars
  BY DEF RoomNext, NextOf, roomVars
<1> QED  BY <1>1, <1>2, PTL DEF RoomSpec, PresenceSpec, AccountSpec, SignInSpec, ChatSpec, WallSpec,
            IntercomSpec, CallSpec, PinSpec

\* The types of the state of every component, in the composition that is model-checked.
THEOREM RoomTyped == RoomSpec => []RoomTypeOK
<1>1. ASSUME PresenceTypeOK, AccountTypeOK, SignInTypeOK, ChatTypeOK,
             WallTypeOK, IntercomTypeOK, CallTypeOK, PinTypeOK
      PROVE  RoomTypeOK
  BY <1>1 DEF RoomTypeOK
<1> QED  BY <1>1, RoomImplementsComponents, PresenceTyped, AccountTyped, SignInTyped, RestreamTyped,
            WallTyped, IntercomTyped, CallTyped, PinsTyped, PTL

\* Every property of the components holds in the composition.
THEOREM RoomIsSafe ==
  RoomSpec => /\ [](AccountsAgree /\ SignInAgrees /\ OneChatConnection /\ WallAgrees)
              /\ [](TemplatesAreSeeded /\ RecordingStaysOwned /\ PinsAreToggled)
              /\ ChangesAreBroadcast /\ RosterIsKept
  BY RoomImplementsComponents, AccountsAreInOneWorkspace, SignInsAgree, ChatHasOneSocket,
     WallIsConsistent, DefaultsAreSeeded, RecordingIsOwned, NoToggleIsLost, ChangesAreTold,
     RosterIsImplemented, PTL
=============================================================================
