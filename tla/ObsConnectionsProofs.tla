------------------------ MODULE ObsConnectionsProofs ------------------------
(***************************************************************************)
(* Proofs about ObsConnections, for any set of productions, connections    *)
(* and instances.  Each procedure of the manager is shown to preserve      *)
(* ManagerInv, a predicate of the manager's memory; an action is then one  *)
(* or two of these procedures in a row.                                    *)
(***************************************************************************)
EXTENDS ObsConnections, TLAPS

(***************************************************************************)
(* The inductive invariant.  Linked: an entry of the store is an object of *)
(* its own connection.  OnlyStoredActs: a timer or a socket that can still *)
(* act belongs to an object in the store, which is why nothing comes back  *)
(* after a teardown.  UpHasSocket: a stored connection that is up still    *)
(* has the socket whose closing schedules its reconnect.                   *)
(***************************************************************************)
Linked(s) ==
  \A c \in Conns :
    s.connections[c] # None => /\ s.inst[s.connections[c]].conn = c
                               /\ s.inst[s.connections[c]].phase # "unused"

OnlyStoredActs(s) ==
  \A i \in Instances :
    s.inst[i].timer # None \/ s.inst[i].open =>
      /\ s.inst[i].conn \in Conns
      /\ s.connections[s.inst[i].conn] = i

PendingHasConn(s) ==
  \A i \in Instances : s.inst[i].phase # "unused" => s.inst[i].conn \in Conns

Mapped(s) ==
  \A c \in Conns : s.connections[c] # None => c \in s.productionMap[Owner[c]]

UpHasSocket(s) ==
  \A c \in Conns :
    s.connections[c] # None /\ s.inst[s.connections[c]].isConnected =>
      s.inst[s.connections[c]].open

RunningIsWatched(s) ==
  \A c \in Conns :
    s.connections[c] # None /\ s.inst[s.connections[c]].phase = "running" =>
      s.inst[s.connections[c]].heartbeat

Served(s, c) ==
  s.connections[c] # None =>
    \/ s.inst[s.connections[c]].phase = "connecting"
    \/ s.inst[s.connections[c]].timer # None
    \/ s.inst[s.connections[c]].open

ManagerInv(s) ==
  /\ s \in Manager
  /\ Linked(s)
  /\ OnlyStoredActs(s)
  /\ PendingHasConn(s)
  /\ Mapped(s)
  /\ UpHasSocket(s)
  /\ RunningIsWatched(s)

AllServed(s) == \A c \in Conns : Served(s, c)

IInv == TypeOK /\ ManagerInv(mgr) /\ AllServed(mgr)

USE DEF Linked, OnlyStoredActs, PendingHasConn, Mapped, UpHasSocket,
        RunningIsWatched

LEMMA UnusedType == Unused \in ObsInstance
BY ConstantsAssumption DEF Unused, ObsInstance, NoConfig, Config, Phase

LEMMA NewInstanceType ==
  ASSUME NEW c \in Conns, NEW cfg \in Config
  PROVE  /\ NewInstance(c, cfg) \in ObsInstance
         /\ NewInstance(c, cfg).conn = c
         /\ NewInstance(c, cfg).timer = None
         /\ NewInstance(c, cfg).phase = "connecting"
         /\ ~NewInstance(c, cfg).open
         /\ ~NewInstance(c, cfg).isConnected
BY ConstantsAssumption DEF NewInstance, Unused, ObsInstance, NoConfig, Config, Phase

LEMMA ReleasedType ==
  ASSUME NEW o \in ObsInstance
  PROVE  /\ Released(o) \in ObsInstance
         /\ Released(o).timer = None
         /\ ~Released(o).open
         /\ Released(o).phase \in {o.phase, "unused"}
         /\ Released(o).phase # "unused" => Released(o).conn = o.conn
<1>1. CASE Pending(o)
  BY <1>1, ConstantsAssumption DEF Released, ObsInstance, Pending
<1>2. CASE ~Pending(o)
  BY <1>2, UnusedType DEF Released, Unused
<1> QED BY <1>1, <1>2

\* Tearing a stored connection down keeps the invariant.
LEMMA TeardownPreserves ==
  ASSUME NEW s, ManagerInv(s), NEW c \in Conns, s.connections[c] # None
  PROVE  LET t == TeardownInstance(s, c)
         IN /\ ManagerInv(t)
            /\ t.connections = [s.connections EXCEPT ![c] = None]
            /\ t.inst = [s.inst EXCEPT ![s.connections[c]] = Released(@)]
            /\ t.productionMap = s.productionMap
<1> DEFINE e == s.connections[c]
           t == TeardownInstance(s, c)
<1>0. s \in Manager /\ e \in Instances /\ s.inst[e] \in ObsInstance
  BY DEF ManagerInv, Manager
<1>1. /\ t.connections = [s.connections EXCEPT ![c] = None]
      /\ t.inst = [s.inst EXCEPT ![e] = Released(s.inst[e])]
      /\ t.productionMap = s.productionMap
      /\ t.primaryMap = s.primaryMap
      /\ t.announced = s.announced
  BY <1>0 DEF TeardownInstance, Manager
<1>2. t \in Manager
  BY <1>0, <1>1, ReleasedType DEF TeardownInstance, Manager
<1>3. \A d \in Conns : t.connections[d] # None =>
        /\ d # c
        /\ t.connections[d] = s.connections[d]
        /\ s.connections[d] \in Instances
        /\ s.connections[d] # e
        /\ t.inst[t.connections[d]] = s.inst[s.connections[d]]
  BY <1>0, <1>1 DEF ManagerInv, Manager
<1>4. Linked(t) /\ Mapped(t) /\ UpHasSocket(t) /\ RunningIsWatched(t)
  BY <1>1, <1>3 DEF ManagerInv
<1>5. OnlyStoredActs(t) /\ PendingHasConn(t)
  <2> SUFFICES ASSUME NEW i \in Instances
               PROVE  /\ t.inst[i].timer # None \/ t.inst[i].open =>
                           /\ t.inst[i].conn \in Conns
                           /\ t.connections[t.inst[i].conn] = i
                      /\ t.inst[i].phase # "unused" => t.inst[i].conn \in Conns
    OBVIOUS
  <2>1. CASE i = e
    BY <2>1, <1>0, <1>1, ReleasedType DEF ManagerInv, Manager
  <2>2. CASE i # e
    <3>1. t.inst[i] = s.inst[i]
      BY <2>2, <1>0, <1>1 DEF Manager
    <3>2. s.inst[i].timer # None \/ s.inst[i].open => s.inst[i].conn # c
      BY <2>2 DEF ManagerInv
    <3> QED BY <3>1, <3>2, <1>0, <1>1 DEF ManagerInv, Manager
  <2> QED BY <2>1, <2>2
<1> QED BY <1>1, <1>2, <1>4, <1>5 DEF ManagerInv

\* Scheduling a reconnect keeps the invariant, even when called for an instance
\* that has just lost its attempt or its socket, and serves the connection.
LEMMA SchedulePreserves ==
  ASSUME NEW s, ManagerInv(s), NEW c \in Conns, NEW cfg \in Config
  PROVE  LET t == ScheduleReconnect(s, c, cfg)
         IN /\ ManagerInv(t)
            /\ Served(t, c)
            /\ \A d \in Conns : Served(s, d) => Served(t, d)
            /\ t.connections = s.connections
<1> DEFINE e == s.connections[c]
           t == ScheduleReconnect(s, c, cfg)
<1>1. CASE e = None \/ s.inst[e].timer # None
  BY <1>1 DEF ScheduleReconnect, Served
<1>2. CASE e # None /\ s.inst[e].timer = None
  <2>0. /\ s \in Manager /\ e \in Instances /\ s.inst[e] \in ObsInstance
        /\ cfg # None
    BY <1>2, ConstantsAssumption DEF ManagerInv, Manager, Config
  <2>1. t = [s EXCEPT !.inst[e].timer = cfg]
    BY <1>2 DEF ScheduleReconnect
  <2>2. /\ t.connections = s.connections
        /\ t.productionMap = s.productionMap
        /\ t.primaryMap = s.primaryMap
        /\ t.announced = s.announced
        /\ t.inst = [s.inst EXCEPT ![e] = [s.inst[e] EXCEPT !.timer = cfg]]
    BY <2>0, <2>1 DEF Manager
  <2>3. /\ t.inst[e] \in ObsInstance
        /\ t.inst[e].timer = cfg
        /\ t.inst[e].conn = s.inst[e].conn
        /\ t.inst[e].phase = s.inst[e].phase
        /\ t.inst[e].open = s.inst[e].open
        /\ t.inst[e].isConnected = s.inst[e].isConnected
        /\ t.inst[e].heartbeat = s.inst[e].heartbeat
    BY <2>0, <2>2 DEF Manager, ObsInstance
  <2>4. \A i \in Instances : i # e => t.inst[i] = s.inst[i]
    BY <2>0, <2>2 DEF Manager
  <2>5. t \in Manager
    BY <2>0, <2>1, <2>2, <2>3 DEF Manager
  <2>6. \A d \in Conns : s.connections[d] # None => s.connections[d] \in Instances
    BY <2>0 DEF Manager
  <2> HIDE DEF t
  <2>7. Linked(t) /\ Mapped(t) /\ UpHasSocket(t) /\ RunningIsWatched(t)
    <3>1. \A i \in Instances :
            /\ t.inst[i].conn = s.inst[i].conn
            /\ t.inst[i].phase = s.inst[i].phase
            /\ t.inst[i].open = s.inst[i].open
            /\ t.inst[i].isConnected = s.inst[i].isConnected
            /\ t.inst[i].heartbeat = s.inst[i].heartbeat
      BY <2>3, <2>4
    <3> QED BY <2>2, <2>6, <3>1 DEF ManagerInv
  <2>8. OnlyStoredActs(t) /\ PendingHasConn(t)
    <3>1. s.inst[e].conn = c
      BY <1>2 DEF ManagerInv
    <3>2. \A i \in Instances : t.inst[i].conn = s.inst[i].conn /\ t.inst[i].phase = s.inst[i].phase
      BY <2>3, <2>4
    <3>3. PendingHasConn(t)
      BY <3>2 DEF ManagerInv
    <3>4. t.inst[e].conn \in Conns /\ t.connections[t.inst[e].conn] = e
      BY <3>1, <2>2, <2>3
    <3>5. OnlyStoredActs(t)
      BY <3>4, <2>2, <2>4 DEF ManagerInv
    <3> QED BY <3>3, <3>5
  <2>9. \A d \in Conns : Served(s, d) => Served(t, d)
    BY <2>0, <2>2, <2>3, <2>4, <2>6 DEF Served
  <2>10. Served(t, c)
    BY <2>0, <2>2, <2>3 DEF Served
  <2> QED BY <2>2, <2>5, <2>7, <2>8, <2>9, <2>10 DEF ManagerInv, t
<1> QED BY <1>1, <1>2

\* Connecting keeps the invariant and serves the connection, whether the request
\* is skipped or a new object takes over.
LEMMA ConnectPreserves ==
  ASSUME NEW s, ManagerInv(s), NEW c \in Conns, NEW cfg \in Config,
         NEW isPrimary \in BOOLEAN, NEW i \in Free(s)
  PROVE  LET t == ConnectObsById(s, c, cfg, isPrimary, i)
         IN /\ ManagerInv(t)
            /\ Served(t, c)
            /\ \A d \in Conns : Served(s, d) => Served(t, d)
            /\ \A d \in Conns : d # c => t.connections[d] = s.connections[d]
            /\ \A j \in Free(s) : j # i => j \in Free(t)
<1> DEFINE t == ConnectObsById(s, c, cfg, isPrimary, i)
           u == IF s.connections[c] = None THEN s ELSE TeardownInstance(s, c)
           p == Owner[c]
<1>0. /\ s \in Manager /\ i \in Instances /\ p \in Productions
      /\ \A d \in Conns : s.connections[d] # i
  BY ConstantsAssumption DEF ManagerInv, Free, Stored
<1>1. CASE AlreadyServed(s, c, cfg)
  <2>1. t = s
    BY <1>1 DEF ConnectObsById
  <2>2. Served(s, c)
    BY <1>1 DEF AlreadyServed, Served, ManagerInv
  <2> QED BY <2>1, <2>2
<1>2. CASE ~AlreadyServed(s, c, cfg)
  <2>1. /\ ManagerInv(u)
        /\ u.connections = [s.connections EXCEPT ![c] = None]
        /\ \A j \in Instances :
             (\A d \in Conns : s.connections[d] # j) => u.inst[j] = s.inst[j]
        /\ \A d \in Conns : d # c /\ s.connections[d] # None =>
             u.inst[s.connections[d]] = s.inst[s.connections[d]]
    <3>1. CASE s.connections[c] = None
      BY <3>1, <1>0 DEF Manager
    <3>2. CASE s.connections[c] # None
      <4>1. \A d \in Conns : d # c /\ s.connections[d] # None =>
              s.connections[d] # s.connections[c]
        BY <3>2 DEF ManagerInv
      <4>2. u = TeardownInstance(s, c)
        BY <3>2
      <4>3. /\ ManagerInv(u)
            /\ u.connections = [s.connections EXCEPT ![c] = None]
            /\ u.inst = [s.inst EXCEPT ![s.connections[c]] = Released(@)]
        BY <3>2, <4>2, TeardownPreserves
      <4> HIDE DEF u
      <4> QED BY <4>1, <4>3, <1>0 DEF Manager
    <3> QED BY <3>1, <3>2
  <2>2. t = [u EXCEPT !.productionMap[p] = @ \cup {c},
                      !.primaryMap[p] = IF isPrimary THEN c ELSE @,
                      !.connections[c] = i,
                      !.inst[i] = NewInstance(c, cfg)]
    BY <1>2 DEF ConnectObsById
  <2>3. u \in Manager
    BY <2>1 DEF ManagerInv
  <2>4. /\ t.connections = [u.connections EXCEPT ![c] = i]
        /\ t.inst = [u.inst EXCEPT ![i] = NewInstance(c, cfg)]
        /\ t.productionMap = [u.productionMap EXCEPT ![p] = @ \cup {c}]
        /\ t.primaryMap = [u.primaryMap EXCEPT ![p] = IF isPrimary THEN c ELSE @]
        /\ t.announced = u.announced
        /\ t = [connections |-> t.connections, inst |-> t.inst,
                productionMap |-> t.productionMap,
                primaryMap |-> t.primaryMap, announced |-> t.announced]
    BY <2>2, <2>3 DEF Manager
  <2> HIDE DEF t, u
  <2>5. /\ t.inst[i] = NewInstance(c, cfg)
        /\ t.connections[c] = i
        /\ \A j \in Instances : j # i => t.inst[j] = u.inst[j]
        /\ \A d \in Conns : d # c => t.connections[d] = s.connections[d]
        /\ \A d \in Conns : d # c => t.connections[d] = u.connections[d]
    BY <2>1, <2>3, <2>4, <1>0 DEF Manager
  <2>6. \A d \in Conns : c # d /\ t.connections[d] # None =>
          t.connections[d] \in Instances \ {i}
    BY <2>5, <1>0 DEF Manager
  <2>7. t \in Manager
    <3>1. t.productionMap \in [Productions -> SUBSET Conns]
      BY <2>3, <2>4, <1>0 DEF Manager
    <3>2. t.primaryMap \in [Productions -> Conns \cup {None}]
      BY <2>3, <2>4, <1>0 DEF Manager
    <3>3. /\ t.connections \in [Conns -> Instances \cup {None}]
          /\ t.inst \in [Instances -> ObsInstance]
          /\ t.announced \in [Productions -> BOOLEAN]
      BY <2>3, <2>4, <1>0, NewInstanceType DEF Manager
    <3> QED BY <2>4, <3>1, <3>2, <3>3 DEF Manager
  <2>8. Linked(t) /\ UpHasSocket(t) /\ RunningIsWatched(t)
    BY <2>1, <2>5, <2>6, NewInstanceType DEF ManagerInv
  <2>9. Mapped(t)
    <3>1. \A q \in Productions : u.productionMap[q] \subseteq t.productionMap[q]
      BY <2>3, <2>4 DEF Manager
    <3>2. c \in t.productionMap[p]
      BY <2>3, <2>4, <1>0 DEF Manager
    <3> QED BY <2>1, <2>5, <3>1, <3>2, ConstantsAssumption DEF ManagerInv
  <2>10. OnlyStoredActs(t) /\ PendingHasConn(t)
    <3> SUFFICES ASSUME NEW j \in Instances
                 PROVE  /\ t.inst[j].timer # None \/ t.inst[j].open =>
                             /\ t.inst[j].conn \in Conns
                             /\ t.connections[t.inst[j].conn] = j
                        /\ t.inst[j].phase # "unused" => t.inst[j].conn \in Conns
      OBVIOUS
    <3>1. CASE j = i
      BY <3>1, <2>5, NewInstanceType
    <3>2. CASE j # i
      <4>1. t.inst[j] = u.inst[j]
        BY <3>2, <2>5
      <4>2. u.connections[c] = None
        BY <2>1, <1>0 DEF Manager
      <4>3. u.inst[j].timer # None \/ u.inst[j].open =>
              /\ u.inst[j].conn \in Conns
              /\ u.connections[u.inst[j].conn] = j
              /\ u.inst[j].conn # c
        BY <4>2, <2>1, ConstantsAssumption DEF ManagerInv
      <4> QED BY <4>1, <4>3, <2>1, <2>5 DEF ManagerInv
    <3> QED BY <3>1, <3>2
  <2>11. Served(t, c)
    BY <2>5, NewInstanceType DEF Served
  <2>12. \A d \in Conns : Served(s, d) => Served(t, d)
    BY <2>1, <2>5, <2>6, <2>11 DEF Served
  <2>13. \A j \in Free(s) : j # i => j \in Free(t)
    BY <2>1, <2>5 DEF Free, Stored
  <2> QED BY <2>5, <2>7, <2>8, <2>9, <2>10, <2>11, <2>12, <2>13 DEF ManagerInv, t
<1> QED BY <1>1, <1>2

\* A turn that changes one object only keeps the invariant when the object's new
\* value respects it.
LEMMA ObjectChangePreserves ==
  ASSUME NEW s, ManagerInv(s), NEW i \in Instances, NEW t \in Manager,
         t.connections = s.connections,
         t.productionMap = s.productionMap,
         \A j \in Instances : j # i => t.inst[j] = s.inst[j],
         t.inst[i].phase # "unused" => t.inst[i].conn \in Conns,
         t.inst[i].timer # None \/ t.inst[i].open =>
           t.inst[i].conn \in Conns /\ s.connections[t.inst[i].conn] = i,
         Stored(s, i) => /\ t.inst[i].conn = s.inst[i].conn
                         /\ t.inst[i].phase # "unused"
                         /\ t.inst[i].isConnected => t.inst[i].open
                         /\ t.inst[i].phase = "running" => t.inst[i].heartbeat
  PROVE  /\ ManagerInv(t)
         /\ \A d \in Conns : s.connections[d] # i => (Served(s, d) => Served(t, d))
         /\ \A j \in Free(s) : j # i => j \in Free(t)
<1>1. \A d \in Conns : s.connections[d] # None => s.connections[d] \in Instances
  BY DEF ManagerInv, Manager
<1>2. \A d \in Conns : s.connections[d] # None /\ s.connections[d] # i =>
        t.inst[t.connections[d]] = s.inst[s.connections[d]]
  BY <1>1
<1>3. \A d \in Conns : s.connections[d] = i => Stored(s, i)
  BY DEF Stored
<1>4. Linked(t) /\ UpHasSocket(t) /\ RunningIsWatched(t)
  <2> SUFFICES ASSUME NEW d \in Conns, t.connections[d] # None
               PROVE  LET o == t.inst[t.connections[d]]
                      IN /\ o.conn = d
                         /\ o.phase # "unused"
                         /\ o.isConnected => o.open
                         /\ o.phase = "running" => o.heartbeat
    OBVIOUS
  <2>1. CASE s.connections[d] = i
    BY <2>1, <1>3 DEF ManagerInv
  <2>2. CASE s.connections[d] # i
    BY <2>2, <1>2 DEF ManagerInv
  <2> QED BY <2>1, <2>2
<1>5. Mapped(t)
  BY DEF ManagerInv
<1>6. OnlyStoredActs(t) /\ PendingHasConn(t)
  BY DEF ManagerInv
<1>7. \A d \in Conns : s.connections[d] # i => (Served(s, d) => Served(t, d))
  BY <1>2 DEF Served
<1>8. \A j \in Free(s) : j # i => j \in Free(t)
  BY DEF Free, Stored
<1> QED BY <1>4, <1>5, <1>6, <1>7, <1>8 DEF ManagerInv

\* Clearing the timer of an object, as its callback and manualReconnect do first.
LEMMA ClearTimerPreserves ==
  ASSUME NEW s, ManagerInv(s), NEW i \in Instances
  PROVE  LET t == [s EXCEPT !.inst[i].timer = None]
         IN /\ ManagerInv(t)
            /\ t.connections = s.connections
            /\ \A d \in Conns : s.connections[d] # i => (Served(s, d) => Served(t, d))
            /\ \A j \in Free(s) : j \in Free(t)
<1> DEFINE t == [s EXCEPT !.inst[i].timer = None]
<1>0. s \in Manager /\ s.inst[i] \in ObsInstance
  BY DEF ManagerInv, Manager
<1>1. /\ t \in Manager
      /\ t.connections = s.connections
      /\ t.productionMap = s.productionMap
      /\ \A j \in Instances : j # i => t.inst[j] = s.inst[j]
      /\ t.inst[i] = [s.inst[i] EXCEPT !.timer = None]
  BY <1>0 DEF Manager, ObsInstance
<1>2. /\ t.inst[i].timer = None
      /\ t.inst[i].conn = s.inst[i].conn
      /\ t.inst[i].phase = s.inst[i].phase
      /\ t.inst[i].open = s.inst[i].open
      /\ t.inst[i].isConnected = s.inst[i].isConnected
      /\ t.inst[i].heartbeat = s.inst[i].heartbeat
  BY <1>0, <1>1 DEF ObsInstance
<1> HIDE DEF t
<1>3. Stored(s, i) => /\ s.inst[i].phase # "unused"
                      /\ s.inst[i].isConnected => s.inst[i].open
                      /\ s.inst[i].phase = "running" => s.inst[i].heartbeat
  BY ConstantsAssumption DEF ManagerInv, Stored
<1>4. /\ ManagerInv(t)
      /\ \A d \in Conns : s.connections[d] # i => (Served(s, d) => Served(t, d))
      /\ \A j \in Free(s) : j # i => j \in Free(t)
  <2>1. /\ t.inst[i].phase # "unused" => t.inst[i].conn \in Conns
        /\ t.inst[i].timer # None \/ t.inst[i].open =>
             t.inst[i].conn \in Conns /\ s.connections[t.inst[i].conn] = i
    BY <1>2 DEF ManagerInv
  <2> QED BY <1>1, <1>2, <1>3, <2>1, ObjectChangePreserves
<1>5. i \in Free(s) => i \in Free(t)
  BY <1>1, <1>2 DEF Free, Stored, Pending
<1> QED BY <1>1, <1>4, <1>5 DEF t

\* manualReconnect keeps the invariant and forgets no connection.
LEMMA ManualReconnectPreserves ==
  ASSUME NEW s, ManagerInv(s), NEW c \in Conns, NEW i \in Free(s)
  PROVE  LET t == ManualReconnect(s, c, i)
         IN /\ ManagerInv(t)
            /\ \A d \in Conns : Served(s, d) => Served(t, d)
            /\ \A d \in Conns : d # c => t.connections[d] = s.connections[d]
            /\ \A j \in Free(s) : j # i => j \in Free(t)
<1> DEFINE e == s.connections[c]
           u == [s EXCEPT !.inst[e].timer = None]
           t == ManualReconnect(s, c, i)
<1>1. CASE e = None
  BY <1>1 DEF ManualReconnect
<1>2. CASE e # None
  <2>1. e \in Instances /\ s.inst[e].cfg \in Config
    BY <1>2 DEF ManagerInv, Manager, ObsInstance
  <2>2. /\ ManagerInv(u)
        /\ u.connections = s.connections
        /\ \A d \in Conns : s.connections[d] # e => (Served(s, d) => Served(u, d))
        /\ \A j \in Free(s) : j \in Free(u)
    BY <2>1, ClearTimerPreserves
  <2>3. t = ConnectObsById(u, c, s.inst[e].cfg, TRUE, i)
    BY <1>2 DEF ManualReconnect
  <2> HIDE DEF u, t
  <2>4. /\ ManagerInv(t)
        /\ Served(t, c)
        /\ \A d \in Conns : Served(u, d) => Served(t, d)
        /\ \A d \in Conns : d # c => t.connections[d] = u.connections[d]
        /\ \A j \in Free(u) : j # i => j \in Free(t)
    <3> DEFINE cfg == s.inst[e].cfg
               yes == TRUE
    <3>1. i \in Free(u) /\ cfg \in Config /\ yes \in BOOLEAN
      BY <2>1, <2>2
    <3>2. t = ConnectObsById(u, c, cfg, yes, i)
      BY <2>3
    <3> HIDE DEF cfg, yes
    <3> QED BY <2>2, <3>1, <3>2, ConnectPreserves
  <2>5. \A d \in Conns : s.connections[d] = e => d = c
    BY <1>2 DEF ManagerInv
  <2> QED BY <2>2, <2>4, <2>5 DEF t
<1> QED BY <1>1, <1>2

\* disconnectObs keeps the invariant: the connections of the production leave the
\* store with everything that could bring them back.
LEMMA DisconnectPreserves ==
  ASSUME NEW s, ManagerInv(s), NEW p \in Productions
  PROVE  LET t == DisconnectObs(s, p)
         IN /\ ManagerInv(t)
            /\ \A d \in Conns : Served(s, d) => Served(t, d)
            /\ \A d \in Conns : t.connections[d] # None =>
                                  t.connections[d] = s.connections[d]
<1> DEFINE gone == s.productionMap[p]
           t == DisconnectObs(s, p)
           hit(i) == \E c \in gone : s.connections[c] = i
<1>0. s \in Manager /\ gone \subseteq Conns
  BY DEF ManagerInv, Manager
<1>1. /\ t.connections = [c \in Conns |-> IF c \in gone THEN None
                                                       ELSE s.connections[c]]
      /\ t.inst = [i \in Instances |-> IF hit(i) THEN Released(s.inst[i])
                                                ELSE s.inst[i]]
      /\ t.productionMap = [s.productionMap EXCEPT ![p] = {}]
      /\ t.primaryMap = [s.primaryMap EXCEPT ![p] = None]
      /\ t.announced = [s.announced EXCEPT ![p] = FALSE]
      /\ t = [connections |-> t.connections, inst |-> t.inst,
              productionMap |-> t.productionMap,
              primaryMap |-> t.primaryMap, announced |-> t.announced]
  <2>1. s = [connections |-> s.connections, inst |-> s.inst,
             productionMap |-> s.productionMap,
             primaryMap |-> s.primaryMap, announced |-> s.announced]
    BY <1>0 DEF Manager
  <2> DEFINE conns == [c \in Conns |-> IF c \in gone THEN None ELSE s.connections[c]]
             insts == [i \in Instances |-> IF hit(i) THEN Released(s.inst[i])
                                                     ELSE s.inst[i]]
  <2>2. t = [s EXCEPT !.connections = conns, !.inst = insts,
                      !.productionMap[p] = {}, !.primaryMap[p] = None,
                      !.announced[p] = FALSE]
    BY DEF DisconnectObs
  <2> HIDE DEF conns, insts, t
  <2>3. /\ t.connections = conns
        /\ t.inst = insts
        /\ t.productionMap = [s.productionMap EXCEPT ![p] = {}]
        /\ t.primaryMap = [s.primaryMap EXCEPT ![p] = None]
        /\ t.announced = [s.announced EXCEPT ![p] = FALSE]
        /\ t = [connections |-> t.connections, inst |-> t.inst,
                productionMap |-> t.productionMap,
                primaryMap |-> t.primaryMap, announced |-> t.announced]
    BY <2>1, <2>2
  <2> QED BY <2>3 DEF conns, insts
<1> HIDE DEF t
<1>2. t \in Manager
  <2>1. t.inst \in [Instances -> ObsInstance]
    BY <1>0, <1>1, ReleasedType DEF Manager
  <2>2. /\ t.connections \in [Conns -> Instances \cup {None}]
        /\ t.productionMap \in [Productions -> SUBSET Conns]
        /\ t.primaryMap \in [Productions -> Conns \cup {None}]
        /\ t.announced \in [Productions -> BOOLEAN]
    BY <1>0, <1>1 DEF Manager
  <2> QED BY <1>1, <2>1, <2>2 DEF Manager
<1>3. \A d \in Conns : t.connections[d] # None =>
        /\ t.connections[d] = s.connections[d]
        /\ d \notin gone
        /\ s.connections[d] \in Instances
        /\ t.inst[t.connections[d]] = s.inst[s.connections[d]]
  <2> SUFFICES ASSUME NEW d \in Conns, t.connections[d] # None
               PROVE  /\ t.connections[d] = s.connections[d]
                      /\ d \notin gone
                      /\ s.connections[d] \in Instances
                      /\ t.inst[t.connections[d]] = s.inst[s.connections[d]]
    OBVIOUS
  <2>1. /\ t.connections[d] = s.connections[d]
        /\ d \notin gone
        /\ s.connections[d] \in Instances
    BY <1>0, <1>1 DEF Manager
  <2>2. ~hit(s.connections[d])
    BY <2>1, <1>0, ConstantsAssumption DEF ManagerInv
  <2> QED BY <1>1, <2>1, <2>2
<1>4. Linked(t) /\ UpHasSocket(t) /\ RunningIsWatched(t)
  BY <1>3 DEF ManagerInv
<1>5. Mapped(t)
  <2> SUFFICES ASSUME NEW d \in Conns, t.connections[d] # None
               PROVE  d \in t.productionMap[Owner[d]]
    OBVIOUS
  <2>1. d \in s.productionMap[Owner[d]] /\ d \notin gone
    BY <1>3 DEF ManagerInv
  <2>2. Owner[d] # p
    BY <2>1
  <2> QED BY <2>1, <2>2, <1>0, <1>1, ConstantsAssumption DEF Manager
<1>6. OnlyStoredActs(t) /\ PendingHasConn(t)
  <2> SUFFICES ASSUME NEW i \in Instances
               PROVE  /\ t.inst[i].timer # None \/ t.inst[i].open =>
                           /\ t.inst[i].conn \in Conns
                           /\ t.connections[t.inst[i].conn] = i
                      /\ t.inst[i].phase # "unused" => t.inst[i].conn \in Conns
    OBVIOUS
  <2>0. s.inst[i] \in ObsInstance
    BY <1>0 DEF Manager
  <2>1. CASE hit(i)
    <3>1. t.inst[i] = Released(s.inst[i])
      BY <1>1, <2>1
    <3> QED BY <3>1, <2>0, ReleasedType DEF ManagerInv
  <2>2. CASE ~hit(i)
    <3>1. t.inst[i] = s.inst[i]
      BY <1>1, <2>2
    <3>2. s.inst[i].timer # None \/ s.inst[i].open => s.inst[i].conn \notin gone
      BY <2>2 DEF ManagerInv
    <3> QED BY <3>1, <3>2, <1>1 DEF ManagerInv
  <2> QED BY <2>1, <2>2
<1>7. \A d \in Conns : Served(s, d) => Served(t, d)
  BY <1>3 DEF Served
<1> QED BY <1>2, <1>3, <1>4, <1>5, <1>6, <1>7 DEF ManagerInv, t

-----------------------------------------------------------------------------
(***************************************************************************)
(* The steps                                                               *)
(***************************************************************************)

LEMMA ConfigTypes ==
  /\ \A cfg \in Submitted : cfg \in Config /\ Encrypted(cfg) \in Config
  /\ \A cfg \in Config : Decrypted(cfg) \in Config
  /\ NoConfig \in Config
BY DEF Submitted, Config, Encrypted, Decrypted, NoConfig

\* What an engine step owes: the invariant, and no entry where there was none.
EngineGoal ==
  /\ ManagerInv(mgr')
  /\ AllServed(mgr')
  /\ \A c \in Conns : mgr.connections[c] = None => mgr'.connections[c] = None

LEMMA StoredFacts ==
  ASSUME ManagerInv(mgr), NEW i \in Instances
  PROVE  /\ mgr \in Manager
         /\ mgr.inst[i] \in ObsInstance
         /\ Stored(mgr, i) <=> /\ mgr.inst[i].conn \in Conns
                               /\ mgr.connections[mgr.inst[i].conn] = i
         /\ \A c \in Conns : mgr.connections[c] = i => c = mgr.inst[i].conn
         /\ mgr.inst[i].phase # "unused" => mgr.inst[i].conn \in Conns
         /\ Stored(mgr, i) => /\ mgr.inst[i].phase # "unused"
                              /\ mgr.inst[i].isConnected => mgr.inst[i].open
                              /\ mgr.inst[i].phase = "running" => mgr.inst[i].heartbeat
BY ConstantsAssumption DEF ManagerInv, Manager, Stored

LEMMA ConnectSucceedsStep ==
  ASSUME ManagerInv(mgr), AllServed(mgr), NEW i \in Instances, ConnectSucceeds(i)
  PROVE  EngineGoal
<1> DEFINE o == mgr.inst[i]
           n == [o EXCEPT !.isConnected = TRUE, !.timer = None,
                          !.phase = "bootstrap", !.open = Stored(mgr, i)]
<1>1. /\ o.phase = "connecting"
      /\ mgr' = [mgr EXCEPT !.inst[i] = n, !.announced[Owner[o.conn]] = TRUE]
  BY DEF ConnectSucceeds
<1>2. /\ mgr \in Manager /\ o \in ObsInstance /\ o.conn \in Conns
      /\ Stored(mgr, i) <=> mgr.connections[o.conn] = i
  BY <1>1, StoredFacts
<1>3. Stored(mgr, i) \in BOOLEAN
  BY DEF Stored
<1>4. /\ n \in ObsInstance /\ n.timer = None /\ n.phase = "bootstrap"
      /\ n.conn = o.conn /\ n.open = Stored(mgr, i)
  BY <1>2, <1>3, ConstantsAssumption DEF ObsInstance, Phase
<1> HIDE DEF n
<1>5. /\ mgr' \in Manager
      /\ mgr'.connections = mgr.connections
      /\ mgr'.productionMap = mgr.productionMap
      /\ mgr'.inst[i] = n
      /\ \A j \in Instances : j # i => mgr'.inst[j] = mgr.inst[j]
  BY <1>1, <1>2, <1>4 DEF Manager
<1>6. /\ ManagerInv(mgr')
      /\ \A d \in Conns : mgr.connections[d] # i => (Served(mgr, d) => Served(mgr', d))
  BY <1>2, <1>4, <1>5, ObjectChangePreserves
<1>7. \A d \in Conns : mgr.connections[d] = i => Served(mgr', d)
  BY <1>2, <1>4, <1>5 DEF Served, Stored
<1> QED BY <1>5, <1>6, <1>7 DEF EngineGoal, AllServed

LEMMA ConnectFailsStep ==
  ASSUME ManagerInv(mgr), AllServed(mgr), NEW i \in Instances, ConnectFails(i)
  PROVE  EngineGoal
<1> DEFINE o == mgr.inst[i]
           n == IF Stored(mgr, i) THEN [o EXCEPT !.phase = "failed"] ELSE Unused
<1>1. PICK heard \in {FALSE, Stored(mgr, i)} :
        mgr' = ScheduleReconnect(
                 [[mgr EXCEPT !.inst[i] = n] EXCEPT !.announced[Owner[o.conn]] = @ /\ ~heard],
                 o.conn, o.cfg)
  BY DEF ConnectFails
<1> DEFINE u == [[mgr EXCEPT !.inst[i] = n] EXCEPT
                    !.announced[Owner[o.conn]] = @ /\ ~heard]
<1>2. /\ mgr \in Manager /\ o \in ObsInstance /\ o.conn \in Conns /\ o.cfg \in Config
      /\ o.phase = "connecting"
      /\ Stored(mgr, i) <=> mgr.connections[o.conn] = i
  BY StoredFacts DEF ConnectFails, ObsInstance
<1>3. /\ n \in ObsInstance
      /\ Stored(mgr, i) => /\ n.phase = "failed" /\ n.conn = o.conn
                           /\ n.timer = o.timer /\ n.open = o.open
                           /\ n.isConnected = o.isConnected
      /\ ~Stored(mgr, i) => /\ n.phase = "unused" /\ n.timer = None /\ ~n.open
  BY <1>2, UnusedType DEF ObsInstance, Phase, Unused
<1> HIDE DEF n
<1>4. /\ u \in Manager
      /\ u.connections = mgr.connections
      /\ u.productionMap = mgr.productionMap
      /\ u.inst[i] = n
      /\ \A j \in Instances : j # i => u.inst[j] = mgr.inst[j]
  <2>1. (mgr.announced[Owner[o.conn]] /\ ~heard) \in BOOLEAN
    OBVIOUS
  <2> QED BY <1>2, <1>3, <2>1, ConstantsAssumption DEF Manager
<1> HIDE DEF u
<1>5. /\ ManagerInv(u)
      /\ \A d \in Conns : mgr.connections[d] # i => (Served(mgr, d) => Served(u, d))
  <2>1. n.timer # None \/ n.open => n.conn \in Conns /\ mgr.connections[n.conn] = i
    BY <1>2, <1>3
  <2>2. Stored(mgr, i) => (n.isConnected => n.open)
    BY <1>3, StoredFacts
  <2> QED BY <1>2, <1>3, <1>4, <2>1, <2>2, ObjectChangePreserves
<1>6. mgr' = ScheduleReconnect(u, o.conn, o.cfg)
  BY <1>1 DEF u
<1>7. /\ ManagerInv(mgr')
      /\ Served(mgr', o.conn)
      /\ \A d \in Conns : Served(u, d) => Served(mgr', d)
      /\ mgr'.connections = u.connections
  BY <1>2, <1>5, <1>6, SchedulePreserves
<1>8. \A d \in Conns : mgr.connections[d] = i => d = o.conn
  BY StoredFacts
<1> QED BY <1>4, <1>5, <1>7, <1>8 DEF EngineGoal, AllServed

LEMMA BootstrapEndsStep ==
  ASSUME ManagerInv(mgr), AllServed(mgr), NEW i \in Instances, BootstrapEnds(i)
  PROVE  EngineGoal
<1> DEFINE o == mgr.inst[i]
           n == [o EXCEPT !.phase = "running", !.heartbeat = TRUE]
<1>1. o.phase = "bootstrap" /\ mgr' = [mgr EXCEPT !.inst[i] = n]
  <2>1. mgr \in Manager /\ o \in ObsInstance
    BY StoredFacts
  <2>2. [mgr EXCEPT !.inst[i].phase = "running", !.inst[i].heartbeat = TRUE]
          = [mgr EXCEPT !.inst[i] = n]
    BY <2>1 DEF Manager, ObsInstance
  <2> QED BY <2>2 DEF BootstrapEnds
<1>2. /\ mgr \in Manager /\ o \in ObsInstance /\ o.conn \in Conns
  BY <1>1, StoredFacts
<1>3. /\ n \in ObsInstance /\ n.timer = o.timer /\ n.phase = "running"
      /\ n.conn = o.conn /\ n.open = o.open /\ n.heartbeat
      /\ n.isConnected = o.isConnected
  BY <1>2 DEF ObsInstance, Phase
<1> HIDE DEF n
<1>4. /\ mgr' \in Manager
      /\ mgr'.connections = mgr.connections
      /\ mgr'.productionMap = mgr.productionMap
      /\ mgr'.inst[i] = n
      /\ \A j \in Instances : j # i => mgr'.inst[j] = mgr.inst[j]
  BY <1>1, <1>2, <1>3 DEF Manager
<1>5. n.timer # None \/ n.open => n.conn \in Conns /\ mgr.connections[n.conn] = i
  BY <1>3 DEF ManagerInv
<1>6. Stored(mgr, i) => (n.isConnected => n.open)
  BY <1>3, StoredFacts
<1>7. /\ ManagerInv(mgr')
      /\ \A d \in Conns : mgr.connections[d] # i => (Served(mgr, d) => Served(mgr', d))
  BY <1>2, <1>3, <1>4, <1>5, <1>6, ObjectChangePreserves
<1>8. \A d \in Conns : mgr.connections[d] = i /\ Served(mgr, d) => Served(mgr', d)
  BY <1>1, <1>3, <1>4 DEF Served
<1> QED BY <1>4, <1>7, <1>8 DEF EngineGoal, AllServed

LEMMA ConnectionClosedStep ==
  ASSUME ManagerInv(mgr), AllServed(mgr), NEW i \in Instances, ConnectionClosed(i)
  PROVE  EngineGoal
<1> DEFINE o == mgr.inst[i]
           n == [o EXCEPT !.open = FALSE, !.isConnected = FALSE]
           u == [mgr EXCEPT !.inst[i] = n, !.announced[Owner[o.conn]] = FALSE]
<1>1. /\ mgr \in Manager /\ o \in ObsInstance /\ o.cfg \in Config /\ o.open
      /\ o.conn \in Conns /\ mgr.connections[o.conn] = i /\ Stored(mgr, i)
  BY StoredFacts DEF ConnectionClosed, ManagerInv, ObsInstance, Stored
<1>2. mgr' = ScheduleReconnect(u, o.conn, o.cfg)
  <2>1. [mgr EXCEPT !.inst[i].open = FALSE, !.inst[i].isConnected = FALSE,
                    !.announced[Owner[o.conn]] = FALSE] = u
    BY <1>1 DEF Manager, ObsInstance
  <2> QED BY <2>1 DEF ConnectionClosed
<1>3. /\ n \in ObsInstance /\ n.timer = o.timer /\ n.phase = o.phase
      /\ n.conn = o.conn /\ ~n.open /\ n.heartbeat = o.heartbeat /\ ~n.isConnected
  BY <1>1 DEF ObsInstance
<1> HIDE DEF n
<1>4. /\ u \in Manager
      /\ u.connections = mgr.connections
      /\ u.productionMap = mgr.productionMap
      /\ u.inst[i] = n
      /\ \A j \in Instances : j # i => u.inst[j] = mgr.inst[j]
  BY <1>1, <1>3 DEF Manager
<1> HIDE DEF u
<1>5. o.phase # "unused" /\ (o.phase = "running" => o.heartbeat)
  BY <1>1, StoredFacts
<1>6. /\ ManagerInv(u)
      /\ \A d \in Conns : mgr.connections[d] # i => (Served(mgr, d) => Served(u, d))
  BY <1>1, <1>3, <1>4, <1>5, ObjectChangePreserves
<1>7. /\ ManagerInv(mgr')
      /\ Served(mgr', o.conn)
      /\ \A d \in Conns : Served(u, d) => Served(mgr', d)
      /\ mgr'.connections = u.connections
  BY <1>1, <1>2, <1>6, SchedulePreserves
<1>8. \A d \in Conns : mgr.connections[d] = i => d = o.conn
  BY StoredFacts
<1> QED BY <1>4, <1>6, <1>7, <1>8 DEF EngineGoal, AllServed

LEMMA HeartbeatFailsStep ==
  ASSUME ManagerInv(mgr), AllServed(mgr), NEW i \in Instances, HeartbeatFails(i)
  PROVE  EngineGoal
<1> DEFINE o == mgr.inst[i]
           n == [o EXCEPT !.isConnected = FALSE]
<1>1. mgr \in Manager /\ o \in ObsInstance
  BY StoredFacts
<1>2. mgr' = [mgr EXCEPT !.inst[i] = n]
  BY <1>1 DEF HeartbeatFails, Manager, ObsInstance
<1>3. /\ n \in ObsInstance /\ n.timer = o.timer /\ n.phase = o.phase
      /\ n.conn = o.conn /\ n.open = o.open /\ n.heartbeat = o.heartbeat
      /\ ~n.isConnected
  BY <1>1 DEF ObsInstance
<1> HIDE DEF n
<1>4. /\ mgr' \in Manager
      /\ mgr'.connections = mgr.connections
      /\ mgr'.productionMap = mgr.productionMap
      /\ mgr'.inst[i] = n
      /\ \A j \in Instances : j # i => mgr'.inst[j] = mgr.inst[j]
  BY <1>1, <1>2, <1>3 DEF Manager
<1>5. /\ n.timer # None \/ n.open => n.conn \in Conns /\ mgr.connections[n.conn] = i
      /\ n.phase # "unused" => n.conn \in Conns
  BY <1>3 DEF ManagerInv
<1>6. Stored(mgr, i) => o.phase # "unused" /\ (o.phase = "running" => o.heartbeat)
  BY StoredFacts
<1>7. /\ ManagerInv(mgr')
      /\ \A d \in Conns : mgr.connections[d] # i => (Served(mgr, d) => Served(mgr', d))
  BY <1>1, <1>3, <1>4, <1>5, <1>6, ObjectChangePreserves
<1>8. \A d \in Conns : mgr.connections[d] = i /\ Served(mgr, d) => Served(mgr', d)
  BY <1>3, <1>4 DEF Served
<1> QED BY <1>4, <1>7, <1>8 DEF EngineGoal, AllServed

\* The timer that fires belongs to the stored instance, so the entry it replaces
\* exists.
LEMMA ReconnectTimerFiresStep ==
  ASSUME ManagerInv(mgr), AllServed(mgr), NEW i \in Instances, ReconnectTimerFires(i)
  PROVE  EngineGoal
<1> DEFINE c == mgr.inst[i].conn
           cfg == mgr.inst[i].timer
           u == [mgr EXCEPT !.inst[i].timer = None]
           no == FALSE
<1>1. /\ mgr.connections[c] = i /\ c \in Conns /\ cfg \in Config /\ no \in BOOLEAN
      /\ i # None
  BY ConstantsAssumption, StoredFacts DEF ReconnectTimerFires, ManagerInv, ObsInstance
<1>2. PICK j \in Free(mgr) : mgr' = ConnectObsById(u, c, cfg, no, j)
  BY DEF ReconnectTimerFires
<1>3. /\ ManagerInv(u)
      /\ u.connections = mgr.connections
      /\ \A d \in Conns : mgr.connections[d] # i => (Served(mgr, d) => Served(u, d))
      /\ j \in Free(u)
  BY ClearTimerPreserves
<1>4. \A d \in Conns : mgr.connections[d] = i => d = c
  BY StoredFacts
<1> HIDE DEF u, c, cfg, no
<1>5. /\ ManagerInv(mgr')
      /\ Served(mgr', c)
      /\ \A d \in Conns : Served(u, d) => Served(mgr', d)
      /\ \A d \in Conns : d # c => mgr'.connections[d] = u.connections[d]
  BY <1>1, <1>2, <1>3, ConnectPreserves
<1> QED BY <1>1, <1>3, <1>4, <1>5 DEF EngineGoal, AllServed

LEMMA EngineStep ==
  ASSUME ManagerInv(mgr), AllServed(mgr), Engine
  PROVE  EngineGoal /\ UNCHANGED <<db, ops, restarts>>
<1>1. PICK i \in Instances :
        \/ ConnectSucceeds(i)
        \/ ConnectFails(i)
        \/ BootstrapEnds(i)
        \/ ConnectionClosed(i)
        \/ HeartbeatFails(i)
        \/ ReconnectTimerFires(i)
  BY DEF Engine
<1>2. EngineGoal
  BY <1>1, ConnectSucceedsStep, ConnectFailsStep, BootstrapEndsStep,
     ConnectionClosedStep, HeartbeatFailsStep, ReconnectTimerFiresStep
<1>3. UNCHANGED <<db, ops, restarts>>
  BY <1>1 DEF ConnectSucceeds, ConnectFails, BootstrapEnds, ConnectionClosed,
              HeartbeatFails, ReconnectTimerFires
<1> QED BY <1>2, <1>3

\* A connect request, whatever asks for it.
LEMMA ConnectRequest ==
  ASSUME ManagerInv(mgr), AllServed(mgr), NEW c \in Conns, NEW cfg \in Config,
         NEW isPrimary \in BOOLEAN, NEW i \in Free(mgr),
         mgr' = ConnectObsById(mgr, c, cfg, isPrimary, i)
  PROVE  ManagerInv(mgr') /\ AllServed(mgr')
BY ConnectPreserves DEF AllServed

LEMMA DisconnectRequest ==
  ASSUME ManagerInv(mgr), AllServed(mgr), NEW p \in Productions,
         mgr' = DisconnectObs(mgr, p)
  PROVE  ManagerInv(mgr') /\ AllServed(mgr')
BY DisconnectPreserves DEF AllServed

OperatorGoal ==
  /\ ManagerInv(mgr')
  /\ AllServed(mgr')
  /\ db' \in [Conns -> Row \cup {None}]

LEMMA OperatorStep ==
  ASSUME ManagerInv(mgr), AllServed(mgr), TypeOK, Operator
  PROVE  OperatorGoal /\ Request
<1> USE DEF OperatorGoal
<1> DEFINE yes == TRUE
<1>0. /\ db \in [Conns -> Row \cup {None}]
      /\ Rows \subseteq Conns
      /\ Owner \in [Conns -> Productions]
      /\ \A p \in Productions : Default[p] \in Conns /\ Fallback[p] \in Conns
      /\ yes \in BOOLEAN
  BY ConstantsAssumption DEF TypeOK, Rows
<1>1. ASSUME NEW p \in Productions, NEW cfg \in Submitted, NEW enabled \in BOOLEAN,
             SaveConnection(p, cfg, enabled)
      PROVE  OperatorGoal /\ Request
  <2>1. cfg \in Config /\ Encrypted(cfg) \in Config
    BY ConfigTypes
  <2>2. db' \in [Conns -> Row \cup {None}]
    <3>1. [cfg |-> Encrypted(cfg), isPrimary |-> TRUE, isEnabled |-> enabled] \in Row
      BY <2>1 DEF Row
    <3> QED BY <1>0, <1>1, <3>1 DEF SaveConnection
  <2>3. CASE enabled
    <3>1. PICK i \in Free(mgr) :
            mgr' = ConnectObsById(mgr, Default[p], cfg, yes, i)
      BY <1>1, <2>3 DEF SaveConnection
    <3> HIDE DEF yes
    <3> QED BY <1>0, <1>1, <2>1, <2>2, <3>1, ConnectRequest DEF SaveConnection
  <2>4. CASE ~enabled
    <3>1. mgr' = DisconnectObs(mgr, p)
      BY <1>1, <2>4 DEF SaveConnection
    <3> QED BY <1>1, <2>2, <3>1, DisconnectRequest DEF SaveConnection
  <2> QED BY <2>3, <2>4
<1>2. ASSUME NEW c \in Rows, NEW cfg \in Submitted, NEW primary \in BOOLEAN,
             NEW enabled \in BOOLEAN, AddConnection(c, cfg, primary, enabled)
      PROVE  OperatorGoal /\ Request
  <2>1. cfg \in Config /\ Encrypted(cfg) \in Config /\ c \in Conns
    BY <1>0, ConfigTypes
  <2>2. db' \in [Conns -> Row \cup {None}]
    <3> DEFINE row == [cfg |-> Encrypted(cfg), isPrimary |-> primary, isEnabled |-> enabled]
               demoted == [d \in Conns |->
                             IF primary /\ d \in PrimaryRows(Owner[c])
                             THEN [db[d] EXCEPT !.isPrimary = FALSE] ELSE db[d]]
    <3>1. row \in Row
      BY <2>1 DEF Row
    <3>2. \A d \in Conns : d \in PrimaryRows(Owner[c]) =>
                             [db[d] EXCEPT !.isPrimary = FALSE] \in Row
      BY <1>0 DEF PrimaryRows, RowsOf, Row
    <3>3. demoted \in [Conns -> Row \cup {None}]
      BY <1>0, <3>2
    <3>4. db' = [demoted EXCEPT ![c] = row]
      BY <1>2 DEF AddConnection
    <3> HIDE DEF demoted, row
    <3> QED BY <3>1, <3>3, <3>4
  <2>3. CASE enabled
    <3>1. PICK i \in Free(mgr) : mgr' = ConnectObsById(mgr, c, cfg, primary, i)
      BY <1>2, <2>3 DEF AddConnection
    <3> QED BY <1>2, <2>1, <2>2, <3>1, ConnectRequest DEF AddConnection
  <2>4. CASE ~enabled
    <3>1. mgr' = mgr
      BY <1>2, <2>4 DEF AddConnection
    <3> QED BY <1>2, <2>2, <3>1 DEF AddConnection
  <2> QED BY <2>3, <2>4
<1>3. ASSUME NEW c \in Rows, RemoveConnection(c)
      PROVE  OperatorGoal /\ Request
  <2>1. mgr' = DisconnectObs(mgr, Owner[c]) /\ Owner[c] \in Productions
    BY <1>0, <1>3 DEF RemoveConnection
  <2>2. db' \in [Conns -> Row \cup {None}]
    <3> DEFINE removed == [db EXCEPT ![c] = None]
               left == RowsOf(Owner[c]) \ {c}
    <3>1. removed \in [Conns -> Row \cup {None}]
      BY <1>0
    <3>2. \A next \in left : next \in Conns
                             /\ [removed[next] EXCEPT !.isPrimary = TRUE] \in Row
      BY <1>0 DEF RowsOf, Row
    <3>3. \/ db' = removed
          \/ \E next \in left :
               db' = [removed EXCEPT ![next] = [removed[next] EXCEPT !.isPrimary = TRUE]]
      BY <1>3 DEF RemoveConnection
    <3> HIDE DEF removed, left
    <3> QED BY <3>1, <3>2, <3>3
  <2> QED BY <1>3, <2>1, <2>2, DisconnectRequest DEF RemoveConnection
<1>4. ASSUME NEW c \in Rows, Reconnect(c)
      PROVE  OperatorGoal /\ Request
  <2> DEFINE cfg == Decrypted(db[c].cfg)
             isPrimary == db[c].isPrimary
  <2>1. PICK i \in Free(mgr), j \in Free(mgr) :
          /\ i # j
          /\ mgr' = ConnectObsById(ManualReconnect(mgr, c, i), c, cfg, isPrimary, j)
    BY <1>4 DEF Reconnect
  <2>2. c \in Conns /\ cfg \in Config /\ isPrimary \in BOOLEAN
    BY <1>0, <1>4, ConfigTypes DEF Reconnect, Row
  <2> DEFINE u == ManualReconnect(mgr, c, i)
  <2>3. /\ ManagerInv(u)
        /\ \A d \in Conns : Served(mgr, d) => Served(u, d)
        /\ j \in Free(u)
    BY <2>1, <2>2, ManualReconnectPreserves
  <2>4. mgr' = ConnectObsById(u, c, cfg, isPrimary, j)
    BY <2>1
  <2> HIDE DEF u, cfg, isPrimary
  <2>5. ManagerInv(mgr') /\ \A d \in Conns : Served(u, d) => Served(mgr', d)
    BY <2>2, <2>3, <2>4, ConnectPreserves
  <2> QED BY <1>0, <1>4, <2>3, <2>5 DEF Reconnect, AllServed
<1>5. ASSUME NEW p \in Productions, ReconnectPrimary(p)
      PROVE  OperatorGoal /\ Request
  <2>1. PICK c \in PrimaryRows(p), i \in Free(mgr) : mgr' = ManualReconnect(mgr, c, i)
    BY <1>5 DEF ReconnectPrimary
  <2>2. c \in Conns
    BY <1>0 DEF PrimaryRows, RowsOf
  <2>3. ManagerInv(mgr') /\ \A d \in Conns : Served(mgr, d) => Served(mgr', d)
    BY <2>1, <2>2, ManualReconnectPreserves
  <2> QED BY <1>0, <1>5, <2>3 DEF ReconnectPrimary, AllServed
<1>6. ASSUME NEW p \in Productions, SwitchEngine(p)
      PROVE  OperatorGoal /\ Request
  <2>1. PICK c \in IF PrimaryRows(p) # {} THEN PrimaryRows(p) ELSE {Fallback[p]},
             i \in Free(mgr) : mgr' = ConnectObsById(mgr, c, NoConfig, yes, i)
    BY <1>6 DEF SwitchEngine
  <2>2. c \in Conns
    BY <1>0, <2>1 DEF PrimaryRows, RowsOf
  <2>3. db' \in [Conns -> Row \cup {None}]
    <3>1. \A d \in RowsOf(p) : [db[d] EXCEPT !.isEnabled = FALSE] \in Row
      BY <1>0 DEF RowsOf, Row
    <3> QED BY <1>0, <1>6, <3>1 DEF SwitchEngine
  <2> HIDE DEF yes
  <2>4. ManagerInv(mgr') /\ AllServed(mgr')
    BY <1>0, <2>1, <2>2, ConfigTypes, ConnectRequest
  <2> QED BY <1>6, <2>3, <2>4 DEF SwitchEngine
<1> QED BY <1>1, <1>2, <1>3, <1>4, <1>5, <1>6 DEF Operator

LEMMA RestartStep ==
  ASSUME TypeOK, Restart
  PROVE  ManagerInv(mgr') /\ AllServed(mgr')
<1>0. /\ Enabled \subseteq Conns /\ \A c \in Enabled : db[c] \in Row
      /\ Owner \in [Conns -> Productions]
  BY ConstantsAssumption DEF Enabled, Rows, TypeOK
<1>1. PICK f \in [Enabled -> Instances],
           primary \in [Productions -> Conns \cup {None}] :
        /\ \A c, d \in Enabled : f[c] = f[d] => c = d
        /\ mgr' = LoadAllConnections(f, primary)
  BY DEF Restart
<1> DEFINE t == mgr'
           taken(i) == \E c \in Enabled : f[c] = i
           at(i) == CHOOSE c \in Enabled : f[c] = i
<1>2. /\ t.connections = [c \in Conns |-> IF c \in Enabled THEN f[c] ELSE None]
      /\ t.productionMap = [p \in Productions |-> {c \in Enabled : Owner[c] = p}]
      /\ t.primaryMap = primary
      /\ t.announced = [p \in Productions |-> FALSE]
      /\ t.inst = [i \in Instances |-> IF taken(i)
                                       THEN NewInstance(at(i), db[at(i)].cfg)
                                       ELSE Unused]
      /\ t = [connections |-> t.connections, inst |-> t.inst,
              productionMap |-> t.productionMap,
              primaryMap |-> t.primaryMap, announced |-> t.announced]
  BY <1>1 DEF LoadAllConnections
<1>3. \A i \in Instances : taken(i) =>
        /\ at(i) \in Enabled /\ f[at(i)] = i
        /\ at(i) \in Conns /\ db[at(i)].cfg \in Config
  BY <1>0 DEF Row
<1>4. \A c \in Enabled : f[c] \in Instances /\ taken(f[c]) /\ at(f[c]) = c
  BY <1>1, <1>3
<1> HIDE DEF t, at, taken
<1>5. \A i \in Instances :
        /\ t.inst[i] \in ObsInstance
        /\ t.inst[i].timer = None
        /\ ~t.inst[i].open
        /\ taken(i) => /\ t.inst[i].conn = at(i)
                       /\ t.inst[i].phase = "connecting"
                       /\ ~t.inst[i].isConnected
        /\ ~taken(i) => t.inst[i].phase = "unused"
  <2> SUFFICES ASSUME NEW i \in Instances
               PROVE  /\ t.inst[i] \in ObsInstance
                      /\ t.inst[i].timer = None
                      /\ ~t.inst[i].open
                      /\ taken(i) => /\ t.inst[i].conn = at(i)
                                     /\ t.inst[i].phase = "connecting"
                                     /\ ~t.inst[i].isConnected
                      /\ ~taken(i) => t.inst[i].phase = "unused"
    OBVIOUS
  <2>1. CASE taken(i)
    <3>1. t.inst[i] = NewInstance(at(i), db[at(i)].cfg)
      BY <1>2, <2>1
    <3> QED BY <1>3, <2>1, <3>1, NewInstanceType
  <2>2. CASE ~taken(i)
    <3>1. t.inst[i] = Unused
      BY <1>2, <2>2
    <3> QED BY <2>2, <3>1, UnusedType DEF Unused
  <2> QED BY <2>1, <2>2
<1>6. t \in Manager
  <2>1. /\ t.connections \in [Conns -> Instances \cup {None}]
        /\ t.productionMap \in [Productions -> SUBSET Conns]
        /\ t.primaryMap \in [Productions -> Conns \cup {None}]
        /\ t.announced \in [Productions -> BOOLEAN]
    BY <1>0, <1>1, <1>2
  <2>2. t.inst \in [Instances -> ObsInstance]
    BY <1>2, <1>5
  <2> QED BY <1>2, <2>1, <2>2 DEF Manager
<1>7. \A c \in Conns : t.connections[c] # None =>
        /\ c \in Enabled
        /\ t.inst[t.connections[c]].conn = c
        /\ t.inst[t.connections[c]].phase = "connecting"
        /\ ~t.inst[t.connections[c]].isConnected
  BY <1>2, <1>4, <1>5
<1>8. Linked(t) /\ UpHasSocket(t) /\ RunningIsWatched(t)
  BY <1>7
<1>9. Mapped(t)
  BY <1>0, <1>2, <1>7
<1>10. OnlyStoredActs(t) /\ PendingHasConn(t)
  BY <1>3, <1>5
<1>11. AllServed(t)
  BY <1>7 DEF AllServed, Served
<1> QED BY <1>6, <1>8, <1>9, <1>10, <1>11 DEF ManagerInv, t

LEMMA InitEstablishes == Init => IInv
<1> SUFFICES ASSUME Init PROVE IInv
  OBVIOUS
<1>1. mgr \in Manager
  BY UnusedType DEF Init, Manager
<1>2. TypeOK
  BY <1>1, ConstantsAssumption DEF Init, TypeOK
<1>3. \A i \in Instances : /\ mgr.inst[i].timer = None
                           /\ ~mgr.inst[i].open
                           /\ mgr.inst[i].phase = "unused"
  BY DEF Init, Unused
<1>4. \A c \in Conns : mgr.connections[c] = None
  BY DEF Init
<1> QED BY <1>1, <1>2, <1>3, <1>4 DEF IInv, ManagerInv, AllServed, Served

LEMMA StepPreserves == IInv /\ [Next]_vars => IInv'
<1> SUFFICES ASSUME IInv, [Next]_vars PROVE IInv'
  OBVIOUS
<1>0. /\ TypeOK /\ ManagerInv(mgr) /\ AllServed(mgr)
      /\ MaxOps \in Nat /\ MaxRestarts \in Nat
  BY ConstantsAssumption DEF IInv
<1>1. CASE Operator
  <2>1. OperatorGoal /\ Request
    BY <1>0, <1>1, OperatorStep
  <2>2. ops' \in 0 .. MaxOps /\ restarts' = restarts
    BY <1>0, <2>1 DEF Request, TypeOK
  <2> QED BY <1>0, <2>1, <2>2 DEF IInv, TypeOK, OperatorGoal, ManagerInv
<1>2. CASE Engine
  <2>1. EngineGoal /\ UNCHANGED <<db, ops, restarts>>
    BY <1>0, <1>2, EngineStep
  <2> QED BY <1>0, <2>1 DEF IInv, TypeOK, EngineGoal, ManagerInv
<1>3. CASE Restart
  <2>1. ManagerInv(mgr') /\ AllServed(mgr')
    BY <1>0, <1>3, RestartStep
  <2>2. restarts' \in 0 .. MaxRestarts /\ UNCHANGED <<db, ops>>
    BY <1>0, <1>3 DEF Restart, TypeOK
  <2> QED BY <1>0, <2>1, <2>2 DEF IInv, TypeOK, ManagerInv
<1>4. CASE UNCHANGED vars
  BY <1>0, <1>4 DEF vars, IInv, TypeOK, ManagerInv, AllServed, Served
<1> QED BY <1>1, <1>2, <1>3, <1>4 DEF Next

-----------------------------------------------------------------------------
(***************************************************************************)
(* The theorems                                                            *)
(***************************************************************************)

\* The inductive invariant holds in every reachable state, whatever the requests,
\* the order in which attempts end, and the restarts.
THEOREM Invariance == Spec => []IInv
<1>1. Init => IInv
  BY InitEstablishes
<1>2. IInv /\ [Next]_vars => IInv'
  BY StepPreserves
<1> QED BY <1>1, <1>2, PTL DEF Spec

\* The maps of ObsStateStore and the instances keep their shape.
THEOREM TypeCorrectness == Spec => []TypeOK
<1>1. IInv => TypeOK
  BY DEF IInv
<1> QED BY <1>1, Invariance, PTL

\* scheduleReconnect "retries indefinitely": no stored instance is left without
\* an attempt, a timer, or a socket whose closing arms one.
THEOREM NothingForgotten == Spec => []NoForgottenConnection
<1>1. IInv => NoForgottenConnection
  BY DEF IInv, AllServed, Served, NoForgottenConnection
<1> QED BY <1>1, Invariance, PTL

\* disconnectObs reaches every stored instance of a production.
THEOREM AllCanBeStopped == Spec => []EveryConnectionCanBeStopped
<1>1. IInv => EveryConnectionCanBeStopped
  BY DEF IInv, ManagerInv, EveryConnectionCanBeStopped
<1> QED BY <1>1, Invariance, PTL

\* A connection that is up past its bootstrap has its heartbeat running and a
\* socket that will report its closing.
THEOREM AllWatched == Spec => []ConnectedIsWatched
<1>1. IInv => ConnectedIsWatched
  BY DEF IInv, ManagerInv, ConnectedIsWatched
<1> QED BY <1>1, Invariance, PTL

\* Every connection the store holds is being worked on, can be stopped, and is watched
\* while it is up.
THEOREM ConnectionsStayHeld == Spec => []ConnectionsAreHeld
<1>1. NoForgottenConnection /\ EveryConnectionCanBeStopped /\ ConnectedIsWatched
        => ConnectionsAreHeld
  BY DEF ConnectionsAreHeld
<1> QED BY <1>1, NothingForgotten, AllCanBeStopped, AllWatched, PTL

\* After disconnectObs nothing left over, neither a timer nor an attempt in
\* flight, brings the connection back.
THEOREM NothingResurrects == Spec => NoResurrection
<1> DEFINE back == \A c \in Conns :
                     mgr.connections[c] = None /\ mgr'.connections[c] # None =>
                       ops' # ops \/ restarts' # restarts
<1>1. IInv /\ [Next]_vars => [back]_vars
  <2> SUFFICES ASSUME IInv, Next PROVE back
    OBVIOUS
  <2>1. CASE Operator
    <3>1. Request
      BY <2>1, OperatorStep DEF IInv
    <3> QED BY <3>1 DEF Request, IInv, TypeOK
  <2>2. CASE Engine
    BY <2>2, EngineStep DEF IInv, EngineGoal
  <2>3. CASE Restart
    BY <2>3 DEF Restart, IInv, TypeOK
  <2> QED BY <2>1, <2>2, <2>3 DEF Next
<1>2. Spec => [][back]_vars
  BY <1>1, Invariance, PTL DEF Spec
<1> QED BY <1>2 DEF NoResurrection

-----------------------------------------------------------------------------
(***************************************************************************)
(* The events tell what the store holds.  Announced is ConnectedIsAnnounced *)
(* of a memory s.  It is kept because every step but a successful attempt, *)
(* which announces it, is calm: a connection that is up and alone in the   *)
(* map after the step was so before, and its last event still says so.     *)
(* ConnectingIsDown is needed for an attempt that fails on a stored object.*)
(***************************************************************************)
Up(s, c) == s.connections[c] # None /\ s.inst[s.connections[c]].isConnected

Alone(s, c) == s.productionMap[Owner[c]] = {c}

Announced(s) == \A c \in Conns : Up(s, c) /\ Alone(s, c) => s.announced[Owner[c]]

HalfUp(o) == o.phase = "connecting" /\ o.isConnected

ConnectingIsDown(s) == \A i \in Instances : ~HalfUp(s.inst[i])

AnnouncedInv(s) == Announced(s) /\ ConnectingIsDown(s)

Calm(s, t) ==
  /\ \A c \in Conns : Up(t, c) /\ Alone(t, c) =>
                        /\ Up(s, c) /\ Alone(s, c)
                        /\ s.announced[Owner[c]] => t.announced[Owner[c]]
  /\ \A i \in Instances : HalfUp(t.inst[i]) => HalfUp(s.inst[i])

LEMMA CalmKeeps ==
  ASSUME NEW s, NEW t, Calm(s, t), AnnouncedInv(s)
  PROVE  AnnouncedInv(t)
BY DEF Calm, AnnouncedInv, Announced, ConnectingIsDown

LEMMA CalmComposes ==
  ASSUME NEW s, NEW t, NEW u, Calm(s, t), Calm(t, u)
  PROVE  Calm(s, u)
BY DEF Calm

LEMMA CalmIsReflexive == ASSUME NEW s PROVE Calm(s, s)
BY DEF Calm

\* Changing one object is calm unless it raises that object, or withdraws the
\* announcement of a connection that is still up and alone.
LEMMA ObjectChangeIsCalm ==
  ASSUME NEW s, ManagerInv(s), NEW i \in Instances, NEW t,
         t.connections = s.connections, t.productionMap = s.productionMap,
         \A j \in Instances : j # i => t.inst[j] = s.inst[j],
         t.inst[i].isConnected => s.inst[i].isConnected,
         HalfUp(t.inst[i]) => HalfUp(s.inst[i]),
         \A c \in Conns : Up(t, c) /\ Alone(t, c) /\ s.announced[Owner[c]] =>
                            t.announced[Owner[c]]
  PROVE  Calm(s, t)
<1>1. \A c \in Conns : s.connections[c] # None => s.connections[c] \in Instances
  BY DEF ManagerInv, Manager
<1>2. \A c \in Conns : Up(t, c) => Up(s, c)
  BY <1>1 DEF Up
<1>3. \A c \in Conns : Alone(t, c) => Alone(s, c)
  BY DEF Alone
<1>4. \A j \in Instances : HalfUp(t.inst[j]) => HalfUp(s.inst[j])
  OBVIOUS
<1> QED BY <1>2, <1>3, <1>4 DEF Calm

LEMMA ClearTimerIsCalm ==
  ASSUME NEW s, ManagerInv(s), NEW i \in Instances
  PROVE  Calm(s, [s EXCEPT !.inst[i].timer = None])
<1> DEFINE t == [s EXCEPT !.inst[i].timer = None]
<1>1. s \in Manager /\ s.inst[i] \in ObsInstance
  BY DEF ManagerInv, Manager
<1>2. /\ t.connections = s.connections
      /\ t.productionMap = s.productionMap
      /\ t.announced = s.announced
      /\ \A j \in Instances : j # i => t.inst[j] = s.inst[j]
      /\ t.inst[i].isConnected = s.inst[i].isConnected
      /\ t.inst[i].phase = s.inst[i].phase
  BY <1>1 DEF Manager, ObsInstance
<1> HIDE DEF t
<1>3. HalfUp(t.inst[i]) => HalfUp(s.inst[i])
  BY <1>2 DEF HalfUp
<1>4. Calm(s, t)
  BY <1>2, <1>3, ObjectChangeIsCalm
<1> QED BY <1>4 DEF t

LEMMA ScheduleIsCalm ==
  ASSUME NEW s, ManagerInv(s), NEW c \in Conns, NEW cfg \in Config
  PROVE  Calm(s, ScheduleReconnect(s, c, cfg))
<1> DEFINE e == s.connections[c]
           t == [s EXCEPT !.inst[e].timer = cfg]
<1>1. CASE e = None \/ s.inst[e].timer # None
  BY <1>1, CalmIsReflexive DEF ScheduleReconnect
<1>2. CASE e # None /\ s.inst[e].timer = None
  <2>1. s \in Manager /\ e \in Instances /\ s.inst[e] \in ObsInstance
    BY <1>2 DEF ManagerInv, Manager
  <2>2. /\ t.connections = s.connections
        /\ t.productionMap = s.productionMap
        /\ t.announced = s.announced
        /\ \A j \in Instances : j # e => t.inst[j] = s.inst[j]
        /\ t.inst[e].isConnected = s.inst[e].isConnected
        /\ t.inst[e].phase = s.inst[e].phase
    BY <2>1 DEF Manager, ObsInstance
  <2>3. ScheduleReconnect(s, c, cfg) = t
    BY <1>2 DEF ScheduleReconnect
  <2> HIDE DEF t, e
  <2>4. HalfUp(t.inst[e]) => HalfUp(s.inst[e])
    BY <2>2 DEF HalfUp
  <2>5. Calm(s, t)
    BY <2>1, <2>2, <2>4, ObjectChangeIsCalm
  <2> QED BY <2>3, <2>5
<1> QED BY <1>1, <1>2

\* A new object is down, and the map only grows: whoever is alone afterwards
\* was in the map, hence alone, before.
LEMMA ConnectIsCalm ==
  ASSUME NEW s, ManagerInv(s), NEW c \in Conns, NEW cfg \in Config,
         NEW isPrimary \in BOOLEAN, NEW i \in Free(s)
  PROVE  Calm(s, ConnectObsById(s, c, cfg, isPrimary, i))
<1> DEFINE t == ConnectObsById(s, c, cfg, isPrimary, i)
           u == IF s.connections[c] = None THEN s ELSE TeardownInstance(s, c)
           p == Owner[c]
<1>1. CASE AlreadyServed(s, c, cfg)
  BY <1>1, CalmIsReflexive DEF ConnectObsById
<1>2. CASE ~AlreadyServed(s, c, cfg)
  <2>0. /\ s \in Manager /\ i \in Instances /\ p \in Productions
        /\ Owner \in [Conns -> Productions]
        /\ \A d \in Conns : s.connections[d] # i
    BY ConstantsAssumption DEF ManagerInv, Free, Stored
  <2>1. /\ u \in Manager
        /\ u.connections = [s.connections EXCEPT ![c] = None]
        /\ u.productionMap = s.productionMap
        /\ u.announced = s.announced
        /\ \A j \in Instances : /\ HalfUp(u.inst[j]) => HalfUp(s.inst[j])
                                /\ s.connections[c] # j => u.inst[j] = s.inst[j]
    <3>1. CASE s.connections[c] = None
      BY <3>1, <2>0 DEF Manager
    <3>2. CASE s.connections[c] # None
      <4> DEFINE e == s.connections[c]
      <4>1. e \in Instances /\ s.inst[e] \in ObsInstance /\ u = TeardownInstance(s, c)
        BY <3>2, <2>0 DEF Manager
      <4>2. /\ ManagerInv(u)
            /\ u.connections = [s.connections EXCEPT ![c] = None]
            /\ u.inst = [s.inst EXCEPT ![e] = Released(s.inst[e])]
            /\ u.productionMap = s.productionMap
        BY <3>2, <4>1, TeardownPreserves
      <4>3. u.announced = s.announced
        BY <4>1, <2>0 DEF TeardownInstance, Manager
      <4>4. HalfUp(Released(s.inst[e])) => HalfUp(s.inst[e])
        BY <4>1 DEF HalfUp, Released, ObsInstance, Unused
      <4> HIDE DEF u, e
      <4>5. \A j \in Instances : u.inst[j] = IF j = e THEN Released(s.inst[e])
                                                     ELSE s.inst[j]
        BY <4>1, <4>2, <2>0 DEF Manager
      <4>6. \A j \in Instances : HalfUp(u.inst[j]) => HalfUp(s.inst[j])
        BY <4>4, <4>5
      <4> QED BY <4>2, <4>3, <4>5, <4>6 DEF ManagerInv, e
    <3> QED BY <3>1, <3>2
  <2>2. t = [u EXCEPT !.productionMap[p] = @ \cup {c},
                      !.primaryMap[p] = IF isPrimary THEN c ELSE @,
                      !.connections[c] = i,
                      !.inst[i] = NewInstance(c, cfg)]
    BY <1>2 DEF ConnectObsById
  <2> HIDE DEF u, t
  <2>3. /\ t.connections = [u.connections EXCEPT ![c] = i]
        /\ t.inst = [u.inst EXCEPT ![i] = NewInstance(c, cfg)]
        /\ t.productionMap = [u.productionMap EXCEPT ![p] = @ \cup {c}]
        /\ t.announced = u.announced
    BY <2>1, <2>2 DEF Manager
  <2>4. t.inst[i] = NewInstance(c, cfg) /\ ~t.inst[i].isConnected /\ t.connections[c] = i
    BY <2>0, <2>1, <2>3, NewInstanceType DEF Manager
  <2>5. \A j \in Instances : HalfUp(t.inst[j]) => HalfUp(s.inst[j])
    <3> SUFFICES ASSUME NEW j \in Instances, HalfUp(t.inst[j]) PROVE HalfUp(s.inst[j])
      OBVIOUS
    <3>1. j # i
      BY <2>4 DEF HalfUp
    <3>2. t.inst[j] = u.inst[j]
      BY <3>1, <2>1, <2>3 DEF Manager
    <3> QED BY <3>2, <2>1
  <2>6. ASSUME NEW d \in Conns, Up(t, d), Alone(t, d)
        PROVE  Up(s, d) /\ Alone(s, d) /\ (s.announced[Owner[d]] => t.announced[Owner[d]])
    <3>1. d # c
      BY <2>4, <2>6 DEF Up
    <3>2. t.connections[d] = s.connections[d] /\ s.connections[d] # None
      BY <3>1, <2>0, <2>1, <2>3, <2>6 DEF Up, Manager
    <3>3. /\ s.connections[d] \in Instances /\ s.connections[d] # i
          /\ s.connections[d] # s.connections[c]
      BY <3>1, <3>2, <2>0 DEF ManagerInv, Manager
    <3>4. t.inst[s.connections[d]] = s.inst[s.connections[d]]
      BY <3>3, <2>1, <2>3 DEF Manager
    <3>5. Up(s, d)
      BY <3>2, <3>4, <2>6 DEF Up
    <3>6. d \in s.productionMap[Owner[d]]
      BY <3>2 DEF ManagerInv
    <3>7. s.productionMap[Owner[d]] \subseteq t.productionMap[Owner[d]]
      BY <2>0, <2>1, <2>3 DEF Manager
    <3>8. Alone(s, d)
      BY <3>6, <3>7, <2>6 DEF Alone
    <3> QED BY <3>5, <3>8, <2>1, <2>3
  <2>7. Calm(s, t)
    BY <2>5, <2>6 DEF Calm
  <2> QED BY <2>7 DEF t
<1> QED BY <1>1, <1>2

LEMMA ManualReconnectIsCalm ==
  ASSUME NEW s, ManagerInv(s), NEW c \in Conns, NEW i \in Free(s)
  PROVE  Calm(s, ManualReconnect(s, c, i))
<1> DEFINE e == s.connections[c]
           cfg == s.inst[e].cfg
           u == [s EXCEPT !.inst[e].timer = None]
           yes == TRUE
<1>1. CASE e = None
  BY <1>1, CalmIsReflexive DEF ManualReconnect
<1>2. CASE e # None
  <2>1. e \in Instances /\ cfg \in Config /\ yes \in BOOLEAN
    BY <1>2 DEF ManagerInv, Manager, ObsInstance
  <2>2. ManagerInv(u) /\ i \in Free(u) /\ Calm(s, u)
    BY <2>1, ClearTimerPreserves, ClearTimerIsCalm
  <2>3. ManualReconnect(s, c, i) = ConnectObsById(u, c, cfg, yes, i)
    BY <1>2 DEF ManualReconnect
  <2> HIDE DEF u, cfg, yes
  <2>4. Calm(u, ConnectObsById(u, c, cfg, yes, i))
    BY <2>1, <2>2, ConnectIsCalm
  <2> QED BY <2>2, <2>3, <2>4, CalmComposes
<1> QED BY <1>1, <1>2

\* disconnectObs announces the loss of a production it empties.
LEMMA DisconnectIsCalm ==
  ASSUME NEW s, ManagerInv(s), NEW p \in Productions
  PROVE  Calm(s, DisconnectObs(s, p))
<1> DEFINE gone == s.productionMap[p]
           t == DisconnectObs(s, p)
           hit(i) == \E c \in gone : s.connections[c] = i
<1>1. /\ s \in Manager /\ gone \subseteq Conns
      /\ Owner \in [Conns -> Productions]
  BY ConstantsAssumption DEF ManagerInv, Manager
<1>2. /\ t.connections = [c \in Conns |-> IF c \in gone THEN None
                                                       ELSE s.connections[c]]
      /\ t.inst = [i \in Instances |-> IF hit(i) THEN Released(s.inst[i])
                                                ELSE s.inst[i]]
      /\ t.productionMap = [s.productionMap EXCEPT ![p] = {}]
      /\ t.announced = [s.announced EXCEPT ![p] = FALSE]
  BY <1>1 DEF DisconnectObs, Manager
<1> HIDE DEF t
<1>3. \A i \in Instances : HalfUp(t.inst[i]) => HalfUp(s.inst[i])
  <2>1. \A i \in Instances : HalfUp(Released(s.inst[i])) => HalfUp(s.inst[i])
    BY <1>1 DEF HalfUp, Released, ObsInstance, Unused, Manager
  <2> QED BY <1>2, <2>1
<1>4. ASSUME NEW d \in Conns, Up(t, d), Alone(t, d)
      PROVE  Up(s, d) /\ Alone(s, d) /\ (s.announced[Owner[d]] => t.announced[Owner[d]])
  <2>1. Owner[d] # p
    BY <1>1, <1>2, <1>4 DEF Alone, Manager
  <2>2. Alone(s, d) /\ t.announced[Owner[d]] = s.announced[Owner[d]]
    BY <2>1, <1>1, <1>2, <1>4 DEF Alone, Manager
  <2>3. d \notin gone /\ t.connections[d] = s.connections[d] /\ s.connections[d] # None
    BY <1>2, <1>4 DEF Up
  <2>4. s.connections[d] \in Instances /\ ~hit(s.connections[d])
    BY <2>3, <1>1 DEF ManagerInv, Manager
  <2>5. Up(s, d)
    BY <2>3, <2>4, <1>2, <1>4 DEF Up
  <2> QED BY <2>2, <2>5
<1>5. Calm(s, t)
  BY <1>3, <1>4 DEF Calm
<1> QED BY <1>5 DEF t

LEMMA ConnectSucceedsAnnounces ==
  ASSUME ManagerInv(mgr), NEW i \in Instances, ConnectSucceeds(i), AnnouncedInv(mgr)
  PROVE  AnnouncedInv(mgr')
<1> DEFINE o == mgr.inst[i]
           p == Owner[o.conn]
<1>1. /\ mgr \in Manager /\ o \in ObsInstance /\ o.conn \in Conns
      /\ p \in Productions /\ Owner \in [Conns -> Productions]
      /\ \A c \in Conns : mgr.connections[c] = i => c = o.conn
      /\ \A c \in Conns : mgr.connections[c] # None => mgr.connections[c] \in Instances
  BY StoredFacts, ConstantsAssumption DEF ConnectSucceeds, Manager
<1>2. /\ mgr'.connections = mgr.connections
      /\ mgr'.productionMap = mgr.productionMap
      /\ mgr'.announced = [mgr.announced EXCEPT ![p] = TRUE]
      /\ mgr'.inst[i].phase = "bootstrap"
      /\ \A j \in Instances : j # i => mgr'.inst[j] = mgr.inst[j]
  BY <1>1 DEF ConnectSucceeds, Manager, ObsInstance
<1>3. ConnectingIsDown(mgr')
  BY <1>2 DEF AnnouncedInv, ConnectingIsDown, HalfUp
<1>4. ASSUME NEW c \in Conns, Up(mgr', c), Alone(mgr', c)
      PROVE  mgr'.announced[Owner[c]]
  <2>1. CASE Owner[c] = p
    BY <2>1, <1>1, <1>2 DEF Manager
  <2>2. CASE Owner[c] # p
    <3>1. mgr.connections[c] # i
      BY <2>2, <1>1
    <3>2. Up(mgr, c) /\ Alone(mgr, c)
      BY <3>1, <1>1, <1>2, <1>4 DEF Up, Alone
    <3>3. mgr.announced[Owner[c]]
      BY <3>2 DEF AnnouncedInv, Announced
    <3> QED BY <3>3, <2>2, <1>1, <1>2 DEF Manager
  <2> QED BY <2>1, <2>2
<1> QED BY <1>3, <1>4 DEF AnnouncedInv, Announced

\* A failed attempt withdraws the announcement only for an object in the store,
\* and that object was down.
LEMMA ConnectFailsIsCalm ==
  ASSUME ManagerInv(mgr), NEW i \in Instances, ConnectFails(i), AnnouncedInv(mgr)
  PROVE  Calm(mgr, mgr')
<1> DEFINE o == mgr.inst[i]
           n == IF Stored(mgr, i) THEN [o EXCEPT !.phase = "failed"] ELSE Unused
           p == Owner[o.conn]
<1>1. PICK heard \in {FALSE, Stored(mgr, i)} :
        mgr' = ScheduleReconnect(
                 [[mgr EXCEPT !.inst[i] = n] EXCEPT !.announced[p] = @ /\ ~heard],
                 o.conn, o.cfg)
  BY DEF ConnectFails
<1> DEFINE u == [[mgr EXCEPT !.inst[i] = n] EXCEPT !.announced[p] = @ /\ ~heard]
<1>2. /\ mgr \in Manager /\ o \in ObsInstance /\ o.conn \in Conns /\ o.cfg \in Config
      /\ o.phase = "connecting" /\ ~o.isConnected
      /\ p \in Productions /\ Owner \in [Conns -> Productions]
      /\ Stored(mgr, i) <=> mgr.connections[o.conn] = i
      /\ \A c \in Conns : mgr.connections[c] = i => c = o.conn
  BY StoredFacts, ConstantsAssumption
     DEF ConnectFails, ObsInstance, AnnouncedInv, ConnectingIsDown, HalfUp
<1>3. /\ n \in ObsInstance /\ ~n.isConnected
      /\ Stored(mgr, i) => n.timer = o.timer /\ n.open = o.open
                           /\ n.conn = o.conn /\ n.phase = "failed"
      /\ ~Stored(mgr, i) => n.timer = None /\ ~n.open /\ n.phase = "unused"
  BY <1>2, UnusedType DEF ObsInstance, Unused, Phase
<1> HIDE DEF n
<1>4. /\ u \in Manager
      /\ u.connections = mgr.connections
      /\ u.productionMap = mgr.productionMap
      /\ u.announced = [mgr.announced EXCEPT ![p] = @ /\ ~heard]
      /\ u.inst[i] = n
      /\ \A j \in Instances : j # i => u.inst[j] = mgr.inst[j]
  <2>1. (mgr.announced[p] /\ ~heard) \in BOOLEAN
    OBVIOUS
  <2> QED BY <1>2, <1>3, <2>1 DEF Manager
<1> HIDE DEF u
<1>5. ManagerInv(u)
  <2>1. n.timer # None \/ n.open => n.conn \in Conns /\ mgr.connections[n.conn] = i
    BY <1>2, <1>3
  <2>2. Stored(mgr, i) => /\ n.conn = o.conn /\ n.phase = "failed"
                          /\ n.isConnected => n.open
    BY <1>3
  <2>3. n.phase # "unused" => n.conn \in Conns
    BY <1>2, <1>3
  <2> QED BY <1>2, <1>3, <1>4, <2>1, <2>2, <2>3, ObjectChangePreserves
<1>6. Calm(mgr, u)
  <2>1. \A c \in Conns : Up(u, c) /\ Alone(u, c) /\ mgr.announced[Owner[c]] =>
                           u.announced[Owner[c]]
    <3> SUFFICES ASSUME NEW c \in Conns, Up(u, c), Alone(u, c), mgr.announced[Owner[c]]
                 PROVE  u.announced[Owner[c]]
      OBVIOUS
    <3>1. CASE Owner[c] # p
      BY <3>1, <1>2, <1>4 DEF Manager
    <3>2. CASE Owner[c] = p /\ heard = FALSE
      <4>1. u.announced[p] = (mgr.announced[p] /\ ~heard)
        BY <1>2, <1>4 DEF Manager
      <4> QED BY <4>1, <3>2
    <3>3. CASE Owner[c] = p /\ Stored(mgr, i)
      <4>1. o.conn \in mgr.productionMap[p]
        BY <3>3, <1>2, ConstantsAssumption DEF ManagerInv, Manager
      <4>2. c = o.conn
        BY <4>1, <3>3, <1>4 DEF Alone
      <4> QED BY <4>2, <3>3, <1>2, <1>3, <1>4 DEF Up
    <3>4. heard = FALSE \/ Stored(mgr, i)
      <4>1. Stored(mgr, i) \in BOOLEAN
        BY DEF Stored
      <4> QED BY <4>1
    <3> QED BY <3>1, <3>2, <3>3, <3>4
  <2>2. ~u.inst[i].isConnected /\ ~HalfUp(u.inst[i])
    BY <1>3, <1>4 DEF HalfUp
  <2> QED BY <1>4, <2>1, <2>2, ObjectChangeIsCalm
<1>7. mgr' = ScheduleReconnect(u, o.conn, o.cfg)
  BY <1>1 DEF u
<1>8. Calm(u, mgr')
  BY <1>2, <1>5, <1>7, ScheduleIsCalm
<1> QED BY <1>6, <1>8, CalmComposes

\* The listener withdraws the announcement of a production whose map holds the
\* connection it takes down, so no other connection is alone there.
LEMMA ConnectionClosedIsCalm ==
  ASSUME ManagerInv(mgr), NEW i \in Instances, ConnectionClosed(i)
  PROVE  Calm(mgr, mgr')
<1> DEFINE o == mgr.inst[i]
           n == [o EXCEPT !.open = FALSE, !.isConnected = FALSE]
           p == Owner[o.conn]
           u == [mgr EXCEPT !.inst[i] = n, !.announced[p] = FALSE]
<1>1. /\ mgr \in Manager /\ o \in ObsInstance /\ o.cfg \in Config /\ o.open
      /\ o.conn \in Conns /\ mgr.connections[o.conn] = i /\ Stored(mgr, i)
      /\ p \in Productions /\ Owner \in [Conns -> Productions] /\ i # None
  BY StoredFacts, ConstantsAssumption DEF ConnectionClosed, ManagerInv, ObsInstance, Stored
<1>2. /\ n \in ObsInstance /\ ~n.isConnected /\ ~n.open
      /\ n.conn = o.conn /\ n.timer = o.timer /\ n.phase = o.phase
      /\ n.heartbeat = o.heartbeat
  BY <1>1 DEF ObsInstance
<1>3. mgr' = ScheduleReconnect(u, o.conn, o.cfg)
  <2>1. [mgr EXCEPT !.inst[i].open = FALSE, !.inst[i].isConnected = FALSE,
                    !.announced[p] = FALSE] = u
    BY <1>1 DEF Manager, ObsInstance
  <2> QED BY <2>1 DEF ConnectionClosed
<1> HIDE DEF n
<1>4. /\ u \in Manager
      /\ u.connections = mgr.connections
      /\ u.productionMap = mgr.productionMap
      /\ u.announced = [mgr.announced EXCEPT ![p] = FALSE]
      /\ u.inst[i] = n
      /\ \A j \in Instances : j # i => u.inst[j] = mgr.inst[j]
  BY <1>1, <1>2 DEF Manager
<1> HIDE DEF u
<1>5. ManagerInv(u)
  <2>1. n.phase # "unused" => n.conn \in Conns
    BY <1>1, <1>2
  <2>2. Stored(mgr, i) => (n.phase = "running" => n.heartbeat)
    BY <1>1, <1>2, StoredFacts
  <2> QED BY <1>1, <1>2, <1>4, <2>1, <2>2, StoredFacts, ObjectChangePreserves
<1>6. Calm(mgr, u)
  <2>1. ASSUME NEW c \in Conns, Up(u, c), Alone(u, c), mgr.announced[Owner[c]]
        PROVE  u.announced[Owner[c]]
    <3>1. Owner[c] # p
      <4> SUFFICES ASSUME Owner[c] = p PROVE FALSE
        OBVIOUS
      <4>1. o.conn \in mgr.productionMap[p]
        BY <1>1 DEF ManagerInv
      <4>2. c = o.conn
        BY <4>1, <2>1, <1>4 DEF Alone
      <4> QED BY <4>2, <2>1, <1>1, <1>2, <1>4 DEF Up
    <3> QED BY <3>1, <2>1, <1>1, <1>4 DEF Manager
  <2>2. ~u.inst[i].isConnected /\ ~HalfUp(u.inst[i])
    BY <1>2, <1>4 DEF HalfUp
  <2> QED BY <1>4, <2>1, <2>2, ObjectChangeIsCalm
<1>7. Calm(u, mgr')
  BY <1>1, <1>3, <1>5, ScheduleIsCalm
<1> QED BY <1>6, <1>7, CalmComposes

LEMMA EngineKeepsAnnounced ==
  ASSUME ManagerInv(mgr), Engine, AnnouncedInv(mgr)
  PROVE  AnnouncedInv(mgr')
<1> SUFFICES ASSUME NEW i \in Instances,
                    \/ ConnectSucceeds(i) \/ ConnectFails(i) \/ BootstrapEnds(i)
                    \/ ConnectionClosed(i) \/ HeartbeatFails(i) \/ ReconnectTimerFires(i)
             PROVE  AnnouncedInv(mgr')
  BY DEF Engine
<1>0. mgr \in Manager /\ mgr.inst[i] \in ObsInstance
  BY StoredFacts
<1>1. CASE ConnectSucceeds(i)
  BY <1>1, ConnectSucceedsAnnounces
<1>2. CASE ConnectFails(i)
  <2>1. Calm(mgr, mgr')
    BY <1>2, ConnectFailsIsCalm
  <2> QED BY <2>1, CalmKeeps
<1>3. CASE BootstrapEnds(i) \/ HeartbeatFails(i)
  <2>1. /\ mgr'.connections = mgr.connections
        /\ mgr'.productionMap = mgr.productionMap
        /\ mgr'.announced = mgr.announced
        /\ \A j \in Instances : j # i => mgr'.inst[j] = mgr.inst[j]
        /\ mgr'.inst[i].isConnected => mgr.inst[i].isConnected
        /\ mgr'.inst[i].phase = "running" \/ ~mgr'.inst[i].isConnected
    <3>1. CASE BootstrapEnds(i)
      BY <1>0, <3>1 DEF BootstrapEnds, Manager, ObsInstance
    <3>2. CASE HeartbeatFails(i)
      BY <1>0, <3>2 DEF HeartbeatFails, Manager, ObsInstance
    <3> QED BY <1>3, <3>1, <3>2
  <2>2. ~HalfUp(mgr'.inst[i])
    BY <2>1 DEF HalfUp
  <2>3. Calm(mgr, mgr')
    BY <2>1, <2>2, ObjectChangeIsCalm
  <2> QED BY <2>3, CalmKeeps
<1>4. CASE ConnectionClosed(i)
  <2>1. Calm(mgr, mgr')
    BY <1>4, ConnectionClosedIsCalm
  <2> QED BY <2>1, CalmKeeps
<1>5. CASE ReconnectTimerFires(i)
  <2> DEFINE c == mgr.inst[i].conn
             cfg == mgr.inst[i].timer
             u == [mgr EXCEPT !.inst[i].timer = None]
             no == FALSE
  <2>1. c \in Conns /\ cfg \in Config /\ no \in BOOLEAN
    BY <1>0, <1>5, StoredFacts DEF ReconnectTimerFires, ManagerInv, ObsInstance
  <2>2. PICK j \in Free(mgr) : mgr' = ConnectObsById(u, c, cfg, no, j)
    BY <1>5 DEF ReconnectTimerFires
  <2>3. ManagerInv(u) /\ j \in Free(u) /\ Calm(mgr, u)
    BY ClearTimerPreserves, ClearTimerIsCalm
  <2> HIDE DEF u, c, cfg, no
  <2>4. Calm(u, mgr')
    BY <2>1, <2>2, <2>3, ConnectIsCalm
  <2> QED BY <2>3, <2>4, CalmComposes, CalmKeeps
<1> QED BY <1>1, <1>2, <1>3, <1>4, <1>5

LEMMA OperatorIsCalm ==
  ASSUME ManagerInv(mgr), TypeOK, Operator
  PROVE  Calm(mgr, mgr')
<1> DEFINE yes == TRUE
<1>0. /\ db \in [Conns -> Row \cup {None}]
      /\ Rows \subseteq Conns
      /\ Owner \in [Conns -> Productions]
      /\ \A p \in Productions : Default[p] \in Conns /\ Fallback[p] \in Conns
      /\ yes \in BOOLEAN
  BY ConstantsAssumption DEF TypeOK, Rows
<1>1. ASSUME NEW p \in Productions, NEW cfg \in Submitted, NEW enabled \in BOOLEAN,
             SaveConnection(p, cfg, enabled)
      PROVE  Calm(mgr, mgr')
  <2>1. CASE enabled
    <3>1. PICK i \in Free(mgr) : mgr' = ConnectObsById(mgr, Default[p], cfg, yes, i)
      BY <1>1, <2>1 DEF SaveConnection
    <3> HIDE DEF yes
    <3> QED BY <1>0, <3>1, ConfigTypes, ConnectIsCalm
  <2>2. CASE ~enabled
    <3>1. mgr' = DisconnectObs(mgr, p)
      BY <1>1, <2>2 DEF SaveConnection
    <3> QED BY <3>1, DisconnectIsCalm
  <2> QED BY <2>1, <2>2
<1>2. ASSUME NEW c \in Rows, NEW cfg \in Submitted, NEW primary \in BOOLEAN,
             NEW enabled \in BOOLEAN, AddConnection(c, cfg, primary, enabled)
      PROVE  Calm(mgr, mgr')
  <2>1. CASE enabled
    <3>1. PICK i \in Free(mgr) : mgr' = ConnectObsById(mgr, c, cfg, primary, i)
      BY <1>2, <2>1 DEF AddConnection
    <3> QED BY <1>0, <3>1, ConfigTypes, ConnectIsCalm
  <2>2. CASE ~enabled
    <3>1. mgr' = mgr
      BY <1>2, <2>2 DEF AddConnection
    <3> QED BY <3>1, CalmIsReflexive
  <2> QED BY <2>1, <2>2
<1>3. ASSUME NEW c \in Rows, RemoveConnection(c)
      PROVE  Calm(mgr, mgr')
  <2>1. mgr' = DisconnectObs(mgr, Owner[c]) /\ Owner[c] \in Productions
    BY <1>0, <1>3 DEF RemoveConnection
  <2> QED BY <2>1, DisconnectIsCalm
<1>4. ASSUME NEW c \in Rows, Reconnect(c)
      PROVE  Calm(mgr, mgr')
  <2> DEFINE cfg == Decrypted(db[c].cfg)
             isPrimary == db[c].isPrimary
  <2>1. PICK i \in Free(mgr), j \in Free(mgr) :
          /\ i # j
          /\ mgr' = ConnectObsById(ManualReconnect(mgr, c, i), c, cfg, isPrimary, j)
    BY <1>4 DEF Reconnect
  <2>2. c \in Conns /\ cfg \in Config /\ isPrimary \in BOOLEAN
    BY <1>0, <1>4, ConfigTypes DEF Reconnect, Row
  <2> DEFINE u == ManualReconnect(mgr, c, i)
  <2>3. ManagerInv(u) /\ j \in Free(u) /\ Calm(mgr, u)
    BY <2>1, <2>2, ManualReconnectPreserves, ManualReconnectIsCalm
  <2>4. mgr' = ConnectObsById(u, c, cfg, isPrimary, j)
    BY <2>1
  <2> HIDE DEF u, cfg, isPrimary
  <2>5. Calm(u, mgr')
    BY <2>2, <2>3, <2>4, ConnectIsCalm
  <2> QED BY <2>3, <2>5, CalmComposes
<1>5. ASSUME NEW p \in Productions, ReconnectPrimary(p)
      PROVE  Calm(mgr, mgr')
  <2>1. PICK c \in PrimaryRows(p), i \in Free(mgr) : mgr' = ManualReconnect(mgr, c, i)
    BY <1>5 DEF ReconnectPrimary
  <2>2. c \in Conns
    BY <1>0 DEF PrimaryRows, RowsOf
  <2> QED BY <2>1, <2>2, ManualReconnectIsCalm
<1>6. ASSUME NEW p \in Productions, SwitchEngine(p)
      PROVE  Calm(mgr, mgr')
  <2>1. PICK c \in IF PrimaryRows(p) # {} THEN PrimaryRows(p) ELSE {Fallback[p]},
             i \in Free(mgr) : mgr' = ConnectObsById(mgr, c, NoConfig, yes, i)
    BY <1>6 DEF SwitchEngine
  <2>2. c \in Conns
    BY <1>0, <2>1 DEF PrimaryRows, RowsOf
  <2> HIDE DEF yes
  <2> QED BY <1>0, <2>1, <2>2, ConfigTypes, ConnectIsCalm
<1> QED BY <1>1, <1>2, <1>3, <1>4, <1>5, <1>6 DEF Operator

\* After a restart every stored connection is a new attempt.
LEMMA RestartKeepsAnnounced ==
  ASSUME TypeOK, Restart
  PROVE  AnnouncedInv(mgr')
<1>1. PICK f \in [Enabled -> Instances],
           primary \in [Productions -> Conns \cup {None}] :
        mgr' = LoadAllConnections(f, primary)
  BY DEF Restart
<1>2. \A i \in Instances : ~mgr'.inst[i].isConnected
  BY <1>1 DEF LoadAllConnections, NewInstance, Unused
<1>3. \A c \in Conns : mgr'.connections[c] # None => mgr'.connections[c] \in Instances
  BY <1>1 DEF LoadAllConnections
<1> QED BY <1>2, <1>3 DEF AnnouncedInv, Announced, ConnectingIsDown, HalfUp, Up

\* With a single connection in the production, the last obs.connection.state event
\* agrees with the store whenever that connection is up.
THEOREM UpIsAnnounced == Spec => []ConnectedIsAnnounced
<1>1. Init => AnnouncedInv(mgr)
  <2> SUFFICES ASSUME Init PROVE AnnouncedInv(mgr)
    OBVIOUS
  <2>1. \A i \in Instances : ~mgr.inst[i].isConnected
    BY DEF Init, Unused
  <2>2. \A c \in Conns : mgr.connections[c] = None
    BY DEF Init
  <2> QED BY <2>1, <2>2 DEF AnnouncedInv, Announced, ConnectingIsDown, HalfUp, Up
<1>2. IInv /\ AnnouncedInv(mgr) /\ [Next]_vars => AnnouncedInv(mgr)'
  <2> SUFFICES ASSUME IInv, AnnouncedInv(mgr), [Next]_vars PROVE AnnouncedInv(mgr')
    OBVIOUS
  <2>0. ManagerInv(mgr) /\ TypeOK
    BY DEF IInv
  <2>1. CASE Operator
    <3>1. Calm(mgr, mgr')
      BY <2>0, <2>1, OperatorIsCalm
    <3> QED BY <3>1, CalmKeeps
  <2>2. CASE Engine
    BY <2>0, <2>2, EngineKeepsAnnounced
  <2>3. CASE Restart
    BY <2>0, <2>3, RestartKeepsAnnounced
  <2>4. CASE UNCHANGED vars
    <3>1. mgr' = mgr
      BY <2>4 DEF vars
    <3> QED BY <3>1
  <2> QED BY <2>1, <2>2, <2>3, <2>4 DEF Next
<1>3. AnnouncedInv(mgr) => ConnectedIsAnnounced
  BY DEF AnnouncedInv, Announced, Up, Alone, ConnectedIsAnnounced
<1> QED BY <1>1, <1>2, <1>3, Invariance, PTL DEF Spec
=============================================================================
