--------------------------- MODULE VmixPollingProofs ---------------------------
(***************************************************************************)
(* Proofs about VmixPolling, for every set of productions, addresses and   *)
(* instances.  The three invariants are inductive together: PolledIffStored*)
(* says an instance is in the map under its own production only, which is  *)
(* what lets a step on one instance leave the other productions alone.     *)
(* The loss of a connection is proved with the history MCVmixLoss adds.    *)
(***************************************************************************)
EXTENDS MCVmixLoss, TLAPS

IInv == TypeOK /\ PolledIffStored /\ RuntimeFollowsRow

\* The helpers on an instance keep its type.
LEMMA FailedType ==
  ASSUME NEW o \in VmixInstance
  PROVE  /\ Failed(o) \in VmixInstance
         /\ Failed(o).prod = o.prod /\ Failed(o).url = o.url
         /\ Failed(o).pollInterval = o.pollInterval
         /\ Failed(o).isConnected = o.isConnected
<1> DEFINE f == IF o.failures < DisconnectAfter THEN o.failures + 1 ELSE o.failures
           g == IF o.failingFor = None THEN 0 ELSE o.failingFor
<1>1. f \in 0 .. DisconnectAfter
  BY ConstantsAssumption DEF VmixInstance
<1>2. g \in 0 .. FailureWindow \cup {None}
  BY ConstantsAssumption DEF VmixInstance
<1>3. Failed(o) = [o EXCEPT !.failures = f, !.failingFor = g, !.pollInFlight = FALSE]
  BY DEF Failed
<1> HIDE DEF f, g
<1> QED  BY <1>1, <1>2, <1>3 DEF VmixInstance

\* An instance whose connected flag is b.
LEMMA ConnectedType ==
  ASSUME NEW o \in VmixInstance, NEW b \in BOOLEAN
  PROVE  /\ [o EXCEPT !.isConnected = b] \in VmixInstance
         /\ [o EXCEPT !.isConnected = b].isConnected = b
  BY DEF VmixInstance

LEMMA RecoveredType ==
  ASSUME NEW o \in VmixInstance, NEW read \in Programs, NEW b \in BOOLEAN, b
  PROVE  LET n == [o EXCEPT !.program = read, !.isConnected = b, !.failures = 0,
                            !.failingFor = None, !.pollInFlight = FALSE]
         IN  /\ n \in VmixInstance /\ n.isConnected
             /\ n.prod = o.prod /\ n.url = o.url
             /\ n.pollInterval = o.pollInterval
<1> DEFINE zero == 0
<1>1. zero \in 0 .. DisconnectAfter
  BY ConstantsAssumption
<1>2. zero = 0
  OBVIOUS
<1> HIDE DEF zero
<1>3. LET n == [o EXCEPT !.program = read, !.isConnected = b, !.failures = zero,
                         !.failingFor = None, !.pollInFlight = FALSE]
      IN  /\ n \in VmixInstance /\ n.isConnected
          /\ n.prod = o.prod /\ n.url = o.url
          /\ n.pollInterval = o.pollInterval
  BY <1>1 DEF VmixInstance
<1> QED  BY <1>2, <1>3

LEMMA UnusedType ==
  /\ Unused \in VmixInstance
  /\ ~Unused.pollInterval /\ ~Unused.isConnected
  BY ConstantsAssumption DEF Unused, VmixInstance

LEMMA ReleasedType ==
  ASSUME NEW o \in VmixInstance
  PROVE  Released(o) \in VmixInstance /\ ~Released(o).pollInterval
  BY UnusedType DEF Released, VmixInstance

LEMMA NewInstanceType ==
  ASSUME NEW p \in Productions, NEW url \in Urls \cup {None}
  PROVE  /\ NewInstance(p, url) \in VmixInstance
         /\ NewInstance(p, url).prod = p /\ NewInstance(p, url).url = url
         /\ NewInstance(p, url).pollInterval
         /\ ~NewInstance(p, url).isConnected
<1> DEFINE o == [Unused EXCEPT !.prod = p, !.url = url, !.pollInterval = TRUE]
<1>1. /\ o \in VmixInstance /\ o.prod = p /\ o.url = url /\ o.pollInterval
      /\ ~o.isConnected
  <2> DEFINE yes == TRUE
  <2>1. o = [Unused EXCEPT !.prod = p, !.url = url, !.pollInterval = yes] /\ yes
    OBVIOUS
  <2> HIDE DEF yes
  <2> QED  BY <2>1, UnusedType DEF VmixInstance
<1>2. [o EXCEPT !.pollInFlight = TRUE] \in VmixInstance
  BY <1>1 DEF VmixInstance
<1>3. NewInstance(p, url) = IF url = None THEN Failed(o)
                            ELSE [o EXCEPT !.pollInFlight = TRUE]
  BY DEF NewInstance
<1> HIDE DEF o
<1>4. /\ Failed(o) \in VmixInstance /\ Failed(o).prod = p /\ Failed(o).url = url
      /\ Failed(o).pollInterval /\ ~Failed(o).isConnected
  BY <1>1, FailedType
<1> QED  BY <1>1, <1>2, <1>3, <1>4 DEF VmixInstance

\* No instance is in the map of two productions.
LEMMA StoredOnce ==
  ASSUME IInv, NEW p \in Productions, NEW q \in Productions,
         connections[p] # None, connections[p] = connections[q]
  PROVE  p = q
  BY DEF IInv, PolledIffStored

LEMMA InitEstablishesIInv == Init => IInv
<1> SUFFICES ASSUME Init PROVE IInv
  OBVIOUS
<1>1. TypeOK
  BY ConstantsAssumption, UnusedType DEF Init, TypeOK
<1>2. PolledIffStored
  BY ConstantsAssumption, UnusedType DEF Init, PolledIffStored, Stored
<1>3. RuntimeFollowsRow
  BY DEF Init, RuntimeFollowsRow, Enabled
<1> QED  BY <1>1, <1>2, <1>3 DEF IInv

\* connectVmix: afterwards the production is polled at the address, the others are
\* as they were.
LEMMA ConnectVmixEffect ==
  ASSUME IInv, NEW p \in Productions, NEW url \in Urls \cup {None}, ConnectVmix(p, url)
  PROVE  /\ connections' \in [Productions -> Instances \cup {None}]
         /\ inst' \in [Instances -> VmixInstance]
         /\ announced' \in [Productions -> BOOLEAN]
         /\ published' = published
         /\ PolledIffStored'
         /\ connections'[p] # None /\ inst'[connections'[p]].url = url
         /\ \A q \in Productions \ {p} :
              /\ connections'[q] = connections[q]
              /\ announced'[q] = announced[q]
              /\ connections[q] # None =>
                   inst'[connections'[q]] = inst[connections[q]]
         /\ announced[p] = IsConnected(p) => announced'[p] = IsConnected(p)'
<1> DEFINE e == connections[p]
<1>t. /\ connections \in [Productions -> Instances \cup {None}]
      /\ inst \in [Instances -> VmixInstance]
      /\ announced \in [Productions -> BOOLEAN]
  BY DEF IInv, TypeOK
<1>1. CASE UNCHANGED manager
  <2>1. e # None /\ inst[e].url = url
    BY <1>1, <1>t, ConstantsAssumption DEF ConnectVmix, manager, Free, Stored
  <2> QED
    BY <1>1, <1>t, <2>1 DEF manager, PolledIffStored, Stored, IInv, IsConnected
<1>2. ASSUME NEW i \in Free,
             connections' = [connections EXCEPT ![p] = i],
             inst' = [j \in Instances |->
                        IF j = i THEN NewInstance(p, url)
                        ELSE IF j = e THEN Released(inst[j]) ELSE inst[j]],
             announced' = IF e = None THEN announced
                                      ELSE [announced EXCEPT ![p] = FALSE],
             published' = published
      PROVE  /\ connections' \in [Productions -> Instances \cup {None}]
             /\ inst' \in [Instances -> VmixInstance]
             /\ announced' \in [Productions -> BOOLEAN]
             /\ published' = published
             /\ PolledIffStored'
             /\ connections'[p] # None /\ inst'[connections'[p]].url = url
             /\ \A q \in Productions \ {p} :
                  /\ connections'[q] = connections[q]
                  /\ announced'[q] = announced[q]
                  /\ connections[q] # None =>
                       inst'[connections'[q]] = inst[connections[q]]
             /\ announced[p] = IsConnected(p) => announced'[p] = IsConnected(p)'
  <2>1. i \in Instances /\ i # None /\ ~Stored(i)
    BY ConstantsAssumption DEF Free
  <2>2. /\ connections' \in [Productions -> Instances \cup {None}]
        /\ announced' \in [Productions -> BOOLEAN]
    BY <1>2, <1>t, <2>1
  <2>3. inst' \in [Instances -> VmixInstance]
    BY <1>2, <1>t, NewInstanceType, ReleasedType
  <2>4. connections'[p] = i /\ inst'[i] = NewInstance(p, url)
    BY <1>2, <1>t, <2>1
  <2>5. ASSUME NEW q \in Productions \ {p}
        PROVE  /\ connections'[q] = connections[q]
               /\ announced'[q] = announced[q]
               /\ connections[q] # None =>
                    inst'[connections'[q]] = inst[connections[q]]
    BY <1>2, <1>t, <2>1, StoredOnce DEF Stored
  <2>6. PolledIffStored'
    <3>1. ASSUME NEW j \in Instances PROVE (inst[j].pollInterval <=> Stored(j))'
      <4>1. CASE j = i
        BY <4>1, <2>4, NewInstanceType DEF Stored
      <4>2. CASE j # i /\ j = e
        <5>1. ~inst'[j].pollInterval
          BY <4>2, <1>2, <1>t, ReleasedType
        <5>2. ~(Stored(j))'
          BY <4>2, <1>t, <2>4, <2>5, StoredOnce, ConstantsAssumption DEF Stored
        <5> QED  BY <5>1, <5>2
      <4>3. CASE j # i /\ j # e
        <5>1. inst'[j] = inst[j]
          BY <4>3, <1>2
        <5>2. (Stored(j))' <=> Stored(j)
          BY <4>3, <2>4, <2>5 DEF Stored
        <5> QED  BY <5>1, <5>2 DEF IInv, PolledIffStored
      <4> QED  BY <4>1, <4>2, <4>3
    <3>2. ASSUME NEW q \in Productions, connections'[q] # None
          PROVE  inst'[connections'[q]].prod = q
      BY <3>2, <2>4, <2>5, NewInstanceType DEF IInv, PolledIffStored
    <3> QED  BY <3>1, <3>2 DEF PolledIffStored
  <2>7. connections'[p] # None /\ inst'[connections'[p]].url = url
    BY <2>1, <2>4, NewInstanceType
  <2>8. ASSUME announced[p] = IsConnected(p) PROVE announced'[p] = IsConnected(p)'
    <3>1. ~inst'[connections'[p]].isConnected
      BY <2>4, NewInstanceType
    <3>2. announced'[p] = FALSE
      BY <2>8, <1>2, <1>t DEF IsConnected
    <3> QED  BY <3>1, <3>2 DEF IsConnected
  <2> QED  BY <1>2, <2>2, <2>3, <2>5, <2>6, <2>7, <2>8
<1> QED  BY <1>1, <1>2, Zenon DEF ConnectVmix

\* stopPolling: the production is polled no more, the others are as they were.
LEMMA StopPollingEffect ==
  ASSUME IInv, NEW p \in Productions, StopPolling(p)
  PROVE  /\ connections' \in [Productions -> Instances \cup {None}]
         /\ inst' \in [Instances -> VmixInstance]
         /\ announced' \in [Productions -> BOOLEAN]
         /\ published' = published
         /\ PolledIffStored'
         /\ connections'[p] = None
         /\ \A q \in Productions \ {p} :
              /\ connections'[q] = connections[q]
              /\ announced'[q] = announced[q]
              /\ connections[q] # None =>
                   inst'[connections'[q]] = inst[connections[q]]
         /\ announced[p] = IsConnected(p) => announced'[p] = IsConnected(p)'
<1> DEFINE e == connections[p]
<1>t. /\ connections \in [Productions -> Instances \cup {None}]
      /\ inst \in [Instances -> VmixInstance]
      /\ announced \in [Productions -> BOOLEAN]
  BY DEF IInv, TypeOK
<1>1. CASE e = None
  BY <1>1, <1>t DEF StopPolling, manager, PolledIffStored, Stored, IInv, IsConnected
<1>2. CASE e # None
  <2>1. /\ connections' = [connections EXCEPT ![p] = None]
        /\ inst' = [inst EXCEPT ![e] = Released(@)]
        /\ announced' = [announced EXCEPT ![p] = FALSE]
        /\ published' = published
    BY <1>2 DEF StopPolling
  <2>2. /\ connections' \in [Productions -> Instances \cup {None}]
        /\ announced' \in [Productions -> BOOLEAN]
        /\ e \in Instances
    BY <2>1, <1>t, <1>2
  <2>3. inst' \in [Instances -> VmixInstance]
    BY <2>1, <1>t, ReleasedType
  <2>4. ASSUME NEW q \in Productions \ {p}
        PROVE  /\ connections'[q] = connections[q]
               /\ announced'[q] = announced[q]
               /\ connections[q] # None =>
                    inst'[connections'[q]] = inst[connections[q]]
    BY <2>1, <1>t, <1>2, StoredOnce
  <2>5. PolledIffStored'
    <3>1. ASSUME NEW j \in Instances PROVE (inst[j].pollInterval <=> Stored(j))'
      <4>1. CASE j = e
        <5>1. ~inst'[j].pollInterval
          BY <4>1, <2>1, <2>2, <1>t, ReleasedType
        <5>2. ~(Stored(j))'
          BY <4>1, <1>2, <1>t, <2>1, <2>4, StoredOnce DEF Stored
        <5> QED  BY <5>1, <5>2
      <4>2. CASE j # e
        <5>1. inst'[j] = inst[j]
          BY <4>2, <2>1, <1>t
        <5>2. (Stored(j))' <=> Stored(j)
          BY <4>2, <2>1, <2>4, <1>t, ConstantsAssumption DEF Stored
        <5> QED  BY <5>1, <5>2 DEF IInv, PolledIffStored
      <4> QED  BY <4>1, <4>2
    <3>2. ASSUME NEW q \in Productions, connections'[q] # None
          PROVE  inst'[connections'[q]].prod = q
      BY <3>2, <2>1, <2>4, <1>t DEF IInv, PolledIffStored
    <3> QED  BY <3>1, <3>2 DEF PolledIffStored
  <2> QED  BY <2>1, <2>2, <2>3, <2>4, <2>5, <1>t DEF IsConnected
<1> QED  BY <1>1, <1>2

\* A poll that starts or ends on instance i changes nothing of it that the map or
\* the rows speak of.
LEMMA PollKeepsIInv ==
  ASSUME IInv, NEW i \in Instances, NEW o \in VmixInstance,
         o.prod = inst[i].prod, o.url = inst[i].url,
         o.pollInterval = inst[i].pollInterval,
         inst' = [inst EXCEPT ![i] = o] \/ inst' = [inst EXCEPT ![i] = Settled(i, o)],
         announced' \in [Productions -> BOOLEAN],
         published' \in [Productions -> Programs \cup {None}],
         UNCHANGED <<connections, db, up, ops, restarts>>
  PROVE  IInv'
<1>t. inst \in [Instances -> VmixInstance] /\ TypeOK
  BY DEF IInv, TypeOK
<1> DEFINE n == inst'[i]
<1>1. /\ n \in VmixInstance
      /\ n.pollInterval = inst[i].pollInterval
      /\ Stored(i) => n.prod = inst[i].prod /\ n.url = inst[i].url
      /\ \A j \in Instances \ {i} : inst'[j] = inst[j]
      /\ inst' \in [Instances -> VmixInstance]
  <2>1. Stored(i) <=> inst[i].pollInterval
    BY DEF IInv, PolledIffStored
  <2>2. inst[i].pollInterval \in BOOLEAN
    BY <1>t DEF VmixInstance
  <2> QED  BY <1>t, <2>1, <2>2, UnusedType DEF Settled, VmixInstance
<1>2. TypeOK'
  BY <1>t, <1>1 DEF TypeOK
<1>3. PolledIffStored'
  BY <1>t, <1>1 DEF IInv, PolledIffStored, Stored, TypeOK
<1>4. RuntimeFollowsRow'
  <2> SUFFICES ASSUME NEW p \in Productions
               PROVE  /\ (p \in Enabled)' => /\ connections'[p] # None
                                             /\ inst'[connections'[p]].url = db'[p].url
                      /\ connections'[p] # None /\ ~(p \in Enabled)' =>
                           inst'[connections'[p]].url = None
    BY DEF RuntimeFollowsRow
  <2>1. connections[p] # None => inst'[connections[p]].url = inst[connections[p]].url
    BY <1>t, <1>1 DEF Stored, TypeOK
  <2>2. (p \in Enabled)' <=> p \in Enabled
    BY DEF Enabled
  <2> QED  BY <2>1, <2>2 DEF IInv, RuntimeFollowsRow
<1> QED  BY <1>2, <1>3, <1>4 DEF IInv

(***************************************************************************)
(* Every step preserves IInv.                                              *)
(***************************************************************************)
LEMMA PollStartsPreservesIInv ==
  ASSUME IInv, NEW i \in Instances, PollStarts(i)
  PROVE  IInv'
<1>t. inst[i] \in VmixInstance
  BY DEF IInv, TypeOK
<1> DEFINE started == [inst[i] EXCEPT !.pollInFlight = TRUE]
           o == IF inst[i].url = None THEN Failed(inst[i]) ELSE started
<1>1. started \in VmixInstance /\ started.prod = inst[i].prod
      /\ started.url = inst[i].url /\ started.pollInterval = inst[i].pollInterval
  BY <1>t DEF VmixInstance
<1>2. o \in VmixInstance /\ o.prod = inst[i].prod /\ o.url = inst[i].url
      /\ o.pollInterval = inst[i].pollInterval
  BY <1>t, <1>1, FailedType
<1>3. inst' = [inst EXCEPT ![i] = o]
      /\ UNCHANGED <<connections, announced, published, db, up, ops, restarts>>
  BY DEF PollStarts
<1> HIDE DEF o
<1>4. announced' \in [Productions -> BOOLEAN]
      /\ published' \in [Productions -> Programs \cup {None}]
  BY <1>3 DEF IInv, TypeOK
<1> QED  BY <1>2, <1>3, <1>4, PollKeepsIInv

LEMMA PollSucceedsPreservesIInv ==
  ASSUME IInv, NEW i \in Instances, NEW read \in Programs, PollSucceeds(i, read)
  PROVE  IInv'
<1>t. inst[i] \in VmixInstance
  BY DEF IInv, TypeOK
<1> DEFINE o == [inst[i] EXCEPT !.program = read, !.isConnected = TRUE,
                                !.failures = 0, !.failingFor = None,
                                !.pollInFlight = FALSE]
<1>1. o \in VmixInstance /\ o.prod = inst[i].prod /\ o.url = inst[i].url
      /\ o.pollInterval = inst[i].pollInterval
  BY <1>t, RecoveredType
<1>2. /\ inst' = [inst EXCEPT ![i] = Settled(i, o)]
      /\ published' = [published EXCEPT ![inst[i].prod] =
                                    IF inst[i].program = read THEN @ ELSE read]
      /\ announced' = [announced EXCEPT ![inst[i].prod] = @ \/ ~inst[i].isConnected]
      /\ UNCHANGED <<connections, db, up, ops, restarts>>
  BY DEF PollSucceeds
<1> HIDE DEF o
<1>3. announced' \in [Productions -> BOOLEAN]
  BY <1>2 DEF IInv, TypeOK
<1>4. published' \in [Productions -> Programs \cup {None}]
  BY <1>2 DEF IInv, TypeOK
<1> QED  BY <1>1, <1>2, <1>3, <1>4, PollKeepsIInv

LEMMA PollFailsPreservesIInv ==
  ASSUME IInv, NEW i \in Instances, PollFails(i)
  PROVE  IInv'
<1>t. inst[i] \in VmixInstance
  BY DEF IInv, TypeOK
<1> DEFINE o == [Failed(inst[i]) EXCEPT !.isConnected = @ /\ ~Lost(inst[i])]
<1>1. o \in VmixInstance /\ o.prod = inst[i].prod /\ o.url = inst[i].url
      /\ o.pollInterval = inst[i].pollInterval
  <2> DEFINE b == Failed(inst[i]).isConnected /\ ~Lost(inst[i])
  <2>1. b \in BOOLEAN
    OBVIOUS
  <2>2. o = [Failed(inst[i]) EXCEPT !.isConnected = b]
    OBVIOUS
  <2> HIDE DEF b
  <2> QED  BY <2>1, <2>2, <1>t, FailedType DEF VmixInstance
<1>2. /\ inst' = [inst EXCEPT ![i] = Settled(i, o)]
      /\ announced' = [announced EXCEPT ![inst[i].prod] = @ /\ ~Lost(inst[i])]
      /\ UNCHANGED <<published, connections, db, up, ops, restarts>>
  BY DEF PollFails
<1> HIDE DEF o
<1>3. announced' \in [Productions -> BOOLEAN]
      /\ published' \in [Productions -> Programs \cup {None}]
  BY <1>2 DEF IInv, TypeOK
<1> QED  BY <1>1, <1>2, <1>3, PollKeepsIInv

LEMMA TickPreservesIInv ==
  ASSUME IInv, Tick
  PROVE  IInv'
<1>t. inst \in [Instances -> VmixInstance]
  BY DEF IInv, TypeOK
<1> DEFINE aged(o) == IF o.failingFor \in 0 .. FailureWindow - 1
                      THEN o.failingFor + 1 ELSE o.failingFor
<1>1. ASSUME NEW j \in Instances
      PROVE  /\ inst'[j] \in VmixInstance
             /\ inst'[j].prod = inst[j].prod /\ inst'[j].url = inst[j].url
             /\ inst'[j].pollInterval = inst[j].pollInterval
  <2>1. inst'[j] = [inst[j] EXCEPT !.failingFor = aged(inst[j])]
    BY DEF Tick
  <2>2. aged(inst[j]) \in 0 .. FailureWindow \cup {None}
    BY <1>t, ConstantsAssumption DEF VmixInstance
  <2> HIDE DEF aged
  <2> QED  BY <1>t, <2>1, <2>2 DEF VmixInstance
<1>2. inst' \in [Instances -> VmixInstance]
  BY <1>1 DEF Tick
<1>3. TypeOK'
  BY <1>2 DEF Tick, IInv, TypeOK
<1>4. PolledIffStored'
  BY <1>1 DEF Tick, IInv, TypeOK, PolledIffStored, Stored
<1>5. RuntimeFollowsRow'
  BY <1>1 DEF Tick, IInv, TypeOK, RuntimeFollowsRow, Enabled
<1> QED  BY <1>3, <1>4, <1>5 DEF IInv

\* A request settles its own production; the runtime and the row of the others are
\* as they were.
LEMMA RequestPreservesIInv ==
  ASSUME IInv, NEW p \in Productions, Request,
         db' \in [Productions -> Row \cup {None}],
         \A q \in Productions \ {p} : db'[q] = db[q],
         /\ connections' \in [Productions -> Instances \cup {None}]
         /\ inst' \in [Instances -> VmixInstance]
         /\ announced' \in [Productions -> BOOLEAN]
         /\ published' = published
         /\ PolledIffStored',
         \A q \in Productions \ {p} :
           /\ connections'[q] = connections[q]
           /\ connections[q] # None => inst'[connections'[q]] = inst[connections[q]],
         /\ (p \in Enabled)' =>
              connections'[p] # None /\ inst'[connections'[p]].url = db'[p].url
         /\ connections'[p] # None /\ ~(p \in Enabled)' =>
              inst'[connections'[p]].url = None
  PROVE  IInv'
<1>1. TypeOK'
  <2>1. ops' \in 0 .. MaxOps
    BY ConstantsAssumption DEF IInv, TypeOK, Request
  <2> QED  BY <2>1 DEF IInv, TypeOK, Request
<1>2. RuntimeFollowsRow'
  <2> SUFFICES ASSUME NEW q \in Productions
               PROVE  /\ (q \in Enabled)' => /\ connections'[q] # None
                                             /\ inst'[connections'[q]].url = db'[q].url
                      /\ connections'[q] # None /\ ~(q \in Enabled)' =>
                           inst'[connections'[q]].url = None
    BY DEF RuntimeFollowsRow
  <2>1. CASE q = p
    BY <2>1
  <2>2. CASE q # p
    <3>1. (q \in Enabled)' <=> q \in Enabled
      BY <2>2 DEF Enabled
    <3> QED  BY <2>2, <3>1 DEF IInv, RuntimeFollowsRow
  <2> QED  BY <2>1, <2>2
<1> QED  BY <1>1, <1>2 DEF IInv

LEMMA SaveConnectionPreservesIInv ==
  ASSUME IInv, NEW p \in Productions, NEW url \in Urls, NEW enabled \in BOOLEAN,
         SaveConnection(p, url, enabled)
  PROVE  IInv'
<1>1. /\ Request
      /\ db' = [db EXCEPT ![p] = [url |-> url, isEnabled |-> enabled]]
      /\ db \in [Productions -> Row \cup {None}]
  BY DEF SaveConnection, IInv, TypeOK
<1>2. /\ db' \in [Productions -> Row \cup {None}]
      /\ \A q \in Productions \ {p} : db'[q] = db[q]
      /\ db'[p] = [url |-> url, isEnabled |-> enabled]
  BY <1>1 DEF Row
<1>3. db'[p] # None
  BY <1>2, ConstantsAssumption DEF Row
<1>4. CASE enabled
  <2>1. ConnectVmix(p, url)
    BY <1>4 DEF SaveConnection
  <2>2. (p \in Enabled)'
    BY <1>2, <1>3, <1>4 DEF Enabled
  <2> QED  BY <1>1, <1>2, <2>1, <2>2, ConnectVmixEffect, RequestPreservesIInv
<1>5. CASE ~enabled
  <2>1. StopPolling(p)
    BY <1>5 DEF SaveConnection
  <2>2. ~(p \in Enabled)'
    BY <1>2, <1>5 DEF Enabled
  <2> QED  BY <1>1, <1>2, <2>1, <2>2, StopPollingEffect, RequestPreservesIInv
<1> QED  BY <1>4, <1>5

LEMMA SwitchEnginePreservesIInv ==
  ASSUME IInv, NEW p \in Productions, SwitchEngine(p)
  PROVE  IInv'
<1>1. /\ Request /\ ConnectVmix(p, None)
      /\ db' = [db EXCEPT ![p] = IF @ = None THEN None
                                  ELSE [@ EXCEPT !.isEnabled = FALSE]]
      /\ db \in [Productions -> Row \cup {None}]
  BY DEF SwitchEngine, IInv, TypeOK
<1>2. /\ db' \in [Productions -> Row \cup {None}]
      /\ \A q \in Productions \ {p} : db'[q] = db[q]
  BY <1>1 DEF Row
<1>3. ~(p \in Enabled)'
  <2>1. CASE db[p] = None
    BY <2>1, <1>1 DEF Enabled
  <2>2. CASE db[p] # None
    BY <2>2, <1>1 DEF Enabled, Row
  <2> QED  BY <2>1, <2>2
<1> QED  BY <1>1, <1>2, <1>3, ConnectVmixEffect, RequestPreservesIInv

LEMMA RestartPreservesIInv ==
  ASSUME IInv, Restart
  PROVE  IInv'
<1>1. PICK f \in [Enabled -> Instances] :
        /\ \A p, q \in Enabled : f[p] = f[q] => p = q
        /\ connections' = [p \in Productions |-> IF p \in Enabled THEN f[p] ELSE None]
        /\ inst' = [i \in Instances |->
                       IF \E p \in Enabled : f[p] = i
                       THEN LET p == CHOOSE p \in Enabled : f[p] = i
                            IN NewInstance(p, db[p].url)
                       ELSE Unused]
  BY DEF Restart
<1>2. ASSUME NEW p \in Enabled
      PROVE  /\ p \in Productions /\ db[p].url \in Urls
             /\ f[p] \in Instances /\ f[p] # None
             /\ connections'[p] = f[p]
             /\ inst'[f[p]] = NewInstance(p, db[p].url)
  <2>1. p \in Productions /\ db[p].url \in Urls
    BY DEF Enabled, IInv, TypeOK, Row
  <2>2. (CHOOSE q \in Enabled : f[q] = f[p]) = p
    BY <1>1
  <2>3. f[p] \in Instances /\ f[p] # None
    BY <1>1, ConstantsAssumption
  <2> QED  BY <1>1, <2>1, <2>2, <2>3
<1>3. ASSUME NEW i \in Instances, ~\E p \in Enabled : f[p] = i
      PROVE  inst'[i] = Unused
  BY <1>1, <1>3
<1>4. ASSUME NEW p \in Productions, p \notin Enabled
      PROVE  connections'[p] = None
  BY <1>1, <1>4
<1>5. inst' \in [Instances -> VmixInstance]
  <2>1. ASSUME NEW i \in Instances PROVE inst'[i] \in VmixInstance
    BY <1>2, <1>3, NewInstanceType, UnusedType
  <2>2. inst' = [i \in Instances |-> inst'[i]]
    BY <1>1
  <2> QED  BY <2>1, <2>2
<1>6. connections' \in [Productions -> Instances \cup {None}]
  BY <1>1, <1>2
<1>7. /\ restarts' \in 0 .. MaxRestarts
      /\ announced' \in [Productions -> BOOLEAN]
      /\ published' \in [Productions -> Programs \cup {None}]
      /\ UNCHANGED <<db, up, ops>>
  BY ConstantsAssumption DEF Restart, IInv, TypeOK
<1>8. TypeOK'
  BY <1>5, <1>6, <1>7 DEF IInv, TypeOK
<1>9. PolledIffStored'
  <2>1. ASSUME NEW i \in Instances PROVE (inst[i].pollInterval <=> Stored(i))'
    <3>1. CASE \E p \in Enabled : f[p] = i
      BY <3>1, <1>2, NewInstanceType DEF Stored
    <3>2. CASE ~\E p \in Enabled : f[p] = i
      <4>1. ~(Stored(i))'
        BY <3>2, <1>2, <1>4, ConstantsAssumption DEF Stored
      <4> QED  BY <3>2, <4>1, <1>3, UnusedType
    <3> QED  BY <3>1, <3>2
  <2>2. ASSUME NEW p \in Productions, connections'[p] # None
        PROVE  inst'[connections'[p]].prod = p
    BY <2>2, <1>2, <1>4, NewInstanceType
  <2> QED  BY <2>1, <2>2 DEF PolledIffStored
<1>10. RuntimeFollowsRow'
  <2>1. ASSUME NEW p \in Productions PROVE (p \in Enabled)' <=> p \in Enabled
    BY <1>7 DEF Enabled
  <2> QED  BY <2>1, <1>2, <1>4, <1>7, NewInstanceType DEF RuntimeFollowsRow
<1> QED  BY <1>8, <1>9, <1>10 DEF IInv

LEMMA EngineTogglesPreservesIInv ==
  ASSUME IInv, NEW u \in Urls, EngineToggles(u)
  PROVE  IInv'
<1>1. up' \in [Urls -> BOOLEAN]
  BY DEF EngineToggles, IInv, TypeOK
<1> QED
  BY <1>1 DEF EngineToggles, manager, IInv, TypeOK, PolledIffStored, Stored,
              RuntimeFollowsRow, Enabled

LEMMA StepPreservesIInv == IInv /\ [Next]_vars => IInv'
<1> SUFFICES ASSUME IInv, [Next]_vars PROVE IInv'
  OBVIOUS
<1>1. CASE Operator
  BY <1>1, SaveConnectionPreservesIInv, SwitchEnginePreservesIInv DEF Operator
<1>2. CASE Restart
  BY <1>2, RestartPreservesIInv
<1>3. CASE Tick
  BY <1>3, TickPreservesIInv
<1>4. ASSUME NEW i \in Instances, PollStarts(i) \/ PollEnds(i) PROVE IInv'
  BY <1>4, PollStartsPreservesIInv, PollFailsPreservesIInv, PollSucceedsPreservesIInv
     DEF PollEnds
<1>5. ASSUME NEW u \in Urls, EngineToggles(u) PROVE IInv'
  BY <1>5, EngineTogglesPreservesIInv
<1>6. CASE UNCHANGED vars
  BY <1>6 DEF vars, manager, IInv, TypeOK, PolledIffStored, Stored,
              RuntimeFollowsRow, Enabled
<1> QED  BY <1>1, <1>2, <1>3, <1>4, <1>5, <1>6 DEF Next

(***************************************************************************)
(* A step that is not the end of an orphan's poll leaves the announced and *)
(* the actual state of a production in agreement.                          *)
(***************************************************************************)

\* The end of a poll: of the current instance of p, which then announces its new
\* state, or of an instance that does not concern p.
LEMMA PollKeepsAgreement ==
  ASSUME IInv, NEW i \in Instances, NEW o \in VmixInstance, inst[i].pollInFlight,
         inst' = [inst EXCEPT ![i] = Settled(i, o)],
         connections' = connections,
         \A q \in Productions \ {inst[i].prod} : announced'[q] = announced[q],
         inst[i].prod \in Productions /\ announced[inst[i].prod] = inst[i].isConnected
           => announced'[inst[i].prod] = o.isConnected,
         NEW p \in Productions, ~OrphanInFlight(p), announced[p] = IsConnected(p)
  PROVE  announced'[p] = IsConnected(p)'
<1>t. /\ inst \in [Instances -> VmixInstance]
      /\ connections \in [Productions -> Instances \cup {None}]
  BY DEF IInv, TypeOK
<1>1. CASE inst[i].prod = p
  <2>1. Stored(i)
    BY <1>1 DEF OrphanInFlight
  <2>2. connections[p] = i
    BY <2>1, <1>1, ConstantsAssumption DEF Stored, IInv, PolledIffStored
  <2>3. inst'[i] = o /\ IsConnected(p) = inst[i].isConnected
    BY <2>1, <2>2, <1>t, ConstantsAssumption DEF Settled, IsConnected, VmixInstance
  <2> QED  BY <1>1, <2>2, <2>3, ConstantsAssumption DEF IsConnected, VmixInstance
<1>2. CASE inst[i].prod # p
  <2>1. connections[p] # i
    BY <1>2, <1>t, ConstantsAssumption DEF IInv, PolledIffStored
  <2>2. IsConnected(p)' = IsConnected(p)
    BY <2>1, <1>t DEF IsConnected
  <2> QED  BY <1>2, <2>2
<1> QED  BY <1>1, <1>2

LEMMA StepKeepsAgreement ==
  ASSUME IInv, Next, NEW p \in Productions, ~OrphanInFlight(p),
         announced[p] = IsConnected(p)
  PROVE  announced'[p] = IsConnected(p)'
<1>t. /\ inst \in [Instances -> VmixInstance]
      /\ connections \in [Productions -> Instances \cup {None}]
      /\ announced \in [Productions -> BOOLEAN]
  BY DEF IInv, TypeOK
<1>1. ASSUME NEW q \in Productions, NEW url \in Urls \cup {None},
             ConnectVmix(q, url) \/ StopPolling(q)
      PROVE  announced'[p] = IsConnected(p)'
  <2>1. CASE q = p
    BY <2>1, <1>1, ConnectVmixEffect, StopPollingEffect
  <2>2. CASE q # p
    <3>1. /\ connections'[p] = connections[p] /\ announced'[p] = announced[p]
          /\ connections[p] # None => inst'[connections'[p]] = inst[connections[p]]
      BY <2>2, <1>1, ConnectVmixEffect, StopPollingEffect
    <3> QED  BY <3>1 DEF IsConnected
  <2> QED  BY <2>1, <2>2
<1>2. CASE Operator
  BY <1>1, <1>2 DEF Operator, SaveConnection, SwitchEngine
<1>3. CASE Restart
  <2>1. announced'[p] = FALSE
    BY <1>3 DEF Restart
  <2>2. PICK f \in [Enabled -> Instances] :
          /\ connections' = [q \in Productions |-> IF q \in Enabled THEN f[q] ELSE None]
          /\ inst' = [i \in Instances |->
                        IF \E q \in Enabled : f[q] = i
                        THEN LET q == CHOOSE q \in Enabled : f[q] = i
                             IN NewInstance(q, db[q].url)
                        ELSE Unused]
    BY <1>3 DEF Restart
  <2>3. ASSUME NEW i \in Instances PROVE ~inst'[i].isConnected
    <3>1. CASE \E q \in Enabled : f[q] = i
      <4> DEFINE r == CHOOSE q \in Enabled : f[q] = i
      <4>1. r \in Enabled
        BY <3>1
      <4>2. r \in Productions /\ db[r].url \in Urls
        BY <4>1 DEF Enabled, IInv, TypeOK, Row
      <4>3. inst'[i] = NewInstance(r, db[r].url)
        BY <2>2, <3>1
      <4> HIDE DEF r
      <4> QED  BY <4>2, <4>3, NewInstanceType
    <3>2. CASE ~\E q \in Enabled : f[q] = i
      BY <3>2, <2>2, UnusedType
    <3> QED  BY <3>1, <3>2
  <2>4. connections'[p] # None => connections'[p] \in Instances
    BY <2>2
  <2> QED  BY <2>1, <2>3, <2>4 DEF IsConnected
<1>4. CASE Tick
  <2>1. ASSUME NEW i \in Instances PROVE inst'[i].isConnected = inst[i].isConnected
    BY <1>4, <1>t DEF Tick, VmixInstance
  <2> QED  BY <2>1, <1>4, <1>t DEF Tick, IsConnected
<1>5. ASSUME NEW i \in Instances, PollStarts(i)
      PROVE  announced'[p] = IsConnected(p)'
  <2>1. inst'[i].isConnected = inst[i].isConnected
    BY <1>5, <1>t, FailedType DEF PollStarts, VmixInstance
  <2>2. \A j \in Instances \ {i} : inst'[j] = inst[j]
    BY <1>5, <1>t DEF PollStarts
  <2> QED  BY <2>1, <2>2, <1>5, <1>t DEF PollStarts, IsConnected
<1>6. ASSUME NEW i \in Instances, NEW read \in Programs, PollSucceeds(i, read)
      PROVE  announced'[p] = IsConnected(p)'
  <2> DEFINE o == [inst[i] EXCEPT !.program = read, !.isConnected = TRUE,
                                  !.failures = 0, !.failingFor = None,
                                  !.pollInFlight = FALSE]
  <2>1. o \in VmixInstance /\ o.isConnected
    BY <1>t, RecoveredType
  <2>2. /\ inst[i].pollInFlight
        /\ inst' = [inst EXCEPT ![i] = Settled(i, o)] /\ connections' = connections
        /\ announced' = [announced EXCEPT ![inst[i].prod] = @ \/ ~inst[i].isConnected]
    BY <1>6 DEF PollSucceeds
  <2> HIDE DEF o
  <2>3. \A q \in Productions \ {inst[i].prod} : announced'[q] = announced[q]
    BY <2>2, <1>t
  <2>4. inst[i].prod \in Productions /\ announced[inst[i].prod] = inst[i].isConnected
          => announced'[inst[i].prod] = o.isConnected
    BY <2>1, <2>2, <1>t DEF VmixInstance
  <2> QED  BY <2>1, <2>2, <2>3, <2>4, PollKeepsAgreement
<1>7. ASSUME NEW i \in Instances, PollFails(i)
      PROVE  announced'[p] = IsConnected(p)'
  <2> DEFINE b == Failed(inst[i]).isConnected /\ ~Lost(inst[i])
             o == [Failed(inst[i]) EXCEPT !.isConnected = b]
  <2>0. b \in BOOLEAN /\ b = (inst[i].isConnected /\ ~Lost(inst[i]))
    BY <1>t, FailedType
  <2>2. /\ inst[i].pollInFlight
        /\ inst' = [inst EXCEPT ![i] = Settled(i, o)] /\ connections' = connections
        /\ announced' = [announced EXCEPT ![inst[i].prod] = @ /\ ~Lost(inst[i])]
    BY <1>7 DEF PollFails
  <2> HIDE DEF b
  <2>1. o \in VmixInstance /\ o.isConnected = b
    <3>1. Failed(inst[i]) \in VmixInstance
      BY <1>t, FailedType
    <3>2. b \in BOOLEAN
      BY <2>0
    <3> QED  BY ONLY <3>1, <3>2, ConnectedType, Zenon
  <2> HIDE DEF o
  <2>3. \A q \in Productions \ {inst[i].prod} : announced'[q] = announced[q]
    BY <2>2, <1>t
  <2>4. inst[i].prod \in Productions /\ announced[inst[i].prod] = inst[i].isConnected
          => announced'[inst[i].prod] = o.isConnected
    BY <2>0, <2>1, <2>2, <1>t
  <2> QED  BY <2>1, <2>2, <2>3, <2>4, PollKeepsAgreement
<1>8. ASSUME NEW u \in Urls, EngineToggles(u)
      PROVE  announced'[p] = IsConnected(p)'
  BY <1>8 DEF EngineToggles, manager, IsConnected
<1> QED  BY <1>2, <1>3, <1>4, <1>5, <1>6, <1>7, <1>8 DEF Next, PollEnds

\* The manager's map, its intervals and the rows agree in every reachable state.
THEOREM Invariance == Spec => []IInv
<1>1. Init => IInv
  BY InitEstablishesIInv
<1>2. IInv /\ [Next]_vars => IInv'
  BY StepPreservesIInv
<1> QED  BY <1>1, <1>2, PTL DEF Spec

\* connectVmix, disconnectVmix and pollApi keep every variable in its type.
THEOREM TypeCorrectness == Spec => []TypeOK
<1>1. IInv => TypeOK
  BY DEF IInv
<1> QED  BY <1>1, Invariance, PTL

\* disconnectVmix leaks no interval and connectVmix leaves no connection without one.
THEOREM NoLeakedPolling == Spec => []PolledIffStored
<1>1. IInv => PolledIffStored
  BY DEF IInv
<1> QED  BY <1>1, Invariance, PTL

\* saveConnection, update and loadAllConnections keep what is polled in step with
\* the VmixConnection rows.
THEOREM RowsAreFollowed == Spec => []RuntimeFollowsRow
<1>1. IInv => RuntimeFollowsRow
  BY DEF IInv
<1> QED  BY <1>1, Invariance, PTL

\* The polling loops of a process are those the saved rows ask for.
THEOREM RowsArePolled == Spec => []PollingFollowsRow
<1>1. PolledIffStored /\ RuntimeFollowsRow => PollingFollowsRow
  BY DEF PollingFollowsRow
<1> QED  BY <1>1, NoLeakedPolling, RowsAreFollowed, PTL

\* pollApi and disconnectVmix announce every change of a production's state: the
\* clients' view goes wrong only through a poll that outlived its connection.
THEOREM EventsAgree == Spec => StateEventsAgree
<1>1. IInv /\ [Next]_vars =>
        [\A p \in Productions :
           ~OrphanInFlight(p) /\ announced[p] = IsConnected(p) =>
             announced'[p] = IsConnected(p)']_vars
  BY StepKeepsAgreement
<1> QED  BY <1>1, Invariance, PTL DEF Spec, StateEventsAgree

-----------------------------------------------------------------------------
(***************************************************************************)
(* The program the clients see                                             *)
(***************************************************************************)

\* What the helpers do to the fields that the events and the loss are about.
LEMMA FailedFields ==
  ASSUME NEW o \in VmixInstance
  PROVE  /\ Failed(o).program = o.program /\ ~Failed(o).pollInFlight
         /\ Failed(o).failures = IF o.failures < DisconnectAfter THEN o.failures + 1 ELSE o.failures
         /\ Failed(o).failingFor = IF o.failingFor = None THEN 0 ELSE o.failingFor
  BY DEF Failed, VmixInstance

LEMMA NewInstanceFields ==
  ASSUME NEW p \in Productions, NEW url \in Urls \cup {None}
  PROVE  /\ NewInstance(p, url).program = None
         /\ url = None => ~NewInstance(p, url).pollInFlight
<1> DEFINE o == [Unused EXCEPT !.prod = p, !.url = url, !.pollInterval = TRUE]
<1>1. o \in VmixInstance /\ o.program = None
  <2> DEFINE yes == TRUE
  <2>1. o = [Unused EXCEPT !.prod = p, !.url = url, !.pollInterval = yes] /\ yes \in BOOLEAN
    OBVIOUS
  <2>2. Unused.program = None
    BY DEF Unused
  <2> HIDE DEF yes
  <2> QED  BY <2>1, <2>2, UnusedType DEF VmixInstance
<1>2. NewInstance(p, url) = IF url = None THEN Failed(o) ELSE [o EXCEPT !.pollInFlight = TRUE]
  BY DEF NewInstance
<1> HIDE DEF o
<1> QED  BY <1>1, <1>2, FailedFields DEF VmixInstance

\* A request leaves the production without a program or as it was.
LEMMA RequestKeepsProgram ==
  ASSUME IInv, NEW p \in Productions, NEW q \in Productions, NEW url \in Urls \cup {None},
         ConnectVmix(q, url) \/ StopPolling(q), ProgramShown(p)
  PROVE  ProgramShown(p)'
<1>1. CASE q # p
  <2>1. /\ connections'[p] = connections[p] /\ published' = published
        /\ connections[p] # None => inst'[connections'[p]] = inst[connections[p]]
    BY <1>1, ConnectVmixEffect, StopPollingEffect
  <2> QED  BY <2>1 DEF ProgramShown
<1>2. CASE q = p /\ StopPolling(p)
  BY <1>2, StopPollingEffect DEF ProgramShown
<1>3. CASE q = p /\ ConnectVmix(p, url)
  <2>1. CASE UNCHANGED manager
    BY <2>1 DEF manager, ProgramShown
  <2>2. CASE ~UNCHANGED manager
    <3>1. PICK i \in Free :
            /\ connections' = [connections EXCEPT ![p] = i]
            /\ inst' = [j \in Instances |->
                          IF j = i THEN NewInstance(p, url)
                          ELSE IF j = connections[p] THEN Released(inst[j]) ELSE inst[j]]
      BY <1>3, <2>2 DEF ConnectVmix
    <3>2. connections'[p] = i /\ inst'[i] = NewInstance(p, url)
      BY <3>1 DEF IInv, TypeOK, Free
    <3> QED  BY <3>2, NewInstanceFields DEF ProgramShown
  <2> QED  BY <2>1, <2>2
<1> QED  BY <1>1, <1>2, <1>3

LEMMA StepKeepsProgram ==
  ASSUME IInv, Next, NEW p \in Productions, ProgramShown(p), ~OrphanInFlight(p)
  PROVE  ProgramShown(p)'
<1>t. /\ inst \in [Instances -> VmixInstance]
      /\ connections \in [Productions -> Instances \cup {None}]
      /\ published \in [Productions -> Programs \cup {None}]
  BY DEF IInv, TypeOK
<1>1. CASE Operator
  BY <1>1, RequestKeepsProgram DEF Operator, SaveConnection, SwitchEngine
<1>2. CASE Restart
  <2>1. PICK f \in [Enabled -> Instances] :
          /\ connections' = [q \in Productions |-> IF q \in Enabled THEN f[q] ELSE None]
          /\ inst' = [i \in Instances |->
                        IF \E q \in Enabled : f[q] = i
                        THEN LET q == CHOOSE q \in Enabled : f[q] = i
                             IN NewInstance(q, db[q].url)
                        ELSE Unused]
    BY <1>2 DEF Restart
  <2>2. ASSUME p \in Enabled  PROVE inst'[f[p]].program = None
    <3> DEFINE r == CHOOSE q \in Enabled : f[q] = f[p]
    <3>1. r \in Enabled
      BY <2>2
    <3>2. r \in Productions /\ db[r].url \in Urls
      BY <3>1 DEF Enabled, IInv, TypeOK, Row
    <3>3. inst'[f[p]] = NewInstance(r, db[r].url)
      BY <2>1, <2>2
    <3> HIDE DEF r
    <3> QED  BY <3>2, <3>3, NewInstanceFields
  <2> QED  BY <2>1, <2>2 DEF ProgramShown
<1>3. ASSUME NEW i \in Instances, inst[i].pollInFlight
      PROVE  inst[i].prod = p => connections[p] = i
  BY <1>3, ConstantsAssumption DEF OrphanInFlight, Stored, IInv, PolledIffStored
<1>4. CASE Tick
  <2>1. ASSUME NEW i \in Instances  PROVE inst'[i].program = inst[i].program
    BY <1>4, <1>t DEF Tick, VmixInstance
  <2> QED  BY <2>1, <1>4, <1>t DEF Tick, ProgramShown
<1>5. ASSUME NEW i \in Instances, PollStarts(i)
      PROVE  ProgramShown(p)'
  <2>1. inst'[i].program = inst[i].program
    BY <1>5, <1>t, FailedFields DEF PollStarts, VmixInstance
  <2>2. \A j \in Instances \ {i} : inst'[j] = inst[j]
    BY <1>5, <1>t DEF PollStarts
  <2> QED  BY <2>1, <2>2, <1>5, <1>t DEF PollStarts, ProgramShown
<1>6. ASSUME NEW i \in Instances, NEW read \in Programs, PollSucceeds(i, read)
      PROVE  ProgramShown(p)'
  <2> DEFINE o == [inst[i] EXCEPT !.program = read, !.isConnected = TRUE,
                                  !.failures = 0, !.failingFor = None,
                                  !.pollInFlight = FALSE]
  <2>1. /\ inst[i].pollInFlight /\ connections' = connections
        /\ inst' = [inst EXCEPT ![i] = Settled(i, o)]
        /\ published' = [published EXCEPT ![inst[i].prod] = IF inst[i].program = read THEN @ ELSE read]
    BY <1>6 DEF PollSucceeds
  <2>2. o.program = read /\ inst[i] \in VmixInstance
    BY <1>t DEF VmixInstance
  <2> HIDE DEF o
  <2>3. CASE connections[p] = i
    <3>1. inst[i].prod = p /\ Stored(i)
      BY <2>3, ConstantsAssumption DEF IInv, PolledIffStored, Stored
    <3>2. inst'[i].program = read /\ read # None
      BY <2>1, <2>2, <3>1, <1>t, ConstantsAssumption DEF Settled
    <3>3. inst[i].program = read => published[p] = read
      BY <2>3, <3>2, ConstantsAssumption DEF ProgramShown
    <3>4. published'[p] = read
      BY <2>1, <3>1, <3>3, <1>t
    <3> QED  BY <2>1, <2>3, <3>2, <3>4 DEF ProgramShown
  <2>4. CASE connections[p] # i
    <3>1. inst[i].prod # p
      BY <1>3, <2>1, <2>4
    <3>2. published'[p] = published[p]
      BY <2>1, <3>1, <1>t
    <3> QED  BY <2>1, <2>4, <3>2, <1>t DEF ProgramShown
  <2> QED  BY <2>3, <2>4
<1>7. ASSUME NEW i \in Instances, PollFails(i)
      PROVE  ProgramShown(p)'
  <2> DEFINE o == [Failed(inst[i]) EXCEPT !.isConnected = @ /\ ~Lost(inst[i])]
  <2>1. /\ connections' = connections /\ published' = published
        /\ inst' = [inst EXCEPT ![i] = Settled(i, o)]
    BY <1>7 DEF PollFails
  <2>2. o.program = inst[i].program
    BY <1>t, FailedType, FailedFields DEF VmixInstance
  <2> HIDE DEF o
  <2>3. CASE connections[p] = i
    <3>1. inst'[i].program = inst[i].program
      BY <2>1, <2>2, <2>3, <1>t, ConstantsAssumption DEF Settled, Stored
    <3> QED  BY <2>1, <3>1, <2>3 DEF ProgramShown
  <2>4. CASE connections[p] # i
    BY <2>1, <2>4, <1>t DEF ProgramShown
  <2> QED  BY <2>3, <2>4
<1>8. ASSUME NEW u \in Urls, EngineToggles(u)
      PROVE  ProgramShown(p)'
  BY <1>8 DEF EngineToggles, manager, ProgramShown
<1> QED  BY <1>1, <1>2, <1>4, <1>5, <1>6, <1>7, <1>8 DEF Next, PollEnds

\* Clients that follow vmix.input.changed see the program the manager holds, unless a poll
\* that outlived its connection publishes another (pollApi).
THEOREM ProgramIsPublished == Spec => ProgramEventsAgree
<1>1. IInv /\ [Next]_vars =>
        [\A p \in Productions : ProgramShown(p) /\ ~OrphanInFlight(p) => ProgramShown(p)']_vars
  BY StepKeepsProgram
<1> QED  BY <1>1, Invariance, PTL DEF Spec, ProgramEventsAgree

-----------------------------------------------------------------------------
(***************************************************************************)
(* The loss of a connection                                                *)
(*                                                                         *)
(* What an instance counts of its failures is no more than what happened   *)
(* since its last success, and one without an address is never up.         *)
(***************************************************************************)
History == [polls : 0 .. DisconnectAfter, time : 0 .. FailureWindow]

\* What o counts is within what h remembers.
Counts(o, h) ==
  o.isConnected => /\ o.url # None
                   /\ o.failures <= h.polls
                   /\ o.failingFor = None \/ o.failingFor <= h.time

Addressed(o) == o.url = None => ~o.isConnected /\ ~o.pollInFlight

LossInv ==
  /\ IInv
  /\ since \in [Instances -> History]
  /\ \A i \in Instances : Counts(inst[i], since[i]) /\ Addressed(inst[i])

LEMMA FreshType == Fresh \in History /\ Fresh.polls = 0 /\ Fresh.time = 0
  BY ConstantsAssumption DEF Fresh, History

\* An instance of the map or one that was taken out of it.
LEMMA ReleasedFields ==
  ASSUME NEW o \in VmixInstance, Addressed(o)
  PROVE  /\ Addressed(Released(o))
         /\ Released(o).isConnected => /\ o.isConnected /\ Released(o).url = o.url
                                       /\ Released(o).failures = o.failures
                                       /\ Released(o).failingFor = o.failingFor
<1>1. CASE o.pollInFlight
  <2> DEFINE no == FALSE
  <2>1. Released(o) = [o EXCEPT !.pollInterval = no]
    BY <1>1 DEF Released
  <2> HIDE DEF no
  <2> QED  BY <2>1 DEF Addressed, VmixInstance
<1>2. CASE ~o.pollInFlight
  BY <1>2 DEF Released, Unused, Addressed
<1> QED  BY <1>1, <1>2

LEMMA NewIsDown ==
  ASSUME NEW p \in Productions, NEW url \in Urls \cup {None}
  PROVE  ~NewInstance(p, url).isConnected /\ Addressed(NewInstance(p, url))
  BY NewInstanceType, NewInstanceFields DEF Addressed

LEMMA UnusedIsDown == ~Unused.isConnected /\ Addressed(Unused)
  BY DEF Unused, Addressed

\* What a request makes of an instance: a new one, or one that counts what it counted.
Calmer(new, old) ==
  /\ Addressed(new)
  /\ new.isConnected => /\ old.isConnected /\ new.url = old.url /\ new.failures = old.failures
                        /\ new.failingFor = old.failingFor

LEMMA ManagerIsCalm ==
  ASSUME LossInv, NEW p \in Productions, NEW url \in Urls \cup {None},
         ConnectVmix(p, url) \/ StopPolling(p), NEW i \in Instances
  PROVE  Calmer(inst'[i], inst[i])
<1>1. inst \in [Instances -> VmixInstance] /\ Addressed(inst[i]) /\ inst[i] \in VmixInstance
  BY DEF LossInv, IInv, TypeOK
<1>2. CASE inst'[i] = inst[i]
  BY <1>1, <1>2 DEF Calmer
<1>3. CASE inst'[i] = Released(inst[i])
  BY <1>1, <1>3, ReleasedFields DEF Calmer
<1>4. CASE inst'[i] = NewInstance(p, url)
  BY <1>4, NewIsDown DEF Calmer
<1>5. inst'[i] = inst[i] \/ inst'[i] = Released(inst[i]) \/ inst'[i] = NewInstance(p, url)
  <2>1. CASE ConnectVmix(p, url)
    BY <1>1, <2>1 DEF ConnectVmix, manager
  <2>2. CASE StopPolling(p)
    BY <1>1, <2>2 DEF StopPolling, manager
  <2> QED  BY <2>1, <2>2
<1> QED  BY <1>2, <1>3, <1>4, <1>5

LEMMA RequestsAreCalm ==
  ASSUME LossInv, Operator \/ Restart, NEW i \in Instances
  PROVE  Calmer(inst'[i], inst[i])
<1>1. CASE Operator
  BY <1>1, ManagerIsCalm DEF Operator, SaveConnection, SwitchEngine
<1>2. CASE Restart
  <2>1. PICK f \in [Enabled -> Instances] :
          inst' = [j \in Instances |->
                     IF \E q \in Enabled : f[q] = j
                     THEN LET q == CHOOSE q \in Enabled : f[q] = j
                          IN NewInstance(q, db[q].url)
                     ELSE Unused]
    BY <1>2 DEF Restart
  <2>2. CASE \E q \in Enabled : f[q] = i
    <3> DEFINE r == CHOOSE q \in Enabled : f[q] = i
    <3>1. r \in Enabled
      BY <2>2
    <3>2. r \in Productions /\ db[r].url \in Urls
      BY <3>1 DEF Enabled, LossInv, IInv, TypeOK, Row
    <3>3. inst'[i] = NewInstance(r, db[r].url)
      BY <2>1, <2>2
    <3> HIDE DEF r
    <3> QED  BY <3>2, <3>3, NewIsDown DEF Calmer
  <2>3. CASE ~\E q \in Enabled : f[q] = i
    BY <2>1, <2>3, UnusedIsDown DEF Calmer
  <2> QED  BY <2>2, <2>3
<1> QED  BY <1>1, <1>2

\* One instance moves.
LEMMA OneCounts ==
  ASSUME LossInv, IInv', NEW i \in Instances, NEW h \in History,
         since' = [since EXCEPT ![i] = h],
         \A j \in Instances \ {i} : inst'[j] = inst[j],
         Counts(inst'[i], h), Addressed(inst'[i])
  PROVE  LossInv'
<1>1. since' \in [Instances -> History] /\ since'[i] = h
      /\ \A j \in Instances \ {i} : since'[j] = since[j]
  BY DEF LossInv
<1> QED  BY <1>1 DEF LossInv

LEMMA LossSteps ==
  ASSUME LossInv, [HNext]_<<vars, since>>
  PROVE  LossInv'
<1>t. /\ inst \in [Instances -> VmixInstance] /\ since \in [Instances -> History]
      /\ IInv /\ \A i \in Instances : Counts(inst[i], since[i]) /\ Addressed(inst[i])
  BY DEF LossInv, IInv, TypeOK
<1>0. IInv'
  <2>1. [Next]_vars
    BY DEF HNext, HPoll, Next, PollEnds, vars
  <2> QED  BY <1>t, <2>1, StepPreservesIInv
<1>1. CASE Tick /\ since' = Older
  <2>1. ASSUME NEW i \in Instances
        PROVE  /\ since'[i] \in History /\ Counts(inst'[i], since'[i]) /\ Addressed(inst'[i])
    <3> DEFINE old == inst[i].failingFor
               aged == IF old \in 0 .. FailureWindow - 1 THEN old + 1 ELSE old
               time == since[i].time
               older == Capped(time, FailureWindow)
    <3>1. /\ inst'[i] = [inst[i] EXCEPT !.failingFor = aged]
          /\ since'[i] = [since[i] EXCEPT !.time = older]
      BY <1>1 DEF Tick, Older
    <3>2. /\ old \in 0 .. FailureWindow \cup {None} /\ time \in 0 .. FailureWindow
          /\ FailureWindow \in Nat /\ None \notin Nat
      BY <1>t, ConstantsAssumption DEF VmixInstance, History
    <3>3. older \in 0 .. FailureWindow
      BY <3>2 DEF Capped
    <3>4. old = None \/ old <= time => aged = None \/ aged <= older
      <4>1. CASE old = None
        BY <3>2, <4>1
      <4>2. CASE old \in 0 .. FailureWindow /\ old <= time
        BY <3>2, <4>2 DEF Capped
      <4> QED  BY <3>2, <4>1, <4>2
    <3> HIDE DEF aged, older
    <3>5. /\ since'[i] \in History /\ since'[i].time = older /\ since'[i].polls = since[i].polls
      BY <1>t, <3>1, <3>3 DEF History
    <3>6. /\ inst'[i].isConnected = inst[i].isConnected /\ inst'[i].url = inst[i].url
          /\ inst'[i].failures = inst[i].failures /\ inst'[i].pollInFlight = inst[i].pollInFlight
          /\ inst'[i].failingFor = aged
      BY <1>t, <3>1 DEF VmixInstance
    <3> QED  BY <1>t, <3>4, <3>5, <3>6 DEF Counts, Addressed
  <2>2. since' \in [Instances -> History]
    BY <1>1, <2>1 DEF Older
  <2> QED  BY <1>0, <2>1, <2>2 DEF LossInv
<1>2. ASSUME NEW i \in Instances, PollStarts(i), UNCHANGED since
      PROVE  LossInv'
  <2> DEFINE started == [inst[i] EXCEPT !.pollInFlight = TRUE]
             o == IF inst[i].url = None THEN Failed(inst[i]) ELSE started
  <2>1. inst' = [inst EXCEPT ![i] = o]
    BY <1>2 DEF PollStarts
  <2>2. Counts(o, since[i]) /\ Addressed(o)
    <3>1. CASE inst[i].url = None
      <4>1. ~Failed(inst[i]).isConnected /\ ~Failed(inst[i]).pollInFlight
        BY <1>t, <3>1, FailedType, FailedFields DEF Addressed
      <4> QED  BY <3>1, <4>1 DEF Counts, Addressed
    <3>2. CASE inst[i].url # None
      <4>1. /\ started.url = inst[i].url /\ started.isConnected = inst[i].isConnected
            /\ started.failures = inst[i].failures /\ started.failingFor = inst[i].failingFor
        BY <1>t DEF VmixInstance
      <4>2. o = started
        BY <3>2
      <4> HIDE DEF started, o
      <4> QED  BY <1>t, <3>2, <4>1, <4>2 DEF Counts, Addressed
    <3> QED  BY <3>1, <3>2
  <2> HIDE DEF o
  <2>3. since' = [since EXCEPT ![i] = since[i]] /\ since[i] \in History
    BY <1>2, <1>t
  <2>4. inst'[i] = o /\ \A j \in Instances \ {i} : inst'[j] = inst[j]
    BY <1>t, <2>1
  <2> QED  BY <1>0, <2>2, <2>3, <2>4, OneCounts
<1>3. ASSUME NEW i \in Instances, PollFails(i),
             since' = [since EXCEPT ![i].polls = Capped(@, DisconnectAfter)]
      PROVE  LossInv'
  <2> DEFINE more == Capped(since[i].polls, DisconnectAfter)
             h == [since[i] EXCEPT !.polls = more]
             b == inst[i].isConnected /\ ~Lost(inst[i])
             failed == Failed(inst[i])
             o == [failed EXCEPT !.isConnected = b]
  <2>0. since' = [since EXCEPT ![i] = h]
    BY <1>t, <1>3
  <2>1. /\ more \in 0 .. DisconnectAfter
        /\ \A n \in 0 .. DisconnectAfter : n <= since[i].polls =>
             (IF n < DisconnectAfter THEN n + 1 ELSE n) <= more
    BY <1>t, ConstantsAssumption DEF History, Capped
  <2>2. inst[i] \in VmixInstance /\ failed \in VmixInstance
    BY <1>t, FailedType
  <2>3. /\ failed.isConnected = inst[i].isConnected /\ failed.url = inst[i].url
        /\ ~failed.pollInFlight
        /\ failed.failures = IF inst[i].failures < DisconnectAfter
                             THEN inst[i].failures + 1 ELSE inst[i].failures
        /\ failed.failingFor = IF inst[i].failingFor = None THEN 0 ELSE inst[i].failingFor
    BY <2>2, FailedType, FailedFields
  <2> HIDE DEF more
  <2>4. h \in History /\ h.polls = more /\ h.time = since[i].time
    BY <1>t, <2>1 DEF History
  <2>5. inst' = [inst EXCEPT ![i] = Settled(i, o)]
    BY <1>3, <2>3 DEF PollFails
  <2>6. b \in BOOLEAN /\ (b => inst[i].isConnected)
    OBVIOUS
  <2> HIDE DEF failed, b, h
  <2>7. /\ o.isConnected = b /\ o.url = inst[i].url /\ ~o.pollInFlight
        /\ o.failures = failed.failures /\ o.failingFor = failed.failingFor
    BY <2>2, <2>3, <2>6 DEF VmixInstance
  <2> HIDE DEF o
  <2>8. Counts(o, h) /\ Addressed(o)
    <3>1. Addressed(o)
      BY <1>t, <2>6, <2>7 DEF Addressed
    <3>2. ASSUME o.isConnected
          PROVE  /\ o.url # None /\ o.failures <= h.polls
                 /\ o.failingFor = None \/ o.failingFor <= h.time
      <4>1. /\ inst[i].isConnected /\ inst[i].url # None /\ inst[i].failures <= since[i].polls
            /\ inst[i].failingFor = None \/ inst[i].failingFor <= since[i].time
        BY <1>t, <2>6, <2>7, <3>2 DEF Counts
      <4>2. inst[i].failures \in 0 .. DisconnectAfter /\ since[i].time \in 0 .. FailureWindow
        BY <1>t DEF VmixInstance, History
      <4>3. o.failures <= h.polls
        BY <2>1, <2>3, <2>4, <2>7, <4>1, <4>2
      <4>4. o.failingFor <= h.time
        BY <2>3, <2>4, <2>7, <4>1, <4>2
      <4> QED  BY <2>7, <4>1, <4>3, <4>4
    <3> QED  BY <3>1, <3>2 DEF Counts
  <2>9. /\ inst'[i] = o \/ inst'[i] = Unused
        /\ \A j \in Instances \ {i} : inst'[j] = inst[j]
    BY <1>t, <2>5 DEF Settled
  <2>10. Counts(inst'[i], h) /\ Addressed(inst'[i])
    BY <2>8, <2>9, UnusedIsDown DEF Counts
  <2> QED  BY <1>0, <2>0, <2>4, <2>9, <2>10, OneCounts
<1>4. ASSUME NEW i \in Instances, NEW read \in Programs, PollSucceeds(i, read),
             since' = [since EXCEPT ![i] = Fresh]
      PROVE  LossInv'
  <2> DEFINE o == [inst[i] EXCEPT !.program = read, !.isConnected = TRUE,
                                  !.failures = 0, !.failingFor = None,
                                  !.pollInFlight = FALSE]
  <2>1. inst' = [inst EXCEPT ![i] = Settled(i, o)] /\ inst[i].pollInFlight
    BY <1>4 DEF PollSucceeds
  <2>2. o.url = inst[i].url /\ o.failures = 0 /\ o.failingFor = None
    BY <1>t DEF VmixInstance
  <2>3. inst[i].url # None
    BY <1>t, <2>1 DEF Addressed
  <2> HIDE DEF o
  <2>4. Counts(o, Fresh) /\ Addressed(o)
    BY <2>2, <2>3, FreshType DEF Counts, Addressed
  <2>5. /\ inst'[i] = o \/ inst'[i] = Unused
        /\ \A j \in Instances \ {i} : inst'[j] = inst[j]
    BY <1>t, <2>1 DEF Settled
  <2>6. Counts(inst'[i], Fresh) /\ Addressed(inst'[i])
    BY <2>4, <2>5, UnusedIsDown DEF Counts
  <2> QED  BY <1>0, <1>4, <2>5, <2>6, FreshType, OneCounts
<1>5. ASSUME NEW u \in Urls, EngineToggles(u), UNCHANGED since
      PROVE  LossInv'
  BY <1>0, <1>5, <1>t DEF LossInv, EngineToggles, manager
<1>6. CASE /\ Operator \/ Restart
           /\ since' = [i \in Instances |-> IF inst'[i].isConnected THEN since[i] ELSE Fresh]
  <2>1. ASSUME NEW i \in Instances
        PROVE  /\ since'[i] \in History /\ Counts(inst'[i], since'[i]) /\ Addressed(inst'[i])
    <3>1. Calmer(inst'[i], inst[i])
      BY <1>6, RequestsAreCalm
    <3>2. since'[i] = IF inst'[i].isConnected THEN since[i] ELSE Fresh
      BY <1>6
    <3> QED  BY <1>t, <3>1, <3>2, FreshType DEF Calmer, Counts
  <2>2. since' \in [Instances -> History]
    BY <1>6, <2>1
  <2> QED  BY <1>0, <2>1, <2>2 DEF LossInv
<1>7. CASE UNCHANGED <<vars, since>>
  BY <1>0, <1>7, <1>t DEF LossInv, vars, manager
<1> QED  BY <1>1, <1>2, <1>3, <1>4, <1>5, <1>6, <1>7 DEF HNext, HPoll

LEMMA LossStarts == HInit => LossInv
<1> SUFFICES ASSUME HInit  PROVE LossInv
  OBVIOUS
<1>1. IInv /\ \A i \in Instances : inst[i] = Unused /\ since[i] = Fresh
  BY InitEstablishesIInv DEF HInit, Init
<1>2. since \in [Instances -> History]
  BY FreshType DEF HInit
<1> QED  BY <1>1, <1>2, UnusedIsDown DEF LossInv, Counts

\* What an instance counts is within its history, in every reachable state.
THEOREM LossInvariance == HSpec => []LossInv
  BY LossStarts, LossSteps, PTL DEF HSpec

\* A connection is taken down by a poll only after DisconnectAfter failures in a row and
\* FailureWindow since a success, whatever orphans, requests and restarts come between (pollApi).
THEOREM LossesAreSustained == HSpec => LossIsSustained
<1>1. ASSUME LossInv, HNext, NEW i \in Instances, inst[i].isConnected, Stored(i),
             ~inst'[i].isConnected, ops' = ops, restarts' = restarts
      PROVE  since'[i].polls = DisconnectAfter /\ since[i].time = FailureWindow
  <2>t. /\ inst \in [Instances -> VmixInstance] /\ since \in [Instances -> History]
        /\ Counts(inst[i], since[i]) /\ Addressed(inst[i]) /\ ops \in Nat /\ restarts \in Nat
    BY <1>1, ConstantsAssumption DEF LossInv, IInv, TypeOK
  <2>1. PollFails(i) /\ since' = [since EXCEPT ![i].polls = Capped(@, DisconnectAfter)]
    <3>1. CASE Tick
      <4>1. inst'[i].isConnected = inst[i].isConnected
        BY <3>1, <2>t DEF Tick, VmixInstance
      <4> QED  BY <4>1, <1>1
    <3>2. CASE Operator \/ Restart
      <4>1. ops' = ops + 1 \/ restarts' = restarts + 1
        BY <3>2 DEF Operator, SaveConnection, SwitchEngine, Request, Restart
      <4> QED  BY <4>1, <1>1, <2>t
    <3>3. ASSUME NEW u \in Urls, EngineToggles(u)  PROVE FALSE
      BY <3>3, <1>1 DEF EngineToggles, manager
    <3>4. ASSUME NEW j \in Instances, j # i, PollStarts(j) \/ PollEnds(j)  PROVE FALSE
      <4>1. inst'[i] = inst[i]
        BY <2>t, <3>4 DEF PollStarts, PollEnds, PollFails, PollSucceeds
      <4> QED  BY <4>1, <1>1
    <3>5. ASSUME PollStarts(i)  PROVE FALSE
      <4>1. inst'[i].isConnected = inst[i].isConnected
        BY <3>5, <2>t, FailedType DEF PollStarts, VmixInstance
      <4> QED  BY <4>1, <1>1
    <3>6. ASSUME NEW read \in Programs, PollSucceeds(i, read)  PROVE FALSE
      <4> DEFINE o == [inst[i] EXCEPT !.program = read, !.isConnected = TRUE,
                                      !.failures = 0, !.failingFor = None,
                                      !.pollInFlight = FALSE]
      <4>1. inst'[i] = o
        BY <3>6, <1>1, <2>t DEF PollSucceeds, Settled
      <4>2. o.isConnected
        BY <2>t, RecoveredType
      <4> QED  BY <4>1, <4>2, <1>1
    <3> QED  BY <1>1, <3>1, <3>2, <3>3, <3>4, <3>5, <3>6 DEF HNext, HPoll, PollEnds
  <2>2. Lost(inst[i])
    <3> DEFINE b == Failed(inst[i]).isConnected /\ ~Lost(inst[i])
               o == [Failed(inst[i]) EXCEPT !.isConnected = b]
    <3>1. inst'[i] = o
      BY <2>1, <1>1, <2>t DEF PollFails, Settled
    <3>2. Failed(inst[i]) \in VmixInstance /\ Failed(inst[i]).isConnected = inst[i].isConnected
      BY <2>t, FailedType
    <3>3. b \in BOOLEAN
      OBVIOUS
    <3>4. b = (inst[i].isConnected /\ ~Lost(inst[i]))
      BY <3>2
    <3> HIDE DEF b
    <3>5. o.isConnected = b
      BY ONLY <3>2, <3>3, ConnectedType, Zenon
    <3> QED  BY <1>1, <3>1, <3>4, <3>5
  <2>3. /\ inst[i].failures \in 0 .. DisconnectAfter /\ since[i].polls \in 0 .. DisconnectAfter
        /\ since[i].time \in 0 .. FailureWindow
        /\ inst[i].failures <= since[i].polls
        /\ inst[i].failingFor = None \/ inst[i].failingFor <= since[i].time
        /\ inst[i].failingFor \in 0 .. FailureWindow \cup {None}
    BY <2>t, <1>1 DEF VmixInstance, History, Counts
  <2>4. since'[i].polls = Capped(since[i].polls, DisconnectAfter)
    BY <2>1, <2>t DEF History
  <2>5. /\ Failed(inst[i]).failures >= DisconnectAfter
        /\ Failed(inst[i]).failures = IF inst[i].failures < DisconnectAfter
                                     THEN inst[i].failures + 1 ELSE inst[i].failures
        /\ Failed(inst[i]).failingFor >= FailureWindow
        /\ Failed(inst[i]).failingFor = IF inst[i].failingFor = None THEN 0 ELSE inst[i].failingFor
    BY <2>2, <2>t, FailedFields DEF Lost
  <2>6. since'[i].polls = DisconnectAfter
    BY <2>3, <2>4, <2>5, ConstantsAssumption DEF Capped
  <2>7. since[i].time = FailureWindow
    BY <2>3, <2>5, ConstantsAssumption
  <2> QED  BY <2>6, <2>7
<1>2. ASSUME LossInv, [HNext]_<<vars, since>>
      PROVE  [\A i \in Instances :
                inst[i].isConnected /\ Stored(i) /\ ~inst'[i].isConnected /\ ops' = ops
                  /\ restarts' = restarts
                => since'[i].polls = DisconnectAfter /\ since[i].time = FailureWindow]_<<vars, since>>
  BY <1>1, <1>2
<1> QED  BY <1>2, LossInvariance, PTL DEF HSpec, LossIsSustained
=============================================================================
