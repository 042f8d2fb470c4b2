----------------------- MODULE ProductionLifecycleProofs -----------------------
(***************************************************************************)
(* Proofs about ProductionLifecycle, for every set of productions and      *)
(* clients.  The inductive invariant adds to the types what a handler has  *)
(* checked: Justified says the data it is about to write was allowed by    *)
(* the row it read.  A write that goes wrong then meets another row.       *)
(***************************************************************************)
EXTENDS ProductionLifecycle, TLAPS

Justified(c) ==
  LET data == request[c].data
      seen == request[c].seen
  IN request[c].op = "write" =>
       \/ /\ data.status \in AllowedTransitions[seen.row.status]
          /\ data.status = "ACTIVE" => seen.engine
          /\ data.deleted = None
          /\ ~seen.row.deleted
       \/ data.status = None /\ data.deleted = None
       \/ data.status = None /\ data.deleted = TRUE /\ seen.row.status # "ACTIVE"
       \/ data.status = "DRAFT" /\ data.deleted = FALSE /\ seen.row.deleted

\* An update writes the data of a form.
Formed(c) == request[c].op = "update" => request[c].data \in UpdateForm

IInv == TypeOK /\ \A c \in Clients : Justified(c) /\ Formed(c)

\* Forms that carry no status: the assumption of every theorem below.
StatusLeftOut == FormStatuses = {}

LEMMA UpdatedType ==
  ASSUME NEW old \in Production, NEW data \in Data
  PROVE  /\ Updated(old, data) \in Production
         /\ Updated(old, data).status = IF data.status = None THEN old.status
                                                              ELSE data.status
         /\ Updated(old, data).deleted = IF data.deleted = None THEN old.deleted
                                                                ELSE data.deleted
  BY ConstantsAssumption DEF Updated, Production, Data

LEMMA NewType ==
  ASSUME NEW status \in Statuses, NEW engine \in EngineTypes
  PROVE  New(status, engine) \in Production
  BY DEF New, Production

LEMMA AllowedType ==
  ASSUME NEW status \in Statuses
  PROVE  AllowedTransitions[status] \subseteq Statuses
  BY DEF AllowedTransitions, Statuses

LEMMA InitEstablishesIInv == Init => IInv
  BY ConstantsAssumption DEF Init, IInv, TypeOK, Justified, Formed, Request, Idle

\* What a handler holds after its first statement.
LEMMA ReadsEffect ==
  ASSUME IInv, NEW c \in Clients, NEW p \in Productions, row[p] # None,
         NEW op \in {"write", "update"}, NEW data \in Data, Reads(c, op, p, data),
         row' = row
  PROVE  /\ request' \in [Clients -> Request]
         /\ requests' \in 0 .. MaxRequests
         /\ \A d \in Clients : request'[d] # Idle => row'[request'[d].id] # None
         /\ request'[c].op = op /\ request'[c].data = data
         /\ request'[c].seen = Seen(p)
         /\ \A d \in Clients \ {c} : request'[d] = request[d]
<1>1. Seen(p) \in [row : Production, engine : BOOLEAN]
  <2> DEFINE b == HasEngine(p)
  <2>1. b \in BOOLEAN
    BY DEF HasEngine
  <2>2. row[p] \in Production
    BY DEF IInv, TypeOK
  <2>3. Seen(p) = [row |-> row[p], engine |-> b]
    BY DEF Seen
  <2> HIDE DEF b
  <2> QED  BY <2>1, <2>2, <2>3
<1> DEFINE held == [op |-> op, id |-> p, data |-> data, seen |-> Seen(p)]
<1>2. held \in Request /\ held # Idle
  BY <1>1 DEF Request, Idle
<1>3. request' = [request EXCEPT ![c] = held] /\ requests' = requests + 1
      /\ requests < MaxRequests
  BY DEF Reads
<1>4. held.op = op /\ held.data = data /\ held.seen = Seen(p) /\ held.id = p
  OBVIOUS
<1> HIDE DEF held
<1>5. requests' \in 0 .. MaxRequests
  BY <1>3, ConstantsAssumption DEF IInv, TypeOK
<1> QED  BY <1>2, <1>3, <1>4, <1>5 DEF IInv, TypeOK

LEMMA JustifiedKept ==
  ASSUME IInv, NEW d \in Clients, request'[d] = request[d]
  PROVE  Justified(d)' /\ Formed(d)'
  BY DEF IInv, Justified, Formed, UpdateForm

\* After its last statement a handler holds nothing.
LEMMA EndsEffect ==
  ASSUME IInv, NEW c \in Clients, Ends(c),
         \A p \in Productions : row[p] # None => row'[p] # None
  PROVE  /\ request' \in [Clients -> Request]
         /\ requests' \in 0 .. MaxRequests
         /\ \A d \in Clients : request'[d] # Idle => row'[request'[d].id] # None
         /\ \A d \in Clients : Justified(d)' /\ Formed(d)'
<1>1. request' = [request EXCEPT ![c] = Idle] /\ requests' = requests
  BY DEF Ends
<1>2. /\ request' \in [Clients -> Request]
      /\ requests' \in 0 .. MaxRequests
  BY <1>1 DEF IInv, TypeOK, Request
<1>3. ASSUME NEW d \in Clients, request'[d] # Idle
      PROVE  row'[request'[d].id] # None
  <2>1. request'[d] = request[d] /\ request[d].id \in Productions
    BY <1>1, <1>3 DEF IInv, TypeOK, Request
  <2> QED  BY <2>1, <1>3 DEF IInv, TypeOK
<1>4. ASSUME NEW d \in Clients PROVE Justified(d)' /\ Formed(d)'
  <2>1. CASE d = c
    BY <2>1, <1>1 DEF IInv, TypeOK, Justified, Formed, Idle
  <2>2. CASE d # c
    BY <2>2, <1>1, JustifiedKept DEF IInv, TypeOK
  <2> QED  BY <2>1, <2>2
<1> QED  BY <1>2, <1>3, <1>4

\* A request of a single statement leaves the handlers alone.
LEMMA SingleEffect ==
  ASSUME IInv, Single, row' \in [Productions -> Production \cup {None}],
         obs' \subseteq Productions, vmix' \subseteq Productions,
         \A p \in Productions : row[p] # None => row'[p] # None
  PROVE  IInv'
<1>1. request' = request /\ requests' \in 0 .. MaxRequests
  BY ConstantsAssumption DEF Single, IInv, TypeOK
<1>2. ASSUME NEW d \in Clients, request'[d] # Idle
      PROVE  row'[request'[d].id] # None
  BY <1>1, <1>2 DEF IInv, TypeOK, Request
<1>3. \A d \in Clients : Justified(d)' /\ Formed(d)'
  BY <1>1, JustifiedKept
<1> QED  BY <1>1, <1>2, <1>3 DEF IInv, TypeOK

(***************************************************************************)
(* Every step preserves IInv.                                              *)
(***************************************************************************)

\* The first statement of a handler whose data its row allows.
LEMMA ReadsPreservesIInv ==
  ASSUME IInv, NEW c \in Clients, NEW p \in Productions, row[p] # None,
         NEW op \in {"write", "update"}, NEW data \in Data, Reads(c, op, p, data),
         row' = row, obs' \subseteq Productions, vmix' \subseteq Productions,
         op = "update" => data \in UpdateForm,
         op = "write" =>
           \/ /\ data.status \in AllowedTransitions[row[p].status]
              /\ data.status = "ACTIVE" => HasEngine(p)
              /\ data.deleted = None
              /\ ~row[p].deleted
           \/ data.status = None /\ data.deleted = None
           \/ data.status = None /\ data.deleted = TRUE /\ row[p].status # "ACTIVE"
           \/ data.status = "DRAFT" /\ data.deleted = FALSE /\ row[p].deleted
  PROVE  IInv'
<1>1. /\ request' \in [Clients -> Request]
      /\ requests' \in 0 .. MaxRequests
      /\ \A d \in Clients : request'[d] # Idle => row'[request'[d].id] # None
      /\ request'[c].op = op /\ request'[c].data = data
      /\ request'[c].seen = Seen(p)
      /\ \A d \in Clients \ {c} : request'[d] = request[d]
  BY ReadsEffect
<1>2. Seen(p).row = row[p] /\ Seen(p).engine = HasEngine(p)
  BY DEF Seen
<1>3. Justified(c)' /\ Formed(c)'
  BY <1>1, <1>2 DEF Justified, Formed, UpdateForm
<1>4. \A d \in Clients : Justified(d)' /\ Formed(d)'
  BY <1>1, <1>3, JustifiedKept
<1> QED  BY <1>1, <1>4 DEF IInv, TypeOK

LEMMA UpdateStateReadsPreservesIInv ==
  ASSUME IInv, NEW c \in Clients, NEW p \in Productions, NEW status \in Statuses,
         UpdateStateReads(c, p, status)
  PROVE  IInv'
<1> DEFINE data == [Nothing EXCEPT !.status = status]
<1>1. data \in Data /\ data.status = status /\ data.deleted = None
  BY DEF Nothing, Data
<1>2. /\ Reads(c, "write", p, data) /\ row[p] # None /\ ~row[p].deleted
      /\ status \in AllowedTransitions[row[p].status]
      /\ status = "ACTIVE" => HasEngine(p)
      /\ UNCHANGED <<row, obs, vmix>>
  BY DEF UpdateStateReads, Live
<1> HIDE DEF data
<1> QED  BY <1>1, <1>2, ReadsPreservesIInv DEF IInv, TypeOK

LEMMA ToggleRehearsalReadsPreservesIInv ==
  ASSUME IInv, NEW c \in Clients, NEW p \in Productions, NEW enabled \in BOOLEAN,
         ToggleRehearsalReads(c, p, enabled)
  PROVE  IInv'
<1> DEFINE data == [Nothing EXCEPT !.isRehearsal = enabled]
<1>1. data \in Data /\ data.status = None /\ data.deleted = None
  BY DEF Nothing, Data
<1>2. /\ Reads(c, "write", p, data) /\ row[p] # None
      /\ UNCHANGED <<row, obs, vmix>>
  BY DEF ToggleRehearsalReads, Live
<1> HIDE DEF data
<1> QED  BY <1>1, <1>2, ReadsPreservesIInv DEF IInv, TypeOK

LEMMA RemoveReadsPreservesIInv ==
  ASSUME IInv, NEW c \in Clients, NEW p \in Productions, RemoveReads(c, p)
  PROVE  IInv'
<1> DEFINE data == [Nothing EXCEPT !.deleted = TRUE]
<1>1. data \in Data /\ data.status = None /\ data.deleted = TRUE
  BY DEF Nothing, Data
<1>2. /\ Reads(c, "write", p, data) /\ row[p] # None /\ row[p].status # "ACTIVE"
      /\ UNCHANGED <<row, obs, vmix>>
  BY DEF RemoveReads, Live
<1> HIDE DEF data
<1> QED  BY <1>1, <1>2, ReadsPreservesIInv DEF IInv, TypeOK

LEMMA RestoreReadsPreservesIInv ==
  ASSUME IInv, NEW c \in Clients, NEW p \in Productions, RestoreReads(c, p)
  PROVE  IInv'
<1> DEFINE data == [Nothing EXCEPT !.deleted = FALSE, !.status = "DRAFT"]
<1>1. data \in Data /\ data.status = "DRAFT" /\ data.deleted = FALSE
  BY DEF Nothing, Data, Statuses
<1>2. /\ Reads(c, "write", p, data) /\ row[p] # None /\ row[p].deleted
      /\ UNCHANGED <<row, obs, vmix>>
  BY DEF RestoreReads
<1> HIDE DEF data
<1> QED  BY <1>1, <1>2, ReadsPreservesIInv DEF IInv, TypeOK

LEMMA UpdateFormType ==
  ASSUME NEW form \in UpdateForm
  PROVE  form \in Data /\ form.deleted = None /\ (StatusLeftOut => form.status = None)
  BY ConstantsAssumption DEF UpdateForm, Data, StatusLeftOut

LEMMA SavedType ==
  ASSUME NEW S \in SUBSET Productions, NEW p \in Productions, NEW config
  PROVE  Saved(S, p, config) \subseteq Productions
  BY DEF Saved

LEMMA UpdateBeginsPreservesIInv ==
  ASSUME IInv, NEW c \in Clients, NEW p \in Productions, NEW form \in UpdateForm,
         NEW obsConfig, NEW vmixConfig, UpdateBegins(c, p, form, obsConfig, vmixConfig)
  PROVE  IInv'
<1>1. /\ form \in Data /\ Reads(c, "update", p, form) /\ row[p] # None
      /\ row' = row
      /\ obs' = Saved(obs, p, obsConfig)
      /\ vmix' = Saved(vmix, p, vmixConfig)
  BY UpdateFormType DEF UpdateBegins
<1>2. obs' \subseteq Productions /\ vmix' \subseteq Productions
  BY <1>1, SavedType DEF IInv, TypeOK
<1> QED  BY <1>1, <1>2, ReadsPreservesIInv

\* The update of one existing row.
LEMMA UpdatesPreserveIInv ==
  ASSUME IInv, NEW c \in Clients, request[c] # Idle,
         row' = [row EXCEPT ![request[c].id] = Updated(@, request[c].data)],
         Ends(c), obs' \subseteq Productions, vmix' \subseteq Productions
  PROVE  IInv'
<1>1. /\ request[c].id \in Productions /\ request[c].data \in Data
      /\ row[request[c].id] \in Production
  BY DEF IInv, TypeOK, Request
<1>2. /\ row' \in [Productions -> Production \cup {None}]
      /\ \A p \in Productions : row[p] # None => row'[p] # None
  BY <1>1, UpdatedType, ConstantsAssumption DEF IInv, TypeOK
<1> QED  BY <1>2, EndsEffect DEF IInv, TypeOK

LEMMA HandlerPreservesIInv ==
  ASSUME IInv, NEW c \in Clients, Handler(c)
  PROVE  IInv'
<1>1. CASE Writes(c)
  <2>1. /\ request[c] # Idle
        /\ row' = [row EXCEPT ![request[c].id] = Updated(@, request[c].data)]
        /\ Ends(c)
    BY <1>1 DEF Writes, Idle
  <2>2. obs' \subseteq Productions /\ vmix' \subseteq Productions
    BY <1>1 DEF Writes, IInv, TypeOK
  <2> QED  BY <2>1, <2>2, UpdatesPreserveIInv
<1>2. CASE UpdateCommits(c)
  <2>1. /\ request[c] # Idle
        /\ row' = [row EXCEPT ![request[c].id] = Updated(@, request[c].data)]
        /\ Ends(c)
    BY <1>2 DEF UpdateCommits, Idle
  <2>2. obs' \subseteq Productions /\ vmix' \subseteq Productions
    BY <1>2 DEF UpdateCommits, IInv, TypeOK
  <2> QED  BY <2>1, <2>2, UpdatesPreserveIInv
<1>3. CASE UpdateRollsBack(c)
  <2>1. Ends(c) /\ UNCHANGED <<row, obs, vmix>>
    BY <1>3 DEF UpdateRollsBack
  <2> QED  BY <2>1, EndsEffect DEF IInv, TypeOK
<1>4. ASSUME NEW p \in Productions,
             \/ \E status \in Statuses : UpdateStateReads(c, p, status)
             \/ \E enabled \in BOOLEAN : ToggleRehearsalReads(c, p, enabled)
             \/ RemoveReads(c, p)
             \/ RestoreReads(c, p)
             \/ \E form \in UpdateForm, obsConfig, vmixConfig \in BOOLEAN \cup {None} :
                  UpdateBegins(c, p, form, obsConfig, vmixConfig)
      PROVE  IInv'
  BY <1>4, UpdateStateReadsPreservesIInv, ToggleRehearsalReadsPreservesIInv,
     RemoveReadsPreservesIInv, RestoreReadsPreservesIInv, UpdateBeginsPreservesIInv
<1> QED  BY <1>1, <1>2, <1>3, <1>4 DEF Handler

LEMMA CreatePreservesIInv ==
  ASSUME IInv, NEW p \in Productions, NEW status \in Statuses,
         NEW engine \in EngineTypes, Create(p, status, engine)
  PROVE  IInv'
<1>1. /\ Single /\ row' = [row EXCEPT ![p] = New(status, engine)]
      /\ UNCHANGED <<obs, vmix>> /\ New(status, engine) # None
  BY NewType, ConstantsAssumption DEF Create
<1> QED  BY <1>1, NewType, SingleEffect DEF IInv, TypeOK

LEMMA NewRowPreservesIInv ==
  ASSUME IInv, NewRow
  PROVE  IInv'
<1>1. PICK p \in Productions :
        \/ \E status \in FormStatuses \cup {"DRAFT"}, engine \in EngineTypes :
             Create(p, status, engine)
        \/ \E engine \in EngineTypes : CreateFromTemplate(p, engine)
        \/ \E source \in Productions : CloneProduction(p, source)
  BY DEF NewRow
<1>2. FormStatuses \cup {"DRAFT"} \subseteq Statuses
  BY ConstantsAssumption DEF Statuses
<1>3. ASSUME NEW source \in Productions, CloneProduction(p, source) PROVE IInv'
  <2>1. row[source].engineType \in EngineTypes
    BY <1>3 DEF CloneProduction, Live, IInv, TypeOK, Production
  <2> QED  BY <1>3, <2>1, <1>2, CreatePreservesIInv DEF CloneProduction
<1> QED  BY <1>1, <1>2, <1>3, CreatePreservesIInv DEF CreateFromTemplate

LEMMA ConnectionsPreservesIInv ==
  ASSUME IInv, Connections
  PROVE  IInv'
<1>1. PICK p \in Productions, engine \in {"OBS", "VMIX"}, enabled \in BOOLEAN :
        SaveConnection(p, engine, enabled)
  BY DEF Connections
<1>2. obs' \subseteq Productions /\ vmix' \subseteq Productions
  BY <1>1, SavedType DEF SaveConnection, IInv, TypeOK
<1> QED  BY <1>1, <1>2, SingleEffect DEF SaveConnection, IInv, TypeOK

LEMMA StepPreservesIInv == IInv /\ [Next]_vars => IInv'
<1> SUFFICES ASSUME IInv, [Next]_vars PROVE IInv'
  OBVIOUS
<1>1. CASE UNCHANGED vars
  BY <1>1, JustifiedKept DEF vars, IInv, TypeOK
<1> QED
  BY <1>1, HandlerPreservesIInv, NewRowPreservesIInv, ConnectionsPreservesIInv DEF Next

(***************************************************************************)
(* What a write does, given what its handler read.                         *)
(***************************************************************************)

\* A step that changes the status or the deletion of a row that exists is the write
\* of a handler, unless the forms carry a status.
LEMMA OnlyWritesDecide ==
  ASSUME IInv, Next, StatusLeftOut, NEW p \in Productions, row[p] # None,
         row'[p].status # row[p].status \/ row'[p].deleted # row[p].deleted
  PROVE  \E c \in Clients :
           /\ request[c].op = "write" /\ request[c].id = p
           /\ row'[p] = Updated(row[p], request[c].data)
<1>t. row \in [Productions -> Production \cup {None}] /\ row[p] \in Production
  BY DEF IInv, TypeOK
<1>1. ASSUME NEW c \in Clients, Writes(c)
      PROVE  request[c].op = "write" /\ request[c].id = p
             /\ row'[p] = Updated(row[p], request[c].data)
  <2>1. /\ request[c].op = "write"
        /\ row' = [row EXCEPT ![request[c].id] = Updated(@, request[c].data)]
    BY <1>1 DEF Writes
  <2>2. request[c].id \in Productions
    BY <2>1 DEF IInv, TypeOK, Request, Idle
  <2> QED  BY <2>1, <2>2, <1>t
<1>2. ASSUME NEW c \in Clients, UpdateCommits(c) PROVE FALSE
  <2>1. /\ request[c].op = "update"
        /\ row' = [row EXCEPT ![request[c].id] = Updated(@, request[c].data)]
    BY <1>2 DEF UpdateCommits
  <2>2. request[c].id \in Productions /\ request[c].data \in Data
    BY <2>1 DEF IInv, TypeOK, Request, Idle
  <2>3. request[c].data.status = None /\ request[c].data.deleted = None
    BY <2>1, UpdateFormType DEF IInv, Formed
  <2>4. request[c].id # p => row'[p] = row[p]
    BY <2>1, <2>2, <1>t
  <2>5. request[c].id = p => row'[p] = Updated(row[p], request[c].data)
    BY <2>1, <2>2, <1>t
  <2>6. row'[p].status = row[p].status /\ row'[p].deleted = row[p].deleted
    BY <2>2, <2>3, <2>4, <2>5, <1>t, UpdatedType
  <2> QED  BY <2>6
<1>3. ASSUME row' = row PROVE FALSE
  BY <1>3
<1>4. ASSUME NewRow PROVE FALSE
  BY <1>4, <1>t DEF NewRow, Create, CreateFromTemplate, CloneProduction
<1>5. ASSUME NEW c \in Clients, Handler(c), ~Writes(c), ~UpdateCommits(c) PROVE row' = row
  BY <1>5 DEF Handler, UpdateRollsBack, UpdateStateReads, ToggleRehearsalReads,
              RemoveReads, RestoreReads, UpdateBegins
<1>6. ASSUME Connections PROVE row' = row
  BY <1>6 DEF Connections, SaveConnection
<1> QED  BY <1>1, <1>2, <1>3, <1>4, <1>5, <1>6 DEF Next

\* A write whose handler read the row as it still is does what that handler checked.
LEMMA FreshWrites ==
  ASSUME IInv, NEW c \in Clients, NEW p \in Productions, row[p] # None,
         request[c].op = "write", request[c].id = p, request[c].seen = Seen(p),
         row'[p] = Updated(row[p], request[c].data)
  PROVE  /\ \/ row'[p].status = row[p].status
            \/ Restored(p)
            \/ /\ row'[p].status \in AllowedTransitions[row[p].status]
               /\ row'[p].status = "ACTIVE" => HasEngine(p)
         /\ row'[p].deleted /\ row'[p].status = "ACTIVE" =>
              row[p].deleted /\ row[p].status = "ACTIVE"
<1> DEFINE data == request[c].data
<1>1. row[p] \in Production /\ data \in Data
  BY DEF IInv, TypeOK, Request, Idle
<1>2. /\ row'[p].status = IF data.status = None THEN row[p].status ELSE data.status
      /\ row'[p].deleted = IF data.deleted = None THEN row[p].deleted ELSE data.deleted
  BY <1>1, UpdatedType
<1>3. request[c].seen.row = row[p] /\ request[c].seen.engine = HasEngine(p)
  BY DEF Seen
<1>4. \/ /\ data.status \in AllowedTransitions[row[p].status]
         /\ data.status = "ACTIVE" => HasEngine(p)
         /\ data.deleted = None
         /\ ~row[p].deleted
      \/ data.status = None /\ data.deleted = None
      \/ data.status = None /\ data.deleted = TRUE /\ row[p].status # "ACTIVE"
      \/ data.status = "DRAFT" /\ data.deleted = FALSE /\ row[p].deleted
  BY <1>3 DEF IInv, Justified
<1>5. /\ FALSE # None /\ TRUE # None /\ None \notin Statuses
      /\ AllowedTransitions[row[p].status] \subseteq Statuses
      /\ row[p].deleted \in BOOLEAN
  BY <1>1, AllowedType, ConstantsAssumption DEF Production
<1> HIDE DEF data
<1> QED  BY <1>2, <1>4, <1>5 DEF Restored

(***************************************************************************)
(* The theorems.                                                           *)
(***************************************************************************)

\* The invariant holds in every reachable state.
THEOREM Invariance == Spec => []IInv
<1> QED  BY InitEstablishesIInv, StepPreservesIInv, PTL DEF Spec

\* Rows and requests are well formed, and no handler holds a row that was never
\* created: productions.service.ts and productions-state.service.ts never erase one.
THEOREM TypeCorrectness == Spec => []TypeOK
<1>1. IInv => TypeOK
  BY DEF IInv
<1> QED  BY <1>1, Invariance, PTL

\* Unless the form of update carries a status, a transition that the state machine does
\* not list, or going live without a connection, comes of a read that went stale between
\* the two statements of updateState, and of nothing else.
THEOREM WrongTransitionsAreStale ==
  ASSUME StatusLeftOut
  PROVE  Spec => StateGoesWrongOnlyWhenStale
<1> DEFINE A == \A p \in Productions :
                  /\ Transition(p) /\ ~Restored(p)
                  /\ \/ row'[p].status \notin AllowedTransitions[row[p].status]
                     \/ row'[p].status = "ACTIVE" /\ ~HasEngine(p)
                  => StaleRead(p)
<1>1. IInv /\ [Next]_vars => [A]_vars
  <2> SUFFICES ASSUME IInv, Next, NEW p \in Productions, Transition(p), ~Restored(p),
                      \/ row'[p].status \notin AllowedTransitions[row[p].status]
                      \/ row'[p].status = "ACTIVE" /\ ~HasEngine(p)
               PROVE  StaleRead(p)
    OBVIOUS
  <2>1. row[p] # None /\ row'[p].status # row[p].status
    BY DEF Transition
  <2>2. PICK c \in Clients :
          /\ request[c].op = "write" /\ request[c].id = p
          /\ row'[p] = Updated(row[p], request[c].data)
    BY <2>1, OnlyWritesDecide
  <2>3. request[c].seen # Seen(p)
    BY <2>1, <2>2, FreshWrites
  <2> QED  BY <2>2, <2>3 DEF StaleRead
<1> QED  BY <1>1, Invariance, PTL DEF Spec, StateGoesWrongOnlyWhenStale

\* Likewise an active production is deleted, or a deleted one goes live, only when
\* remove, restore or updateState writes after the row it read has changed.
THEOREM DeletedActiveIsStale ==
  ASSUME StatusLeftOut
  PROVE  Spec => DeletedActiveOnlyWhenStale
<1> DEFINE A == \A p \in Productions :
                  /\ row[p] # None /\ ~(row[p].deleted /\ row[p].status = "ACTIVE")
                  /\ row'[p].deleted /\ row'[p].status = "ACTIVE"
                  => StaleRead(p)
<1>1. IInv /\ [Next]_vars => [A]_vars
  <2> SUFFICES ASSUME IInv, Next, NEW p \in Productions, row[p] # None,
                      ~(row[p].deleted /\ row[p].status = "ACTIVE"),
                      row'[p].deleted /\ row'[p].status = "ACTIVE"
               PROVE  StaleRead(p)
    OBVIOUS
  <2>1. row'[p].status # row[p].status \/ row'[p].deleted # row[p].deleted
    OBVIOUS
  <2>2. PICK c \in Clients :
          /\ request[c].op = "write" /\ request[c].id = p
          /\ row'[p] = Updated(row[p], request[c].data)
    BY <2>1, OnlyWritesDecide
  <2>3. request[c].seen # Seen(p)
    BY <2>2, FreshWrites
  <2> QED  BY <2>2, <2>3 DEF StaleRead
<1> QED  BY <1>1, Invariance, PTL DEF Spec, DeletedActiveOnlyWhenStale

\* Unless the form of update carries a status, neither guard, that of the state machine
\* nor that of remove, is passed but on a stale read.
THEOREM WrongWritesAreStale ==
  ASSUME StatusLeftOut
  PROVE  Spec => WritesGoWrongOnlyWhenStale
<1> QED  BY WrongTransitionsAreStale, DeletedActiveIsStale DEF WritesGoWrongOnlyWhenStale
=============================================================================
