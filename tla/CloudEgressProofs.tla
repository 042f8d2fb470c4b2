--------------------------- MODULE CloudEgressProofs ---------------------------
(***************************************************************************)
(* Proofs about CloudEgress, for every set of destinations, egresses and   *)
(* clients: the types, and from them that an egress is lost only in the    *)
(* ways EgressStaysOwned lists.                                            *)
(***************************************************************************)
EXTENDS CloudEgress, TLAPS

Steps == {"egress", "write", "rollback", "mark"}

LEMMA IdleIsNoRequest == \A h \in Handling : h # Idle
  BY DEF Handling, Idle

\* The next call of a request.
LEMMA AdvancesEffect ==
  ASSUME TypeOK, NEW c \in Clients, handler[c] # Idle, NEW step \in Steps, Advances(c, step)
  PROVE  /\ handler' \in [Clients -> Handling \cup {Idle}]
         /\ handler'[c] # Idle /\ handler'[c] \in Handling
         /\ handler'[c].op = handler[c].op /\ handler'[c].slot = handler[c].slot
         /\ handler'[c].seen = handler[c].seen /\ handler'[c].egress = handler[c].egress
         /\ handler'[c].step = step
         /\ \A b \in Clients \ {c} : handler'[b] = handler[b]
<1>1. handler[c] \in Handling
  BY DEF TypeOK
<1> DEFINE h == [handler[c] EXCEPT !.step = step]
<1>2. /\ h \in Handling
      /\ h.op = handler[c].op /\ h.slot = handler[c].slot /\ h.seen = handler[c].seen
      /\ h.egress = handler[c].egress /\ h.step = step
  BY <1>1 DEF Handling, Steps
<1>3. handler' = [handler EXCEPT ![c] = h]
  BY DEF Advances
<1>4. h # Idle
  BY <1>2, IdleIsNoRequest
<1> HIDE DEF h
<1> QED  BY <1>2, <1>3, <1>4 DEF TypeOK

LEMMA EndsEffect ==
  ASSUME TypeOK, NEW c \in Clients, Ends(c)
  PROVE  /\ handler' \in [Clients -> Handling \cup {Idle}]
         /\ handler'[c] = Idle
         /\ \A b \in Clients \ {c} : handler'[b] = handler[b]
  BY DEF TypeOK, Ends

\* The first statement of a request.
LEMMA ReadsEffect ==
  ASSUME TypeOK, NEW c \in Clients, NEW h \in Handling,
         handler' = [handler EXCEPT ![c] = h]
  PROVE  /\ handler' \in [Clients -> Handling \cup {Idle}]
         /\ handler'[c] = h /\ h # Idle
         /\ \A b \in Clients \ {c} : handler'[b] = handler[b]
  BY IdleIsNoRequest DEF TypeOK

LEMMA CountersType ==
  ASSUME TypeOK, Request \/ Fails \/ Succeeds
  PROVE  requests' \in 0 .. MaxRequests /\ failures' \in 0 .. MaxFailures
  BY ConstantsAssumption DEF TypeOK, Request, Fails, Succeeds

\* A request that stays where it is holds what it held.
LEMMA HoldingKept ==
  ASSUME TypeOK, NEW b \in Clients, handler'[b] = handler[b]
  PROVE  Holding(b)'
  BY DEF TypeOK, Holding, At

\* A request that is done holds nothing.
LEMMA HoldingEnds ==
  ASSUME TypeOK, NEW c \in Clients, Ends(c)
  PROVE  \A b \in Clients : Holding(b)'
<1>1. ASSUME NEW b \in Clients PROVE Holding(b)'
  <2>1. CASE b = c  BY <2>1, EndsEffect DEF Holding
  <2>2. CASE b # c  BY <2>2, EndsEffect, HoldingKept
  <2> QED  BY <2>1, <2>2
<1> QED  BY <1>1

-----------------------------------------------------------------------------
(***************************************************************************)
(* Types                                                                   *)
(***************************************************************************)

LEMMA InitType == Init => TypeOK
  BY ConstantsAssumption DEF Init, TypeOK, Holding, StreamingDestination, Cloud, Slots

LEMMA StartReadsType ==
  ASSUME TypeOK, NEW c \in Clients, NEW slot \in Slots, StartReads(c, slot)
  PROVE  TypeOK'
<1> DEFINE h == [op |-> "start", slot |-> slot, seen |-> noted, egress |-> None,
                 step |-> IF slot \in Destinations /\ ~app THEN "mark" ELSE "egress"]
<1>1. h \in Handling
  BY DEF TypeOK, Handling
<1>2. /\ handler' = [handler EXCEPT ![c] = h]
      /\ Request /\ UNCHANGED <<running, rows, synced>>
  BY DEF StartReads
<1>3. h.op = "start" /\ h.egress = None /\ h.step \in {"egress", "mark"}
      /\ (h.step = "mark" => h.slot \in Destinations)
  OBVIOUS
<1> HIDE DEF h
<1>4. Holding(c)'
  BY <1>1, <1>2, <1>3, ReadsEffect DEF Holding, At
<1>5. \A b \in Clients : Holding(b)'
  BY <1>1, <1>2, <1>4, ReadsEffect, HoldingKept
<1> QED  BY <1>1, <1>2, <1>5, ReadsEffect, CountersType DEF TypeOK, rows

LEMMA StopReadsType ==
  ASSUME TypeOK, NEW c \in Clients, NEW slot \in Slots, StopReads(c, slot)
  PROVE  TypeOK'
<1> DEFINE egress == IF slot \in Cloud THEN column[slot]
                     ELSE IF app THEN noted[slot] ELSE None
           h == [op |-> "stop", slot |-> slot, seen |-> noted, egress |-> egress,
                 step |-> IF egress = None THEN "mark" ELSE "egress"]
<1>1. egress \in Egresses \cup {None}
  BY DEF TypeOK, Slots
<1>2. /\ handler' = [handler EXCEPT ![c] = h]
      /\ slot \in Cloud => egress # None
      /\ Request /\ UNCHANGED <<running, rows, synced>>
  BY DEF StopReads
<1> HIDE DEF egress
<1>3. h \in Handling
  BY <1>1 DEF TypeOK, Handling
<1>4. /\ h.op = "stop" /\ h.step \in {"egress", "mark"}
      /\ h.step = "egress" => h.egress # None
      /\ h.step = "mark" => h.slot \in Destinations
      /\ h.slot \in Destinations /\ h.step # "mark" => h.egress = h.seen[h.slot]
  BY <1>2, ConstantsAssumption DEF Slots, egress
<1> HIDE DEF h
<1>5. Holding(c)'
  BY <1>2, <1>3, <1>4, ReadsEffect DEF Holding, At
<1>6. \A b \in Clients : Holding(b)'
  BY <1>2, <1>3, <1>5, ReadsEffect, HoldingKept
<1> QED  BY <1>2, <1>3, <1>6, ReadsEffect, CountersType DEF TypeOK, rows

LEMMA EgressStartsType ==
  ASSUME TypeOK, NEW c \in Clients, EgressStarts(c)
  PROVE  TypeOK'
<1>1. PICK e \in Egresses :
        /\ running' = [running EXCEPT ![e] = handler[c].slot]
        /\ handler' = [handler EXCEPT ![c].egress = e, ![c].step = "write"]
  BY DEF EgressStarts
<1>2. handler[c] \in Handling /\ At(c, "start", "egress")
  BY DEF EgressStarts, At, TypeOK
<1> DEFINE h == [handler[c] EXCEPT !.egress = e, !.step = "write"]
<1>3. h \in Handling /\ h.op = "start" /\ h.egress = e /\ h.step = "write"
  BY <1>2 DEF Handling, At
<1>4. handler' = [handler EXCEPT ![c] = h]
  BY <1>1, <1>2 DEF TypeOK
<1>5. running' \in [Egresses -> Slots \cup {None}]
  BY <1>1, <1>2 DEF TypeOK, Handling
<1> HIDE DEF h
<1>6. Holding(c)'
  BY <1>3, <1>4, ReadsEffect, ConstantsAssumption DEF Holding, At
<1>7. \A b \in Clients : Holding(b)'
  BY <1>3, <1>4, <1>6, ReadsEffect, HoldingKept
<1>8. Succeeds /\ UNCHANGED <<rows, synced>>
  BY DEF EgressStarts
<1> QED  BY <1>3, <1>4, <1>5, <1>7, <1>8, ReadsEffect, CountersType DEF TypeOK, rows

\* A request that goes on to a step its egress allows.
LEMMA HoldingAdvances ==
  ASSUME TypeOK, NEW c \in Clients, handler[c] # Idle, handler[c].step # "mark",
         NEW step \in Steps \ {"egress"}, Advances(c, step),
         step \in {"write", "rollback"} => handler[c].egress # None,
         step = "rollback" => handler[c].op = "start" /\ handler[c].slot = "stream",
         step = "mark" => handler[c].slot \in Destinations
  PROVE  \A b \in Clients : Holding(b)'
<1>1. Holding(c)
  BY DEF TypeOK
<1>2. /\ handler'[c] # Idle /\ handler'[c].step = step
      /\ handler'[c].op = handler[c].op /\ handler'[c].slot = handler[c].slot
      /\ handler'[c].seen = handler[c].seen /\ handler'[c].egress = handler[c].egress
  BY AdvancesEffect DEF Steps
<1>3. Holding(c)'
  BY <1>1, <1>2 DEF Holding, At, Steps
<1>4. \A b \in Clients \ {c} : handler'[b] = handler[b]
  BY AdvancesEffect DEF Steps
<1> QED  BY <1>3, <1>4, HoldingKept

LEMMA CallFailsType ==
  ASSUME TypeOK, NEW c \in Clients,
         EgressStartFails(c) \/ StopStoreFails(c) \/ MarkFails(c) \/ RollsBack(c)
  PROVE  TypeOK'
<1>1. Ends(c) /\ UNCHANGED <<rows, synced>> /\ (Fails \/ Succeeds)
  BY DEF EgressStartFails, StopStoreFails, MarkFails, RollsBack
<1>2. running' \in [Egresses -> Slots \cup {None}]
  <2>1. handler[c] \in Handling
    BY DEF EgressStartFails, StopStoreFails, MarkFails, RollsBack, At, TypeOK
  <2> QED
    BY <2>1 DEF EgressStartFails, StopStoreFails, MarkFails, RollsBack, TypeOK, Handling
<1> QED  BY <1>1, <1>2, EndsEffect, HoldingEnds, CountersType DEF TypeOK, rows

LEMMA StoreFailsType ==
  ASSUME TypeOK, NEW c \in Clients, StoreFails(c)
  PROVE  TypeOK'
<1>1. At(c, "start", "write") /\ handler[c] \in Handling /\ handler[c] # Idle
  BY DEF StoreFails, At, TypeOK
<1>2. Fails /\ UNCHANGED <<running, rows, synced>>
  BY DEF StoreFails
<1>3. handler[c].egress # None
  BY <1>1 DEF TypeOK, Holding, At
<1>4. CASE handler[c].slot = "stream"
  <2>1. Advances(c, "rollback")
    BY <1>4 DEF StoreFails
  <2>2. \A b \in Clients : Holding(b)'
    BY <1>1, <1>3, <1>4, <2>1, HoldingAdvances, ConstantsAssumption DEF Steps, At
  <2> QED  BY <1>1, <1>2, <2>1, <2>2, AdvancesEffect, CountersType DEF TypeOK, rows, Steps
<1>5. CASE handler[c].slot # "stream"
  <2>1. Ends(c)
    BY <1>5 DEF StoreFails
  <2> QED  BY <1>2, <2>1, EndsEffect, HoldingEnds, CountersType DEF TypeOK, rows
<1> QED  BY <1>4, <1>5

\* The ids, after a start or a stop has stored what it holds.
LEMMA StoredType ==
  ASSUME TypeOK, NEW c \in Clients, EgressIsStored(c) \/ StopIsStored(c)
  PROVE  TypeOK'
<1>1. /\ handler[c] # Idle /\ handler[c] \in Handling /\ handler[c].step # "mark"
      /\ handler[c].seen \in [Destinations -> Egresses \cup {None}]
      /\ handler[c].egress \in Egresses \cup {None} /\ handler[c].slot \in Slots
  BY DEF EgressIsStored, StopIsStored, At, TypeOK, Handling
<1>2. Succeeds /\ UNCHANGED <<running, destination, app, synced>>
  BY DEF EgressIsStored, StopIsStored
<1>3. CASE handler[c].slot \in Cloud
  <2>1. Ends(c) /\ noted' = noted /\ column' \in [Cloud -> Egresses \cup {None}]
    BY <1>1, <1>3 DEF EgressIsStored, StopIsStored, TypeOK
  <2> QED  BY <1>2, <2>1, EndsEffect, HoldingEnds, CountersType DEF TypeOK
<1>4. CASE handler[c].slot \notin Cloud
  <2>1. Advances(c, "mark") /\ column' = column
        /\ noted' \in [Destinations -> Egresses \cup {None}]
    BY <1>1, <1>4 DEF EgressIsStored, StopIsStored, TypeOK
  <2>2. \A b \in Clients : Holding(b)'
    BY <1>1, <1>4, <2>1, HoldingAdvances DEF Steps, Slots
  <2> QED  BY <1>1, <1>2, <2>1, <2>2, AdvancesEffect, CountersType DEF TypeOK, Steps
<1> QED  BY <1>3, <1>4

LEMMA EgressStopsType ==
  ASSUME TypeOK, NEW c \in Clients, EgressStops(c)
  PROVE  TypeOK'
<1>1. /\ At(c, "stop", "egress") /\ handler[c] # Idle /\ handler[c].egress # None
      /\ handler[c].step # "mark"
  BY DEF EgressStops, At, TypeOK, Holding
<1>2. Advances(c, "write") /\ UNCHANGED <<rows, synced>> /\ (Fails \/ Succeeds)
      /\ running' \in [Egresses -> Slots \cup {None}]
  BY DEF EgressStops, TypeOK
<1>3. \A b \in Clients : Holding(b)'
  BY <1>1, <1>2, HoldingAdvances DEF Steps
<1> QED  BY <1>1, <1>2, <1>3, AdvancesEffect, CountersType DEF TypeOK, rows, Steps

LEMMA MarksType ==
  ASSUME TypeOK, NEW c \in Clients, Marks(c)
  PROVE  TypeOK'
<1>1. Ends(c) /\ Succeeds /\ UNCHANGED <<running, column, noted, app, synced>>
  BY DEF Marks
<1>2. destination' \in [Destinations -> StreamingDestination \cup {None}]
  <2> DEFINE d == handler[c].slot
             started == handler[c].op = "start"
  <2>1. started \in BOOLEAN
    OBVIOUS
  <2>2. destination' = IF destination[d] = None THEN destination
                       ELSE [destination EXCEPT ![d].isActive = started]
    BY DEF Marks
  <2>3. d \in Destinations
    BY DEF Marks, TypeOK, Holding
  <2> HIDE DEF started, d
  <2> QED  BY <2>1, <2>2, <2>3 DEF TypeOK, StreamingDestination
<1> QED  BY <1>1, <1>2, EndsEffect, HoldingEnds, CountersType DEF TypeOK

\* The steps that leave the handlers alone.
LEMMA SingleType ==
  ASSUME TypeOK,
         \/ StateSyncs \/ StatePersists \/ SwitchEngine
         \/ \E d \in Destinations, new \in StreamingDestination \cup {None} :
              DestinationChanges(d, new)
         \/ \E e \in Egresses : EgressEnds(e)
  PROVE  TypeOK' /\ handler' = handler
<1>1. handler' = handler
  BY DEF StateSyncs, StatePersists, SwitchEngine, DestinationChanges, EgressEnds
<1>2. \A b \in Clients : Holding(b)'
  BY <1>1, HoldingKept
<1>3. requests' \in 0 .. MaxRequests /\ failures' \in 0 .. MaxFailures
  BY CountersType
     DEF StateSyncs, StatePersists, SwitchEngine, DestinationChanges, EgressEnds, Succeeds
<1>4. CASE StateSyncs
  BY <1>1, <1>2, <1>3, <1>4 DEF StateSyncs, TypeOK, rows
<1>5. CASE StatePersists
  BY <1>1, <1>2, <1>3, <1>5 DEF StatePersists, TypeOK
<1>6. CASE SwitchEngine
  BY <1>1, <1>2, <1>3, <1>6 DEF SwitchEngine, TypeOK
<1>7. ASSUME NEW d \in Destinations, NEW new \in StreamingDestination \cup {None},
             DestinationChanges(d, new)
      PROVE  TypeOK'
  BY <1>1, <1>2, <1>3, <1>7 DEF DestinationChanges, TypeOK
<1>8. ASSUME NEW e \in Egresses, EgressEnds(e)
      PROVE  TypeOK'
  BY <1>1, <1>2, <1>3, <1>8 DEF EgressEnds, TypeOK, rows
<1> QED  BY <1>1, <1>4, <1>5, <1>6, <1>7, <1>8

LEMMA NextType == TypeOK /\ [Next]_vars => TypeOK'
<1> SUFFICES ASSUME TypeOK, [Next]_vars PROVE TypeOK'
  OBVIOUS
<1>1. ASSUME NEW c \in Clients, Handler(c) PROVE TypeOK'
  BY <1>1, StartReadsType, StopReadsType, EgressStartsType, CallFailsType, StoreFailsType,
     StoredType, EgressStopsType, MarksType DEF Handler
<1>2. CASE UNCHANGED vars
  <2>1. \A b \in Clients : Holding(b)'
    BY <1>2, HoldingKept DEF vars
  <2> QED  BY <1>2, <2>1 DEF vars, rows, TypeOK
<1> QED  BY <1>1, <1>2, SingleType DEF Next

\* The state keeps its types, and every request has the egress its next call is about,
\* for any destinations, egresses and clients (streaming.service.ts).
THEOREM TypeCorrectness == Spec => []TypeOK
  BY InitType, NextType, PTL DEF Spec

-----------------------------------------------------------------------------
(***************************************************************************)
(* Egresses that no request can stop                                       *)
(***************************************************************************)

LEMMA EgressIsNotNone == \A e \in Egresses : e # None
  BY ConstantsAssumption

\* While the rows stay, only the request that moves can give an egress up.
LEMMA GivenUp ==
  ASSUME TypeOK, NEW c \in Clients, UNCHANGED rows,
         \A b \in Clients \ {c} : handler'[b] = handler[b],
         NEW e \in Egresses, Owned(e), ~Owned(e)'
  PROVE  /\ handler[c] # Idle
         /\ \/ handler[c].egress = e /\ handler[c].step # "mark"
            \/ At(c, "start", "mark")
  BY DEF rows, Owned, IsActive, At

LEMMA ReadsLoseNothing ==
  ASSUME TypeOK, NEW c \in Clients, NEW slot \in Slots,
         StartReads(c, slot) \/ StopReads(c, slot),
         NEW e \in Egresses, Owned(e)
  PROVE  Owned(e)'
<1>1. handler[c] = Idle /\ UNCHANGED rows
  BY DEF StartReads, StopReads
<1>2. \A b \in Clients \ {c} : handler'[b] = handler[b]
  BY DEF StartReads, StopReads, TypeOK
<1> QED  BY <1>1, <1>2, GivenUp

\* Calls to LiveKit that a request goes on after.
LEMMA CallsLoseNothing ==
  ASSUME TypeOK, NEW c \in Clients, EgressStarts(c) \/ EgressStartFails(c) \/ EgressStops(c),
         NEW e \in Egresses, Owned(e)
  PROVE  Owned(e)'
<1> SUFFICES ASSUME ~Owned(e)' PROVE FALSE
  OBVIOUS
<1>1. UNCHANGED rows
  BY DEF EgressStarts, EgressStartFails, EgressStops
<1>2. \A b \in Clients \ {c} : handler'[b] = handler[b]
  BY DEF EgressStarts, EgressStartFails, EgressStops, Ends, Advances, TypeOK
<1>3. /\ handler[c] # Idle
      /\ \/ handler[c].egress = e /\ handler[c].step # "mark"
         \/ At(c, "start", "mark")
  BY <1>1, <1>2, GivenUp
<1>4. CASE EgressStarts(c) \/ EgressStartFails(c)
  <2>1. At(c, "start", "egress") /\ handler[c].egress = None
    BY <1>4 DEF EgressStarts, EgressStartFails, TypeOK, Holding, At
  <2> QED  BY <1>3, <2>1, EgressIsNotNone DEF At
<1>5. CASE EgressStops(c)
  <2>1. At(c, "stop", "egress") /\ Advances(c, "write")
    BY <1>5 DEF EgressStops
  <2>2. handler'[c] # Idle /\ handler'[c].egress = e /\ handler'[c].step = "write"
    BY <1>3, <2>1, AdvancesEffect DEF Steps, At
  <2> QED  BY <2>2 DEF Owned
<1> QED  BY <1>4, <1>5

\* Calls that fail, and the rollback.
LEMMA FailuresAreUnhandled ==
  ASSUME TypeOK, NEW c \in Clients,
         StoreFails(c) \/ RollsBack(c) \/ StopStoreFails(c) \/ MarkFails(c),
         NEW e \in Egresses, Owned(e), running'[e] # None, ~Owned(e)'
  PROVE  Unhandled(c)
<1>1. handler[c] # Idle /\ handler[c] \in Handling /\ UNCHANGED rows
  BY DEF StoreFails, RollsBack, StopStoreFails, MarkFails, At, TypeOK
<1>2. \A b \in Clients \ {c} : handler'[b] = handler[b]
  BY DEF StoreFails, RollsBack, StopStoreFails, MarkFails, Ends, Advances, TypeOK
<1>3. \/ handler[c].egress = e /\ handler[c].step # "mark"
      \/ At(c, "start", "mark")
  BY <1>1, <1>2, GivenUp
<1>4. Fails => failures' # failures
  BY ConstantsAssumption DEF Fails, TypeOK
<1>5. CASE StoreFails(c) /\ handler[c].slot = "stream"
  <2>1. Advances(c, "rollback") /\ At(c, "start", "write")
    BY <1>5 DEF StoreFails
  <2>2. handler'[c] # Idle /\ handler'[c].egress = e /\ handler'[c].step = "rollback"
    BY <1>1, <1>3, <2>1, AdvancesEffect DEF Steps, At
  <2> QED  BY <2>2 DEF Owned
<1>6. CASE StoreFails(c) /\ handler[c].slot # "stream"
  <2>1. Ends(c) /\ Fails
    BY <1>6 DEF StoreFails
  <2> QED  BY <1>1, <1>4, <1>6, <2>1, EndsEffect DEF Unhandled
<1>7. CASE RollsBack(c)
  <2>1. At(c, "start", "rollback") /\ handler[c].egress = e
    BY <1>3, <1>7 DEF RollsBack, At
  <2>2. Ends(c) /\ Fails
    BY <1>7, <2>1 DEF RollsBack, TypeOK
  <2> QED  BY <1>1, <1>4, <2>1, <2>2, EndsEffect DEF Unhandled, At
<1>8. CASE StopStoreFails(c) \/ MarkFails(c)
  <2>1. Ends(c) /\ Fails /\ ~(At(c, "start", "write"))
    BY <1>8 DEF StopStoreFails, MarkFails, At
  <2> QED  BY <1>1, <1>4, <2>1, EndsEffect DEF Unhandled
<1> QED  BY <1>5, <1>6, <1>7, <1>8

LEMMA StoresLoseOnlyStale ==
  ASSUME TypeOK, NEW c \in Clients, EgressIsStored(c) \/ StopIsStored(c),
         NEW e \in Egresses, Owned(e), running'[e] # None, ~Owned(e)'
  PROVE  StaleWrite(c) \/ Restarts(c) \/ Unstopped(c)
<1> SUFFICES ASSUME ~StaleWrite(c), ~Restarts(c), ~Unstopped(c) PROVE FALSE
  OBVIOUS
<1> DEFINE slot == handler[c].slot
           egress == handler[c].egress
<1>1. /\ handler[c] # Idle /\ handler[c].step = "write" /\ slot \in Slots
      /\ handler[c].op \in {"start", "stop"} /\ egress # None
      /\ running' = running /\ destination' = destination
  BY DEF EgressIsStored, StopIsStored, At, TypeOK, Holding, Handling
<1>2. \A b \in Clients \ {c} : handler'[b] = handler[b]
  BY DEF EgressIsStored, StopIsStored, Ends, Advances, TypeOK
<1>3. ASSUME StopIsStored(c) PROVE egress # e
  <2>1. running[egress] = None
    BY <1>3 DEF StopIsStored, Unstopped
  <2> QED  BY <1>1, <2>1
<1>4. \A b \in Clients \ {c} : handler[b] # Idle /\ handler[b].step # "mark" =>
        handler[b].egress # e
  BY <1>2 DEF Owned
<1>5. CASE slot \in Cloud
  <2>1. noted' = noted /\ Ends(c) /\ handler'[c] = Idle
    BY <1>5, EndsEffect DEF EgressIsStored, StopIsStored
  <2>2. column' = [column EXCEPT ![slot] = IF EgressIsStored(c) THEN egress ELSE None]
    BY <1>5 DEF EgressIsStored, StopIsStored, At
  <2>3. column[slot] = IF EgressIsStored(c) THEN None ELSE egress
    BY <1>1, <1>5 DEF StaleWrite, EgressIsStored, StopIsStored, At
  <2>4. \A d \in Destinations :
          ~(/\ noted[d] = e /\ destination[d] # None
            /\ IsActive(d) \/ \E b \in Clients : At(b, "start", "mark") /\ handler[b].slot = d)
    BY <1>1, <1>2, <2>1 DEF Owned, IsActive, At
  <2>5. \A other \in Cloud \ {slot} : column[other] # e
    BY <1>5, <2>2 DEF Owned, TypeOK
  <2>6. column[slot] = e \/ egress = e
    BY <1>4, <2>4, <2>5 DEF Owned
  <2>7. EgressIsStored(c) /\ egress = e
    BY <1>3, <2>3, <2>6, EgressIsNotNone
  <2> QED  BY <1>5, <2>2, <2>7 DEF Owned, TypeOK
<1>6. CASE slot \notin Cloud
  <2>1. /\ slot \in Destinations /\ column' = column /\ Advances(c, "mark")
        /\ noted = handler[c].seen /\ destination[slot] # None
    BY <1>1, <1>6 DEF EgressIsStored, StopIsStored, StaleWrite, Slots
  <2>2. handler'[c] # Idle /\ handler'[c].step = "mark" /\ handler'[c].slot = slot
        /\ handler'[c].op = handler[c].op
    BY <1>1, <2>1, AdvancesEffect DEF Steps
  <2>3. noted' = [noted EXCEPT ![slot] = IF EgressIsStored(c) THEN egress ELSE None]
    BY <1>6, <2>1 DEF EgressIsStored, StopIsStored, At
  <2>4. noted[slot] = IF EgressIsStored(c) THEN None ELSE egress
    BY <1>1, <2>1 DEF Restarts, EgressIsStored, StopIsStored, At, TypeOK, Holding
  <2>5. \A d \in Destinations \ {slot} :
          ~(/\ noted[d] = e /\ destination[d] # None
            /\ IsActive(d) \/ \E b \in Clients : At(b, "start", "mark") /\ handler[b].slot = d)
    BY <1>1, <1>2, <2>1, <2>3 DEF Owned, IsActive, At, TypeOK
  <2>6. \A other \in Cloud : column[other] # e
    BY <2>1 DEF Owned
  <2>7. noted[slot] = e \/ egress = e
    BY <1>4, <2>1, <2>5, <2>6 DEF Owned
  <2>8. EgressIsStored(c) /\ egress = e
    BY <1>3, <2>4, <2>7, EgressIsNotNone
  <2>9. handler'[c].op = "start" /\ noted'[slot] = e /\ destination'[slot] # None
    BY <1>1, <2>1, <2>2, <2>3, <2>8 DEF EgressIsStored, At, TypeOK
  <2> QED  BY <2>1, <2>2, <2>9 DEF Owned, At
<1> QED  BY <1>5, <1>6

LEMMA MarksLoseOnlyStale ==
  ASSUME TypeOK, NEW c \in Clients, Marks(c),
         NEW e \in Egresses, Owned(e), ~Owned(e)'
  PROVE  StaleMark(c)
<1> SUFFICES ASSUME ~StaleMark(c) PROVE FALSE
  OBVIOUS
<1> DEFINE d == handler[c].slot
           started == handler[c].op = "start"
<1>1. /\ handler[c] # Idle /\ handler[c].step = "mark" /\ handler[c].op \in {"start", "stop"}
      /\ d \in Destinations /\ column' = column /\ noted' = noted
  BY DEF Marks, TypeOK, Holding, Handling
<1>2. handler'[c] = Idle /\ \A b \in Clients \ {c} : handler'[b] = handler[b]
  BY EndsEffect DEF Marks
<1>3. destination' = IF destination[d] = None THEN destination
                     ELSE [destination EXCEPT ![d].isActive = started]
  BY DEF Marks
<1>4. \A other \in Destinations \ {d} : destination'[other] = destination[other]
  BY <1>3 DEF TypeOK
<1>5. PICK f \in Destinations :
        /\ noted[f] = e /\ destination[f] # None
        /\ IsActive(f) \/ \E b \in Clients : At(b, "start", "mark") /\ handler[b].slot = f
  BY <1>1, <1>2 DEF Owned
<1>6. f = d
  BY <1>1, <1>2, <1>4, <1>5 DEF Owned, IsActive, At
<1>7. started
  BY <1>1, <1>5, <1>6, EgressIsNotNone DEF StaleMark, At
<1>8. destination[d] \in StreamingDestination /\ None \notin StreamingDestination
  BY <1>5, <1>6, ConstantsAssumption DEF TypeOK, StreamingDestination
<1>9. destination'[d] \in StreamingDestination /\ destination'[d].isActive
  <2>1. destination' = [destination EXCEPT ![d].isActive = TRUE]
    BY <1>3, <1>5, <1>6, <1>7
  <2>2. destination'[d] = [destination[d] EXCEPT !.isActive = TRUE]
    BY <1>1, <2>1 DEF TypeOK
  <2> QED  BY <1>8, <2>2 DEF StreamingDestination
<1> QED  BY <1>1, <1>5, <1>6, <1>8, <1>9 DEF Owned, IsActive

\* Steps that leave the handlers alone lose an egress only when they withdraw it.
LEMMA SingleLosesOnlyWithdrawn ==
  ASSUME TypeOK,
         \/ StateSyncs \/ StatePersists \/ SwitchEngine
         \/ \E d \in Destinations, new \in StreamingDestination \cup {None} :
              DestinationChanges(d, new)
         \/ \E e \in Egresses : EgressEnds(e),
         NEW e \in Egresses, Owned(e), ~Owned(e)'
  PROVE  Withdrawn
<1>1. handler' = handler /\ column' = column
  BY DEF StateSyncs, StatePersists, SwitchEngine, DestinationChanges, EgressEnds, rows
<1>2. <<noted, destination>>' # <<noted, destination>>
  BY <1>1 DEF Owned, IsActive, At
<1>3. Request
  BY <1>2 DEF StateSyncs, StatePersists, SwitchEngine, DestinationChanges, EgressEnds, rows
<1>4. requests' # requests
  BY <1>3, ConstantsAssumption DEF Request, TypeOK
<1> QED  BY <1>1, <1>2, <1>4 DEF Withdrawn

LEMMA StepExplainsLoss == TypeOK /\ [Next]_vars => [LossIsExplained]_vars
<1> SUFFICES ASSUME TypeOK, Next, NEW e \in Egresses, Owned(e), running'[e] # None, ~Owned(e)'
             PROVE  \/ Withdrawn
                    \/ \E c \in Clients : \/ StaleWrite(c) \/ Restarts(c) \/ StaleMark(c)
                                          \/ Unstopped(c) \/ Unhandled(c)
  BY DEF LossIsExplained
<1>1. ASSUME NEW c \in Clients, Handler(c)
      PROVE  \/ StaleWrite(c) \/ Restarts(c) \/ StaleMark(c)
             \/ Unstopped(c) \/ Unhandled(c)
  BY <1>1, ReadsLoseNothing, CallsLoseNothing, FailuresAreUnhandled, StoresLoseOnlyStale,
     MarksLoseOnlyStale DEF Handler
<1> QED  BY <1>1, SingleLosesOnlyWithdrawn DEF Next

\* Every way to lose an egress, for any destinations, egresses and clients: no other step
\* of streaming.service.ts leaves one running that no request can stop.
THEOREM EgressesStayOwned == Spec => EgressStaysOwned
  BY InitType, NextType, StepExplainsLoss, PTL DEF Spec, EgressStaysOwned
=============================================================================
