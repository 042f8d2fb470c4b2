----------------------------- MODULE RundownProofs ------------------------------
(***************************************************************************)
(* Proofs about the rundowns under the rules that listen to them, for any  *)
(* blocks, productions and requests: the types, that one block of a        *)
(* production is active, that changes are announced, and that a time       *)
(* trigger runs its rule once.                                             *)
(*                                                                         *)
(* Each fact is kept by every step of the timeline, and by the steps of    *)
(* the engine, which leave all of it alone but the number of requests.     *)
(***************************************************************************)
EXTENDS RuleEngine, FiniteSetTheorems, TLAPS

\* What the steps of the engine leave alone.
rundownVars == <<block, request, pending, changed, swallowed, overlapped, now>>

LEMMA IdleIsNoRequest == \A r \in Requesting : r # Idle
  BY DEF Requesting, Idle

LEMMA NoneIsNoProduction == None \notin Productions
  BY TimelineAssumption

\* A step of the engine is one of the timeline, or leaves the rundowns alone.
LEMMA StepOfTimeline ==
  ASSUME Next
  PROVE  \/ TimelineNext
         \/ UNCHANGED rundownVars /\ requests' = requests
         \/ UNCHANGED rundownVars /\ requests < MaxRequests /\ requests' = requests + 1
<1> USE DEF rundownVars, timelineVars
<1>1. CASE TimelineSteps
  BY <1>1 DEF TimelineSteps, TimelineNext
<1>2. CASE EngineRestarts
  BY <1>2 DEF EngineRestarts, TimelineNext
<1>3. CASE Rows
  BY <1>3 DEF Rows, DeleteRule, CreateRule, UpdateRule, SaveMapping, DeleteMapping, Requests
<1>4. CASE (\E r \in Runnable : Triggered(r)) \/ \E k \in Keys : HardwareTrigger(k)
  BY <1>4 DEF Triggered, HardwareTrigger, Requests
<1>5. CASE \E b \in Blocks : HandleEvent(b)
  BY <1>5 DEF HandleEvent
<1>6. CASE \E t \in Ticks :
             \/ TickBegins(t) \/ TickReads(t) \/ TickResumes(t)
             \/ tick[t] # Idle /\ tick[t].step = "scan" /\ \E d \in tick[t].due : TickAsks(t, d)
  BY <1>6 DEF TickBegins, TickReads, TickResumes, TickAsks
<1>7. CASE \E r \in Runnable :
             ActionsSucceed(r) \/ ActionsFail(r) \/ LogIsWritten(r) \/ LogFails(r) \/ RunEnds(r)
  BY <1>7 DEF ActionsSucceed, ActionsFail, LogIsWritten, LogFails, RunEnds
<1> QED  BY <1>1, <1>2, <1>3, <1>4, <1>5, <1>6, <1>7 DEF Next

-----------------------------------------------------------------------------
(***************************************************************************)
(* The types                                                               *)
(***************************************************************************)
\* A request between its statements.
LEMMA RequestTyped ==
  ASSUME TimelineTypeOK, NEW c \in Clients, request[c] # Idle
  PROVE  /\ request[c] \in Requesting
         /\ request[c].block \in Blocks
         /\ RequestOf(c) \in Productions
  BY TimelineAssumption DEF TimelineTypeOK, Requesting, RequestOf

LEMMA AtIsAsked ==
  ASSUME TimelineTypeOK, NEW c \in Clients, NEW step, At(c, step)
  PROVE  /\ request[c] # Idle /\ request[c].step = step
         /\ request[c] \in Requesting /\ request[c].block \in Blocks
         /\ RequestOf(c) \in Productions
  BY RequestTyped DEF At

LEMMA AnnouncesTyped ==
  ASSUME TimelineTypeOK, NEW p \in Productions, Announces(p)
  PROVE  pending' \in Productions \cup {None} /\ swallowed' \subseteq Productions
  BY DEF Announces, TimelineTypeOK

LEMMA InitTyped == TimelineInit => TimelineTypeOK
  BY TimelineAssumption DEF TimelineInit, TimelineTypeOK, TimelineBlock, BlockStatus, Idle

LEMMA CreateBlockTyped ==
  ASSUME TimelineTypeOK, NEW b \in Blocks, NEW duration \in Durations, CreateBlock(b, duration)
  PROVE  TimelineTypeOK'
<1> DEFINE row == [status |-> "PENDING", duration |-> duration, startTime |-> None,
                   run |-> requests + 1]
<1>1. requests' \in 0 .. MaxRequests /\ row \in TimelineBlock
  BY TimelineAssumption DEF CreateBlock, TimelineTypeOK, TimelineBlock, BlockStatus
<1>2. block' = [block EXCEPT ![b] = row]
  BY DEF CreateBlock
<1>3. ProductionOf[b] \in Productions
  BY TimelineAssumption
<1>4. pending' \in Productions \cup {None} /\ swallowed' \subseteq Productions
  BY <1>3, AnnouncesTyped DEF CreateBlock
<1> HIDE DEF row
<1> QED  BY <1>1, <1>2, <1>3, <1>4 DEF CreateBlock, Changes, TimelineTypeOK

LEMMA FindsTyped ==
  ASSUME TimelineTypeOK, NEW c \in Clients, NEW op \in Operations, NEW b \in Blocks,
         Finds(c, op, b)
  PROVE  TimelineTypeOK'
<1> DEFINE new == [op |-> op, block |-> b, step |-> "write"]
<1>1. new \in Requesting /\ new.step = "write"
  BY DEF Requesting
<1>2. request' = [request EXCEPT ![c] = new]
  BY DEF Finds
<1>3. requests' \in 0 .. MaxRequests
  BY TimelineAssumption DEF Finds, TimelineTypeOK
<1> HIDE DEF new
<1> QED  BY <1>1, <1>2, <1>3 DEF Finds, TimelineTypeOK

LEMMA CompletesActiveTyped ==
  ASSUME TimelineTypeOK, NEW c \in Clients, CompletesActive(c)
  PROVE  TimelineTypeOK'
<1>1. /\ request[c] # Idle /\ request[c] \in Requesting /\ request[c].op = "start"
      /\ RequestOf(c) \in Productions
  BY AtIsAsked DEF CompletesActive
<1> DEFINE new == [request[c] EXCEPT !.step = "activate"]
<1>2. new \in Requesting /\ new.op = "start"
  BY <1>1 DEF Requesting
<1>3. request' = [request EXCEPT ![c] = new]
  BY DEF CompletesActive
<1>4. \A b \in Active(RequestOf(c)) : [block[b] EXCEPT !.status = "COMPLETED"] \in TimelineBlock
  BY NoneIsNoBlock DEF Active, TimelineTypeOK, TimelineBlock, BlockStatus
<1>5. block' \in [Blocks -> TimelineBlock \cup {None}]
  BY <1>4 DEF CompletesActive, TimelineTypeOK
<1>6. changed' \subseteq Productions /\ overlapped' \subseteq Productions
  BY <1>1 DEF CompletesActive, TimelineTypeOK
<1> HIDE DEF new
<1> QED  BY <1>2, <1>3, <1>5, <1>6 DEF CompletesActive, Quiet, TimelineTypeOK

LEMMA ActivatesTyped ==
  ASSUME TimelineTypeOK, NEW c \in Clients, Activates(c)
  PROVE  TimelineTypeOK'
<1> DEFINE b == request[c].block
           row == [block[b] EXCEPT !.status = "ACTIVE", !.startTime = now, !.run = @ + 1]
           new == [request[c] EXCEPT !.step = "announce"]
<1>1. /\ request[c] # Idle /\ request[c] \in Requesting /\ request[c].op = "start"
      /\ b \in Blocks /\ RequestOf(c) \in Productions
  BY AtIsAsked DEF Activates, TimelineTypeOK
<1>2. block[b] \in TimelineBlock
  BY <1>1 DEF Activates, TimelineTypeOK
<1>3. row \in TimelineBlock
  <2> DEFINE r == block[b]
             n == r.run + 1
  <2>1. r \in TimelineBlock /\ n \in Nat
    BY <1>2 DEF TimelineBlock
  <2>2. now \in 0 .. MaxTime
    BY DEF TimelineTypeOK
  <2>3. row = [r EXCEPT !.status = "ACTIVE", !.startTime = now, !.run = n]
    OBVIOUS
  <2> HIDE DEF r, n, row
  <2>4. [r EXCEPT !.status = "ACTIVE"] \in TimelineBlock
    BY <2>1 DEF TimelineBlock, BlockStatus
  <2>5. [r EXCEPT !.status = "ACTIVE", !.startTime = now] \in TimelineBlock
    BY <2>4, <2>2 DEF TimelineBlock
  <2> QED  BY <2>5, <2>1, <2>3 DEF TimelineBlock
<1>4. block' = [block EXCEPT ![b] = row]
  BY DEF Activates
<1>5. new \in Requesting /\ new.op = "start"
  BY <1>1 DEF Requesting
<1>6. request' = [request EXCEPT ![c] = new]
  BY DEF Activates
<1> HIDE DEF row, new
<1>7. block' \in [Blocks -> TimelineBlock \cup {None}]
  BY <1>3, <1>4 DEF TimelineTypeOK
<1>8. changed' \subseteq Productions
  BY <1>1 DEF Activates, Changes, TimelineTypeOK
<1> HIDE DEF b
<1>9. request' \in [Clients -> Requesting \cup {Idle}]
  BY <1>5, <1>6 DEF TimelineTypeOK
<1>10. \A d \in Clients : request'[d] # Idle /\ request'[d].step # "write" => request'[d].op = "start"
  BY <1>5, <1>6 DEF TimelineTypeOK
<1>11. UNCHANGED <<pending, swallowed, overlapped, now, requests>>
  BY DEF Activates, Quiet
<1> QED  BY <1>7, <1>8, <1>9, <1>10, <1>11 DEF TimelineTypeOK

LEMMA WritesTyped ==
  ASSUME TimelineTypeOK, NEW c \in Clients, Writes(c)
  PROVE  TimelineTypeOK'
<1> DEFINE b == request[c].block
<1>1. /\ request[c] # Idle /\ request[c] \in Requesting
      /\ b \in Blocks /\ RequestOf(c) \in Productions
  BY AtIsAsked DEF Writes
<1>2. block[b] \in TimelineBlock
  BY <1>1 DEF Writes, TimelineTypeOK
<1>3. request[c].op \in {"complete", "reset", "update", "delete"}
  BY <1>1 DEF Writes, Requesting, Operations
<1>4. PICK duration \in Durations :
        block' = [block EXCEPT ![b] = Written(request[c].op, block[b], duration)]
  BY DEF Writes
<1>5. Written(request[c].op, block[b], duration) \in TimelineBlock \cup {None}
  BY <1>2, <1>3 DEF Written, TimelineBlock, BlockStatus
<1>6. pending' \in Productions \cup {None} /\ swallowed' \subseteq Productions
  BY <1>1, AnnouncesTyped DEF Writes
<1>7. request' = [request EXCEPT ![c] = Idle]
  BY DEF Writes
<1> HIDE DEF b
<1> QED  BY <1>1, <1>4, <1>5, <1>6, <1>7 DEF Writes, Changes, TimelineTypeOK

LEMMA StepTyped == TimelineTypeOK /\ Next => TimelineTypeOK'
<1> SUFFICES ASSUME TimelineTypeOK, Next  PROVE TimelineTypeOK'
  OBVIOUS
<1>1. CASE UNCHANGED rundownVars /\ requests' \in {requests, requests + 1} /\
           (requests' # requests => requests < MaxRequests)
  <2>1. requests' \in 0 .. MaxRequests
    BY <1>1, TimelineAssumption DEF TimelineTypeOK
  <2> QED  BY <1>1, <2>1 DEF rundownVars, TimelineTypeOK
<1>2. CASE \E p \in Productions : ReorderBlocks(p)
  <2>1. PICK p \in Productions : ReorderBlocks(p)
    BY <1>2
  <2>2. requests' \in 0 .. MaxRequests
    BY <2>1, TimelineAssumption DEF ReorderBlocks, TimelineTypeOK
  <2> QED  BY <2>1, <2>2, AnnouncesTyped DEF ReorderBlocks, Changes, TimelineTypeOK
<1>3. CASE \E c \in Clients : StartAnnounced(c)
  <2>1. PICK c \in Clients : StartAnnounced(c)
    BY <1>3
  <2>2. RequestOf(c) \in Productions
    BY <2>1, AtIsAsked DEF StartAnnounced
  <2> QED  BY <2>1, <2>2, AnnouncesTyped DEF StartAnnounced, TimelineTypeOK
<1>4. CASE \E c \in Clients : BlockIsGone(c)
  <2>1. PICK c \in Clients : BlockIsGone(c)
    BY <1>4
  <2>2. RequestOf(c) \in Productions
    BY <2>1, AtIsAsked DEF BlockIsGone
  <2> QED  BY <2>1, <2>2 DEF BlockIsGone, GoesUnannounced, Quiet, TimelineTypeOK
<1>5. CASE DebounceFires
  BY <1>5 DEF DebounceFires, TimelineTypeOK
<1>6. CASE Clock
  <2>1. now' \in 0 .. MaxTime
    BY <1>6, TimelineAssumption DEF Clock, TimelineTypeOK
  <2> QED  BY <1>6, <2>1 DEF Clock, TimelineTypeOK
<1>7. CASE Restart
  BY <1>7 DEF Restart, TimelineTypeOK
<1> QED
  BY <1>1, <1>2, <1>3, <1>4, <1>5, <1>6, <1>7, StepOfTimeline, CreateBlockTyped, FindsTyped,
     CompletesActiveTyped, ActivatesTyped, WritesTyped DEF TimelineNext, OtherTimelineNext

\* Type correctness of the rundowns, whatever rules run beside them.
THEOREM TimelineTyped == Spec => []TimelineTypeOK
<1>1. Init => TimelineTypeOK
  BY InitTyped DEF Init
<1>2. TimelineTypeOK /\ [Next]_vars => TimelineTypeOK'
  BY StepTyped DEF vars, timelineVars, TimelineTypeOK, Active, RequestOf
<1> QED  BY <1>1, <1>2, PTL DEF Spec
-----------------------------------------------------------------------------
(***************************************************************************)
(* One active block                                                        *)
(*                                                                         *)
(* Between its two statements a start has left its production without an   *)
(* active block.  OneActiveBlock is not inductive without that, nor        *)
(* without there being one such start where none has overlapped another.   *)
(***************************************************************************)
Activating(p) == {c \in Clients : At(c, "activate") /\ RequestOf(c) = p}

StartsAreAlone ==
  \A p \in Productions \ overlapped :
    /\ \A c \in Activating(p) : Active(p) = {}
    /\ \A c, d \in Activating(p) : c = d

ActiveInv == OneActiveBlock /\ StartsAreAlone

\* A step that makes no block active and brings no start to its last statement.
LEMMA NoNewActive ==
  ASSUME ActiveInv, UNCHANGED overlapped,
         \A p \in Productions : Active(p)' \subseteq Active(p),
         \A p \in Productions : Activating(p)' \subseteq Activating(p)
  PROVE  ActiveInv'
<1> SUFFICES ASSUME NEW p \in Productions, p \notin overlapped
             PROVE  /\ \A b1, b2 \in Active(p)' : b1 = b2
                    /\ \A c \in Activating(p)' : Active(p)' = {}
                    /\ \A c, d \in Activating(p)' : c = d
  BY DEF ActiveInv, OneActiveBlock, StartsAreAlone
<1> QED  BY DEF ActiveInv, OneActiveBlock, StartsAreAlone

LEMMA NoNewActivating ==
  ASSUME NEW c \in Clients, NEW h, request' = [request EXCEPT ![c] = h],
         h = Idle \/ h.step # "activate", request \in [Clients -> Requesting \cup {Idle}]
  PROVE  \A p : Activating(p)' \subseteq Activating(p)
  BY DEF Activating, At, RequestOf

LEMMA CompletesActiveKeepsOne ==
  ASSUME TimelineTypeOK, ActiveInv, NEW c \in Clients, CompletesActive(c)
  PROVE  ActiveInv'
<1>1. request[c] # Idle /\ request[c].block \in Blocks /\ RequestOf(c) \in Productions
  BY AtIsAsked DEF CompletesActive
<1> PICK p \in Productions : p = RequestOf(c)
  BY <1>1
<1>2. Active(p)' = {}
  BY NoneIsNoBlock DEF CompletesActive, Active, TimelineTypeOK, TimelineBlock
<1>3. \A q \in Productions \ {p} : Active(q)' = Active(q)
  BY DEF CompletesActive, Active, TimelineTypeOK
<1>4. /\ request' \in [Clients -> Requesting \cup {Idle}]
      /\ request'[c].block = request[c].block
      /\ \A d \in Clients \ {c} : request'[d] = request[d]
  <2>1. request[c] \in Requesting
    BY AtIsAsked DEF CompletesActive
  <2> DEFINE new == [request[c] EXCEPT !.step = "activate"]
  <2>2. new \in Requesting /\ new.block = request[c].block
    BY <2>1 DEF Requesting
  <2>3. request' = [request EXCEPT ![c] = new]
    BY DEF CompletesActive
  <2> HIDE DEF new
  <2> QED  BY <2>2, <2>3 DEF TimelineTypeOK
<1>5. \A q \in Productions \ {p} : Activating(q)' = Activating(q)
  BY <1>4 DEF Activating, At, RequestOf
<1>6. p \notin overlapped' => Activating(p)' \subseteq {c}
  BY <1>4 DEF CompletesActive, Activating, At, RequestOf
<1>7. \A q \in Productions \ {p} : q \notin overlapped' => q \notin overlapped
  BY DEF CompletesActive
<1>8. SUFFICES ASSUME NEW q \in Productions, q \notin overlapped'
               PROVE  /\ \A b1, b2 \in Active(q)' : b1 = b2
                      /\ \A d \in Activating(q)' : Active(q)' = {}
                      /\ \A d, e \in Activating(q)' : d = e
  BY DEF ActiveInv, OneActiveBlock, StartsAreAlone
<1>9. CASE q = p
  BY <1>9, <1>2, <1>6, <1>8
<1>10. CASE q # p
  BY <1>10, <1>3, <1>5, <1>7, <1>8 DEF ActiveInv, OneActiveBlock, StartsAreAlone
<1> QED  BY <1>9, <1>10

LEMMA ActivatesKeepsOne ==
  ASSUME TimelineTypeOK, ActiveInv, NEW c \in Clients, Activates(c)
  PROVE  ActiveInv'
<1>1. /\ request[c] # Idle /\ request[c] \in Requesting /\ request[c].block \in Blocks
      /\ At(c, "activate") /\ RequestOf(c) \in Productions
  BY AtIsAsked DEF Activates
<1> PICK b \in Blocks, p \in Productions : b = request[c].block /\ p = RequestOf(c)
  BY <1>1
<1>11. p = ProductionOf[b] /\ c \in Activating(p)
  BY <1>1 DEF Activating, RequestOf
<1>2. Active(p)' \subseteq Active(p) \cup {b}
  BY DEF Activates, Active, TimelineTypeOK
<1>3. \A q \in Productions \ {p} : Active(q)' = Active(q)
  BY <1>11 DEF Activates, Active, TimelineTypeOK
<1>4. \A d \in Clients \ {c} : request'[d] = request[d]
  BY DEF Activates
<1>5. request'[c] # Idle /\ request'[c].step = "announce"
  <2> DEFINE new == [request[c] EXCEPT !.step = "announce"]
  <2>1. new \in Requesting /\ new.step = "announce"
    BY <1>1 DEF Requesting
  <2>2. request' = [request EXCEPT ![c] = new]
    BY DEF Activates
  <2> HIDE DEF new
  <2> QED  BY <2>1, <2>2, IdleIsNoRequest DEF TimelineTypeOK
<1>6. \A q \in Productions : Activating(q)' \subseteq Activating(q) \ {c}
  BY <1>4, <1>5 DEF Activating, At, RequestOf
<1>7. overlapped' = overlapped
  BY DEF Activates
<1>8. SUFFICES ASSUME NEW q \in Productions, q \notin overlapped
               PROVE  /\ \A b1, b2 \in Active(q)' : b1 = b2
                      /\ \A d \in Activating(q)' : Active(q)' = {}
                      /\ \A d, e \in Activating(q)' : d = e
  BY <1>7 DEF ActiveInv, OneActiveBlock, StartsAreAlone
<1>9. CASE q = p
  <2>1. Active(p) = {} /\ Activating(p) = {c}
    BY <1>11, <1>8, <1>9 DEF ActiveInv, StartsAreAlone
  <2> QED  BY <2>1, <1>11, <1>2, <1>6, <1>9
<1>10. CASE q # p
  BY <1>10, <1>3, <1>6, <1>8 DEF ActiveInv, OneActiveBlock, StartsAreAlone
<1> QED  BY <1>9, <1>10

LEMMA WritesKeepsOne ==
  ASSUME TimelineTypeOK, ActiveInv, NEW c \in Clients, Writes(c)
  PROVE  ActiveInv'
<1> DEFINE b == request[c].block
<1>1. /\ request[c] # Idle /\ request[c] \in Requesting /\ b \in Blocks
  BY AtIsAsked DEF Writes
<1>2. block[b] \in TimelineBlock
  BY <1>1 DEF Writes, TimelineTypeOK
<1>3. request[c].op \in {"complete", "reset", "update", "delete"}
  BY <1>1 DEF Writes, Requesting, Operations
<1>4. PICK duration \in Durations :
        block' = [block EXCEPT ![b] = Written(request[c].op, block[b], duration)]
  BY DEF Writes
<1> DEFINE w == Written(request[c].op, block[b], duration)
<1>5. w # None /\ w.status = "ACTIVE" => block[b].status = "ACTIVE"
  BY <1>2, <1>3 DEF Written, TimelineBlock
<1>6. block[b] # None
  BY DEF Writes
<1>7. \A p \in Productions : Active(p)' \subseteq Active(p)
  <2> HIDE DEF w, b
  <2>1. block' = [block EXCEPT ![b] = w]
    BY <1>4 DEF w
  <2> QED  BY <1>1, <1>5, <1>6, <2>1 DEF Active, TimelineTypeOK
<1>8. \A p \in Productions : Activating(p)' \subseteq Activating(p)
  BY NoNewActivating DEF Writes, TimelineTypeOK
<1>9. UNCHANGED overlapped
  BY DEF Writes
<1> QED  BY <1>7, <1>8, <1>9, NoNewActive

LEMMA StepKeepsOne == TimelineTypeOK /\ ActiveInv /\ Next => ActiveInv'
<1> SUFFICES ASSUME TimelineTypeOK, ActiveInv, Next  PROVE ActiveInv'
  OBVIOUS
<1>1. ASSUME UNCHANGED <<block, request, overlapped>>  PROVE ActiveInv'
  BY <1>1 DEF ActiveInv, OneActiveBlock, StartsAreAlone, Active, Activating, At, RequestOf
<1>2. ASSUME NEW b \in Blocks, NEW duration \in Durations, CreateBlock(b, duration)
      PROVE  ActiveInv'
  <2>1. \A p \in Productions : Active(p)' \subseteq Active(p)
    BY <1>2 DEF CreateBlock, Active, TimelineTypeOK
  <2>2. \A p \in Productions : Activating(p)' \subseteq Activating(p)
    BY <1>2 DEF CreateBlock, Activating, At, RequestOf
  <2> QED  BY <1>2, <2>1, <2>2, NoNewActive DEF CreateBlock
<1>3. ASSUME NEW c \in Clients, NEW op \in Operations, NEW b \in Blocks, Finds(c, op, b)
      PROVE  ActiveInv'
  <2>1. \A p \in Productions : Active(p)' \subseteq Active(p)
    BY <1>3 DEF Finds, Active
  <2>2. \A p \in Productions : Activating(p)' \subseteq Activating(p)
    BY <1>3, NoNewActivating DEF Finds, TimelineTypeOK
  <2> QED  BY <1>3, <2>1, <2>2, NoNewActive DEF Finds
<1>4. ASSUME NEW c \in Clients, StartAnnounced(c) \/ BlockIsGone(c)  PROVE ActiveInv'
  <2>1. /\ UNCHANGED <<block, overlapped>>
        /\ request' = [request EXCEPT ![c] = Idle]
    BY <1>4 DEF StartAnnounced, BlockIsGone
  <2>2. \A p \in Productions : Activating(p)' \subseteq Activating(p)
    BY <2>1, NoNewActivating DEF TimelineTypeOK
  <2>3. \A p \in Productions : Active(p)' \subseteq Active(p)
    BY <2>1 DEF Active
  <2> QED  BY <2>1, <2>2, <2>3, NoNewActive
<1>5. CASE Restart
  <2>1. \A p \in Productions : Activating(p)' = {}
    BY <1>5 DEF Restart, Activating, At
  <2>2. \A p \in Productions : Active(p)' = Active(p)
    BY <1>5 DEF Restart, Active
  <2> QED  BY <1>5, <2>1, <2>2, NoNewActive DEF Restart
<1>6. CASE UNCHANGED rundownVars
  BY <1>1, <1>6 DEF rundownVars
<1>7. CASE (\E p \in Productions : ReorderBlocks(p)) \/ DebounceFires \/ Clock
  BY <1>1, <1>7 DEF ReorderBlocks, DebounceFires, Clock
<1> QED
  BY <1>2, <1>3, <1>4, <1>5, <1>6, <1>7, StepOfTimeline, CompletesActiveKeepsOne,
     ActivatesKeepsOne, WritesKeepsOne DEF TimelineNext, OtherTimelineNext

\* startBlock keeps one block of a production active, unless its statements and those of
\* another start ran between each other.
THEOREM OneBlockIsActive == Spec => []OneActiveBlock
<1>1. Init => ActiveInv
  BY DEF Init, TimelineInit, ActiveInv, OneActiveBlock, StartsAreAlone, Active, Activating, At
<1>2. TimelineTypeOK /\ ActiveInv /\ [Next]_vars => ActiveInv'
  BY StepKeepsOne DEF vars, timelineVars, ActiveInv, OneActiveBlock, StartsAreAlone, Active,
     Activating, At, RequestOf
<1>3. ActiveInv => OneActiveBlock
  BY DEF ActiveInv
<1> QED  BY <1>1, <1>2, <1>3, TimelineTyped, PTL DEF Spec

-----------------------------------------------------------------------------
(***************************************************************************)
(* Changes are announced                                                   *)
(***************************************************************************)
\* A start past its first statement, which is to announce production p.
Announcing(p) ==
  {c \in Clients : request[c] # Idle /\ request[c].step # "write" /\ RequestOf(c) = p}

\* What the debounce is given replaces what it had, which is swallowed.
LEMMA AnnouncedAfter ==
  ASSUME ChangesAreAnnounced, changed \subseteq Productions,
         NEW p \in Productions, Announces(p), changed' \subseteq changed \cup {p},
         \A q \in Productions \ {p} : Announcing(q) \subseteq Announcing(q)'
  PROVE  ChangesAreAnnounced'
  BY NoneIsNoProduction DEF ChangesAreAnnounced, Announces, Announcing

\* A step that gives the debounce nothing, of a request that is at its first statement or
\* leaves another behind.
LEMMA QuietAfter ==
  ASSUME ChangesAreAnnounced, changed \subseteq Productions, UNCHANGED pending,
         swallowed \subseteq swallowed',
         \A q \in changed' :
           \/ q \in changed /\ Announcing(q) \subseteq Announcing(q)'
           \/ q \in swallowed'
           \/ Announcing(q)' # {}
  PROVE  ChangesAreAnnounced'
  BY DEF ChangesAreAnnounced, Announcing

\* A request that takes the step to h, past its first statement, or from it.
LEMMA OthersAnnounce ==
  ASSUME NEW c \in Clients, NEW h, request' = [request EXCEPT ![c] = h],
         request \in [Clients -> Requesting \cup {Idle}], NEW p
  PROVE  Announcing(p) \ {c} \subseteq Announcing(p)'
  BY DEF Announcing, RequestOf

LEMMA StartKeepsAnnounced ==
  ASSUME TimelineTypeOK, ChangesAreAnnounced, NEW c \in Clients,
         CompletesActive(c) \/ Activates(c)
  PROVE  ChangesAreAnnounced'
<1> DEFINE step == IF CompletesActive(c) THEN "activate" ELSE "announce"
           new == [request[c] EXCEPT !.step = step]
<1>1. request[c] # Idle /\ request[c] \in Requesting /\ RequestOf(c) \in Productions
  BY AtIsAsked DEF CompletesActive, Activates
<1> PICK p \in Productions : p = RequestOf(c)
  BY <1>1
<1>2. step \in {"activate", "announce"}
  OBVIOUS
<1>3. request' = [request EXCEPT ![c] = new]
  BY DEF CompletesActive, Activates
<1> HIDE DEF step
<1>4. /\ new \in Requesting /\ new.step # "write" /\ new.block = request[c].block
  BY <1>1, <1>2 DEF Requesting
<1> HIDE DEF new
<1>5. /\ request'[c] = new
      /\ \A d \in Clients \ {c} : request'[d] = request[d]
  BY <1>3 DEF TimelineTypeOK
<1>6. c \in Announcing(p)'
  BY <1>4, <1>5, IdleIsNoRequest DEF Announcing, RequestOf
<1>7. \A q : Announcing(q) \subseteq Announcing(q)'
  <2> SUFFICES ASSUME NEW q, NEW d \in Announcing(q)  PROVE d \in Announcing(q)'
    OBVIOUS
  <2>1. CASE d = c
    BY <2>1, <1>6 DEF Announcing
  <2>2. CASE d # c
    BY <2>2, <1>5 DEF Announcing, RequestOf
  <2> QED  BY <2>1, <2>2
<1>8. changed' \subseteq changed \cup {p}
  BY DEF CompletesActive, Activates, Changes
<1>9. UNCHANGED <<pending, swallowed>>
  BY DEF CompletesActive, Activates, Quiet
<1> QED  BY <1>6, <1>7, <1>8, <1>9, QuietAfter DEF TimelineTypeOK

LEMMA EndKeepsAnnounced ==
  ASSUME TimelineTypeOK, ChangesAreAnnounced, NEW c \in Clients,
         StartAnnounced(c) \/ Writes(c)
  PROVE  ChangesAreAnnounced'
<1>1. request[c] # Idle /\ RequestOf(c) \in Productions
  BY AtIsAsked DEF StartAnnounced, Writes
<1> PICK p \in Productions : p = RequestOf(c)
  BY <1>1
<1>2. /\ Announces(p) /\ changed' \subseteq changed \cup {p}
      /\ request' = [request EXCEPT ![c] = Idle]
  BY DEF StartAnnounced, Writes, Changes
<1>3. \A q \in Productions \ {p} : c \notin Announcing(q)
  BY DEF Announcing
<1>4. \A q \in Productions \ {p} : Announcing(q) \subseteq Announcing(q)'
  BY <1>2, <1>3, OthersAnnounce DEF TimelineTypeOK
<1> QED  BY <1>1, <1>2, <1>4, AnnouncedAfter DEF TimelineTypeOK

LEMMA GoneKeepsAnnounced ==
  ASSUME TimelineTypeOK, ChangesAreAnnounced, NEW c \in Clients, BlockIsGone(c)
  PROVE  ChangesAreAnnounced'
<1>1. /\ request' = [request EXCEPT ![c] = Idle]
      /\ UNCHANGED <<changed, pending>> /\ swallowed \subseteq swallowed'
  BY DEF BlockIsGone, GoesUnannounced, Quiet
<1>2. \A q \in changed : c \notin Announcing(q) \/ q \in swallowed'
  BY DEF BlockIsGone, GoesUnannounced, Quiet, Announcing, At
<1>3. \A q \in changed : Announcing(q) \subseteq Announcing(q)' \/ q \in swallowed'
  BY <1>1, <1>2, OthersAnnounce DEF TimelineTypeOK
<1> QED  BY <1>1, <1>3, QuietAfter DEF TimelineTypeOK

LEMMA StepKeepsAnnounced == TimelineTypeOK /\ ChangesAreAnnounced /\ Next => ChangesAreAnnounced'
<1> SUFFICES ASSUME TimelineTypeOK, ChangesAreAnnounced, Next  PROVE ChangesAreAnnounced'
  OBVIOUS
<1>1. ASSUME UNCHANGED <<request, pending, changed, swallowed>>  PROVE ChangesAreAnnounced'
  BY <1>1 DEF ChangesAreAnnounced, RequestOf
<1>2. ASSUME NEW p \in Productions, Announces(p), Changes(p), UNCHANGED request
      PROVE  ChangesAreAnnounced'
  BY <1>2, AnnouncedAfter DEF Changes, TimelineTypeOK, Announcing, RequestOf
<1>3. ASSUME NEW b \in Blocks, NEW duration \in Durations, CreateBlock(b, duration)
      PROVE  ChangesAreAnnounced'
  <2>1. ProductionOf[b] \in Productions
    BY TimelineAssumption
  <2> QED  BY <1>2, <1>3, <2>1 DEF CreateBlock
<1>4. ASSUME NEW c \in Clients, NEW op \in Operations, NEW b \in Blocks, Finds(c, op, b)
      PROVE  ChangesAreAnnounced'
  <2>1. \A q : c \notin Announcing(q)
    BY <1>4 DEF Finds, Announcing
  <2>2. \A q : Announcing(q) \subseteq Announcing(q)'
    BY <1>4, <2>1, OthersAnnounce DEF Finds, TimelineTypeOK
  <2> QED  BY <1>4, <2>2, QuietAfter DEF Finds, TimelineTypeOK
<1>5. CASE DebounceFires
  BY <1>5 DEF DebounceFires, ChangesAreAnnounced, RequestOf
<1>6. CASE Restart
  BY <1>6 DEF Restart, ChangesAreAnnounced
<1>7. CASE UNCHANGED rundownVars \/ Clock
  BY <1>1, <1>7 DEF rundownVars, Clock
<1>8. CASE \E p \in Productions : ReorderBlocks(p)
  BY <1>2, <1>8 DEF ReorderBlocks
<1> QED
  BY <1>3, <1>4, <1>5, <1>6, <1>7, <1>8, StepOfTimeline, StartKeepsAnnounced,
     EndKeepsAnnounced, GoneKeepsAnnounced DEF TimelineNext, OtherTimelineNext

\* emitTimelineUpdated reaches the room, or its production was replaced in the debounce, a
\* start failed at its last statement, or the process was restarted.
THEOREM ChangesAreNotForgotten == Spec => []ChangesAreAnnounced
<1>1. Init => ChangesAreAnnounced
  BY DEF Init, TimelineInit, ChangesAreAnnounced
<1>2. TimelineTypeOK /\ ChangesAreAnnounced /\ [Next]_vars => ChangesAreAnnounced'
  BY StepKeepsAnnounced DEF vars, timelineVars, ChangesAreAnnounced, RequestOf
<1> QED  BY <1>1, <1>2, TimelineTyped, PTL DEF Spec
-----------------------------------------------------------------------------
(***************************************************************************)
(* The types of the engine                                                 *)
(*                                                                         *)
(* unlogged is within ran because a run that is to write its log has ended *)
(* its actions.                                                            *)
(***************************************************************************)
EngineTypeOK ==
  /\ rule \in [Rules -> RuleForms \cup {None}]
  /\ mapping \in [Keys -> Rules \cup {None}]
  /\ run \in [Runnable -> Running \cup {Idle}]
  /\ log \subseteq Logged
  /\ tick \in [Ticks -> Ticking \cup {Idle}]
  /\ heard \subseteq Blocks
  /\ ran \subseteq Due /\ unlogged \subseteq ran
  /\ overtaken \subseteq Ticks

LogsComeLast == \A r \in Runnable : Doing(r, "log") => ForBlock(r) \subseteq ran

EngineTyped == EngineTypeOK /\ LogsComeLast

LEMMA RunIsNoIdle == (\A x \in Running : x # Idle) /\ (\A x \in Ticking : x # Idle)
<1>1. \A x \in Running : x.step # "idle"
  BY DEF Running
<1>2. \A x \in Ticking : x.step # "idle"
  BY DEF Ticking
<1> QED  BY <1>1, <1>2 DEF Idle

LEMMA RunTyped ==
  ASSUME EngineTypeOK, NEW r \in Runnable, run[r] # Idle
  PROVE  run[r] \in Running /\ ForBlock(r) \subseteq Due
  BY DEF EngineTypeOK, Running, ForBlock

LEMMA TickTyped ==
  ASSUME EngineTypeOK, NEW t \in Ticks, tick[t] # Idle
  PROVE  /\ tick[t] \in Ticking
         /\ tick[t].step \in {"read", "scan", "resume"}
         /\ tick[t].step # "read" => tick[t].due \subseteq Due
         /\ tick[t].step = "resume" => tick[t].asked \in Due /\ tick[t].found \in BOOLEAN
  BY DEF EngineTypeOK, Ticking

\* executeActions leaves a run in progress alone.
LEMMA ExecutesEffect ==
  ASSUME EngineTypeOK, NEW ids, NEW cause \in Due \cup {None}, Executes(ids, cause)
  PROVE  /\ run' \in [Runnable -> Running \cup {Idle}]
         /\ \A r \in Runnable : run[r] # Idle => run'[r] = run[r]
         /\ \A r \in Runnable : run'[r] # run[r] =>
              /\ r \in ids /\ run[r] = Idle
              /\ run'[r] # Idle /\ run'[r].step = "act" /\ run'[r].cause = cause
         /\ \A r \in Runnable : r \in ids => run'[r] # Idle
<1> DEFINE new == [cause |-> cause, step |-> "act"]
<1>1. new \in Running /\ new.step = "act" /\ new.cause = cause
  BY DEF Running
<1>2. run' = [r \in Runnable |-> IF r \in ids /\ run[r] = Idle THEN new ELSE run[r]]
  BY DEF Executes
<1>3. new # Idle
  BY <1>1, RunIsNoIdle
<1> HIDE DEF new
<1> QED  BY <1>1, <1>2, <1>3 DEF EngineTypeOK

LEMMA ExecutesTyped ==
  ASSUME EngineTyped, NEW ids, NEW cause \in Due \cup {None}, Executes(ids, cause),
         UNCHANGED <<rule, mapping, log, ran, unlogged>>,
         heard' \subseteq heard, overtaken' \subseteq overtaken,
         tick' \in [Ticks -> Ticking \cup {Idle}]
  PROVE  EngineTyped'
<1>1. run' \in [Runnable -> Running \cup {Idle}]
  BY ExecutesEffect DEF EngineTyped
<1>2. \A r \in Runnable : Doing(r, "log")' => Doing(r, "log") /\ ForBlock(r)' = ForBlock(r)
  BY ExecutesEffect DEF EngineTyped, Doing, ForBlock
<1>3. LogsComeLast'
  BY <1>2 DEF EngineTyped, LogsComeLast
<1> QED  BY <1>1, <1>3 DEF EngineTyped, EngineTypeOK

\* The step of a run that proceeds, or ends.
LEMMA ProceedsEffect ==
  ASSUME EngineTypeOK, NEW r \in Runnable, run[r] # Idle,
         NEW step \in {"log", "audit", "error"}, Proceeds(r, step)
  PROVE  /\ run' \in [Runnable -> Running \cup {Idle}]
         /\ run'[r] # Idle /\ run'[r].step = step /\ run'[r].cause = run[r].cause
         /\ \A x \in Runnable \ {r} : run'[x] = run[x]
<1> DEFINE new == [run[r] EXCEPT !.step = step]
<1>1. new \in Running /\ new.step = step /\ new.cause = run[r].cause
  BY RunTyped DEF Running
<1>2. run' = [run EXCEPT ![r] = new]
  BY DEF Proceeds
<1>3. new # Idle
  BY <1>1, RunIsNoIdle
<1> HIDE DEF new
<1> QED  BY <1>1, <1>2, <1>3 DEF EngineTypeOK

LEMMA ProceedsTyped ==
  ASSUME EngineTyped, NEW r \in Runnable, run[r] # Idle,
         NEW step \in {"log", "audit", "error"}, Proceeds(r, step),
         ran \subseteq ran', step = "log" => ForBlock(r) \subseteq ran'
  PROVE  run' \in [Runnable -> Running \cup {Idle}] /\ LogsComeLast'
<1>1. /\ run' \in [Runnable -> Running \cup {Idle}]
      /\ run'[r].step = step /\ run'[r].cause = run[r].cause
      /\ \A x \in Runnable \ {r} : run'[x] = run[x]
  BY ProceedsEffect DEF EngineTyped
<1>2. ForBlock(r)' = ForBlock(r)
  BY <1>1 DEF ForBlock
<1>3. \A x \in Runnable \ {r} : Doing(x, "log")' => Doing(x, "log") /\ ForBlock(x)' = ForBlock(x)
  BY <1>1 DEF Doing, ForBlock
<1>4. Doing(r, "log")' => step = "log"
  BY <1>1 DEF Doing
<1> QED  BY <1>1, <1>2, <1>3, <1>4 DEF EngineTyped, LogsComeLast

LEMMA RunStepTyped ==
  ASSUME TimelineTypeOK, EngineTyped, NEW r \in Runnable,
         ActionsSucceed(r) \/ ActionsFail(r) \/ LogIsWritten(r) \/ LogFails(r) \/ RunEnds(r)
  PROVE  EngineTyped'
<1>1. run[r] # Idle /\ ForBlock(r) \subseteq Due
  BY RunTyped DEF EngineTyped, ActionsSucceed, ActionsFail, LogIsWritten, LogFails, RunEnds, Doing
<1>2. CASE ActionsSucceed(r)
  BY <1>1, <1>2, ProceedsTyped DEF ActionsSucceed, EngineTyped, EngineTypeOK
<1>3. CASE ActionsFail(r)
  BY <1>1, <1>3, ProceedsTyped DEF ActionsFail, EngineTyped, EngineTypeOK
<1>4. CASE LogIsWritten(r)
  <2>1. \A d \in ForBlock(r) :
          [due |-> d, during |-> IF block[d[2]] = None THEN d[3] ELSE block[d[2]].run] \in Logged
    BY <1>1 DEF Logged, Due, TimelineTypeOK, TimelineBlock
  <2>2. log' \subseteq Logged
    BY <1>4, <2>1 DEF LogIsWritten, EngineTyped, EngineTypeOK
  <2>3. run' \in [Runnable -> Running \cup {Idle}] /\ LogsComeLast'
    BY <1>1, <1>4, ProceedsTyped DEF LogIsWritten
  <2> QED  BY <1>4, <2>2, <2>3 DEF LogIsWritten, EngineTyped, EngineTypeOK
<1>5. CASE LogFails(r)
  <2>1. unlogged' \subseteq ran
    BY <1>5 DEF LogFails, EngineTyped, EngineTypeOK, LogsComeLast
  <2>2. run' \in [Runnable -> Running \cup {Idle}] /\ LogsComeLast'
    BY <1>1, <1>5, ProceedsTyped DEF LogFails
  <2> QED  BY <1>5, <2>1, <2>2 DEF LogFails, EngineTyped, EngineTypeOK
<1>6. CASE RunEnds(r)
  <2>1. run' = [run EXCEPT ![r] = Idle]
    BY <1>6 DEF RunEnds
  <2>2. LogsComeLast'
    BY <1>6, <2>1 DEF RunEnds, EngineTyped, EngineTypeOK, LogsComeLast, Doing, ForBlock
  <2> QED  BY <1>6, <2>1, <2>2 DEF RunEnds, EngineTyped, EngineTypeOK
<1> QED  BY <1>2, <1>3, <1>4, <1>5, <1>6

LEMMA RowsTyped == EngineTyped /\ Rows => EngineTyped'
  BY DEF Rows, DeleteRule, CreateRule, UpdateRule, SaveMapping, DeleteMapping, EngineTyped,
     EngineTypeOK, LogsComeLast, Doing, ForBlock

LEMMA TickStepTyped ==
  ASSUME TimelineTypeOK, EngineTyped, NEW t \in Ticks,
         \/ TickBegins(t) \/ TickReads(t) \/ TickResumes(t)
         \/ \E d \in tick[t].due : TickAsks(t, d)
  PROVE  EngineTyped'
<1> USE DEF EngineTyped
<1>1. ASSUME NEW new \in Ticking \cup {Idle}, tick' = [tick EXCEPT ![t] = new]
      PROVE  tick' \in [Ticks -> Ticking \cup {Idle}]
  BY <1>1 DEF EngineTypeOK
<1>2. ASSUME tick' \in [Ticks -> Ticking \cup {Idle}],
             UNCHANGED <<rule, mapping, run, log, heard, ran, unlogged>>,
             overtaken' \subseteq overtaken
      PROVE  EngineTyped'
  BY <1>2 DEF EngineTypeOK, LogsComeLast, Doing, ForBlock
<1>3. CASE TickBegins(t)
  <2>1. [step |-> "read", at |-> now] \in Ticking
    BY DEF Ticking, TimelineTypeOK
  <2> QED  BY <1>1, <1>2, <1>3, <2>1 DEF TickBegins
<1>4. CASE TickReads(t)
  <2> DEFINE due == {d \in Rules \X Blocks \X {block[b].run : b \in {x \in Blocks : block[x] # None}} :
                       IsDue(d[1], d[2], tick[t].at) /\ d[3] = block[d[2]].run}
             new == IF due = {} THEN Idle ELSE [step |-> "scan", due |-> due]
  <2>1. \A b \in Blocks : block[b] # None => block[b].run \in Nat
    BY DEF TimelineTypeOK, TimelineBlock
  <2>2. due \subseteq Due
    BY <2>1 DEF Due
  <2>3. tick' = [tick EXCEPT ![t] = new]
    BY <1>4 DEF TickReads
  <2> HIDE DEF due
  <2>4. new \in Ticking \cup {Idle}
    BY <2>2 DEF Ticking
  <2> QED  BY <1>1, <1>2, <1>4, <2>3, <2>4 DEF TickReads
<1>5. CASE TickResumes(t)
  <2> DEFINE left == tick[t].due \ {tick[t].asked}
             new == IF left = {} THEN Idle ELSE [step |-> "scan", due |-> left]
  <2>1. tick[t].asked \in Due /\ left \subseteq Due
    BY <1>5, TickTyped DEF TickResumes
  <2>2. tick' = [tick EXCEPT ![t] = new]
    BY <1>5 DEF TickResumes
  <2> HIDE DEF left
  <2>3. new \in Ticking \cup {Idle}
    BY <2>1 DEF Ticking
  <2>4. tick' \in [Ticks -> Ticking \cup {Idle}]
    BY <1>1, <2>2, <2>3
  <2>5. CASE tick[t].found
    BY <1>2, <1>5, <2>4, <2>5 DEF TickResumes
  <2>6. CASE ~tick[t].found
    BY <1>5, <2>1, <2>4, <2>6, ExecutesTyped DEF TickResumes
  <2> QED  BY <2>5, <2>6
<1>6. CASE \E d \in tick[t].due : TickAsks(t, d)
  <2>1. PICK d \in tick[t].due : TickAsks(t, d)
    BY <1>6
  <2> DEFINE found == AlreadyLogged(d)
             new == [step |-> "resume", due |-> tick[t].due, asked |-> d, found |-> found]
  <2>2. tick[t].due \subseteq Due
    BY <2>1, TickTyped DEF TickAsks
  <2>3. found \in BOOLEAN
    BY DEF AlreadyLogged
  <2>4. tick' = [tick EXCEPT ![t] = new]
    BY <2>1 DEF TickAsks
  <2> HIDE DEF found
  <2>5. new \in Ticking
    BY <2>2, <2>3 DEF Ticking
  <2> HIDE DEF new
  <2> QED  BY <1>1, <1>2, <2>1, <2>4, <2>5 DEF TickAsks
<1> QED  BY <1>3, <1>4, <1>5, <1>6

LEMMA EngineStepTyped ==
  ASSUME TimelineTypeOK, EngineTyped, Next
  PROVE  EngineTyped'
<1> USE DEF EngineTyped
<1>1. CASE TimelineSteps
  <2>1. CASE UNCHANGED engineVars
    BY <2>1 DEF engineVars, EngineTypeOK, LogsComeLast, Doing, ForBlock
  <2>2. ASSUME NEW c \in Clients, Activates(c), heard' = heard \cup {request[c].block},
               UNCHANGED <<rule, mapping, run, log, tick, ran, unlogged, overtaken>>
        PROVE  EngineTyped'
    <3>1. request[c].block \in Blocks
      BY <2>2, AtIsAsked DEF Activates
    <3> QED  BY <2>2, <3>1 DEF EngineTypeOK, LogsComeLast, Doing, ForBlock
  <2> QED  BY <1>1, <2>1, <2>2 DEF TimelineSteps
<1>2. CASE EngineRestarts
  <2>1. unlogged' \subseteq ran
    BY <1>2 DEF EngineRestarts, EngineTypeOK, LogsComeLast
  <2>2. /\ run' \in [Runnable -> Running \cup {Idle}]
        /\ tick' \in [Ticks -> Ticking \cup {Idle}]
        /\ LogsComeLast'
    BY <1>2 DEF EngineRestarts, LogsComeLast, Doing
  <2> QED  BY <1>2, <2>1, <2>2 DEF EngineRestarts, EngineTypeOK
<1>3. CASE \E r \in Runnable : Triggered(r)
  BY <1>3, ExecutesTyped DEF Triggered, EngineTypeOK
<1>4. CASE \E k \in Keys : HardwareTrigger(k)
  BY <1>4, ExecutesTyped DEF HardwareTrigger, EngineTypeOK
<1>5. CASE \E b \in Blocks : HandleEvent(b)
  BY <1>5, ExecutesTyped DEF HandleEvent, EngineTypeOK
<1> QED
  BY <1>1, <1>2, <1>3, <1>4, <1>5, RowsTyped, TickStepTyped, RunStepTyped DEF Next

Typed == TimelineTypeOK /\ EngineTyped

LEMMA AllTyped == Spec => []Typed
<1>1. Init => Typed
  BY InitTyped DEF Init, Typed, EngineTyped, EngineTypeOK, LogsComeLast, Doing
<1>2. Typed /\ [Next]_vars => Typed'
  <2> SUFFICES ASSUME Typed, [Next]_vars  PROVE Typed'
    OBVIOUS
  <2>1. CASE Next
    BY <2>1, StepTyped, EngineStepTyped DEF Typed
  <2>2. CASE UNCHANGED vars
    BY <2>2 DEF vars, timelineVars, engineVars, Typed, TimelineTypeOK, EngineTyped,
       EngineTypeOK, LogsComeLast, Doing, ForBlock, Active, RequestOf
  <2> QED  BY <2>1, <2>2
<1> QED  BY <1>1, <1>2, PTL DEF Spec

\* Type correctness of the rundowns and of the engine.
THEOREM TypeCorrectness == Spec => []TypeOK
<1>1. Typed => TypeOK
  BY DEF Typed, EngineTyped, EngineTypeOK, TypeOK
<1> QED  BY <1>1, AllTyped, PTL
-----------------------------------------------------------------------------
(***************************************************************************)
(* Time triggers run once                                                  *)
(*                                                                         *)
(* A log speaks for a run of a block when it is no older than its start.   *)
(* That the log of a success speaks for what succeeded needs the runs of a *)
(* block to be numbered upwards, also when the block is deleted and its id *)
(* given again: the number of a run, and of the starts still to come, is   *)
(* within the number of requests.                                          *)
(***************************************************************************)
\* The starts of block b that have yet to activate it.
StartsOf(b) ==
  {c \in Clients : /\ request[c] # Idle /\ request[c].op = "start" /\ request[c].block = b
                   /\ request[c].step # "announce"}

RunsAreRequested ==
  \A b \in Blocks : block[b] # None => block[b].run + Cardinality(StartsOf(b)) <= requests

\* What is due is about a run that has begun.
HasBegun(d) == d[3] <= requests /\ (block[d[2]] # None => d[3] <= block[d[2]].run)

\* What DueTriggersRun asks of a pair that a tick leaves out.
Spoken(d) ==
  \/ d \in ran
  \/ rule[d[1]] = None
  \/ \E entry \in log : /\ entry.due[1] = d[1] /\ entry.due[2] = d[2] /\ entry.due[3] # d[3]
                        /\ entry.during >= d[3]

Resuming(t) == tick[t] # Idle /\ tick[t].step = "resume"

TicksAreRight ==
  \A t \in Ticks :
    /\ \A d \in Waiting(t) : HasBegun(d)
    /\ Resuming(t) => /\ tick[t].asked \in tick[t].due
                      /\ tick[t].found => Spoken(tick[t].asked)

\* A run for a block is of the rule that is due.
CausesAreOwn ==
  \A r \in Runnable : run[r] # Idle => \A d \in ForBlock(r) : d[1] = r /\ HasBegun(d)

LogsAreOfRuns == \A entry \in log : entry.due \in ran

\* What has succeeded is logged, or will be, unless the log was lost or deleted.
Known(d) ==
  \/ d \in unlogged
  \/ AlreadyLogged(d)
  \/ rule[d[1]] = None
  \/ Doing(d[1], "log") /\ d \in ForBlock(d[1])

RanIsKnown == \A d \in ran : Known(d)

RunsAreRight == CausesAreOwn /\ LogsAreOfRuns /\ RanIsKnown

TriggersInv == Typed /\ RunsAreRequested /\ TicksAreRight /\ RunsAreRight

LEMMA StartsAreFinite ==
  ASSUME NEW S \in SUBSET Clients
  PROVE  IsFiniteSet(S) /\ Cardinality(S) \in Nat
  BY ClientsAreFinite, FS_Subset, FS_CardinalityType

LEMMA DueTyped ==
  ASSUME NEW d \in Due
  PROVE  d[1] \in Rules /\ d[1] \in Runnable /\ d[2] \in Blocks /\ d[3] \in Nat
  BY DEF Due, Runnable

\* A step that begins no run of a block and brings no start.
LEMMA NoRunBegins ==
  ASSUME TimelineTypeOK, TimelineTypeOK', RunsAreRequested, requests <= requests',
         \A b \in Blocks : block'[b] # None =>
           /\ block[b] # None /\ block'[b].run = block[b].run
           /\ StartsOf(b)' \subseteq StartsOf(b)
  PROVE  RunsAreRequested' /\ \A d \in Due : HasBegun(d) => HasBegun(d)'
<1>1. requests \in Nat /\ requests' \in Nat
  BY TimelineAssumption DEF TimelineTypeOK
<1>2. ASSUME NEW b \in Blocks, block'[b] # None
      PROVE  block'[b].run + Cardinality(StartsOf(b)') <= requests'
  <2>1. /\ Cardinality(StartsOf(b)) \in Nat /\ Cardinality(StartsOf(b)') \in Nat
        /\ Cardinality(StartsOf(b)') <= Cardinality(StartsOf(b))
    <3>1. StartsOf(b) \in SUBSET Clients /\ StartsOf(b)' \in SUBSET StartsOf(b)
      BY <1>2 DEF StartsOf
    <3>2. StartsOf(b)' \in SUBSET Clients
      BY <3>1
    <3> QED  BY <3>1, <3>2, StartsAreFinite, FS_Subset
  <2>2. block[b].run \in Nat /\ block'[b].run = block[b].run
    BY <1>2 DEF TimelineTypeOK, TimelineBlock
  <2>3. block[b].run + Cardinality(StartsOf(b)) <= requests
    BY <1>2 DEF RunsAreRequested
  <2> QED  BY <1>1, <2>1, <2>2, <2>3
<1>3. ASSUME NEW d \in Due, HasBegun(d)
      PROVE  HasBegun(d)'
  BY <1>1, <1>3, DueTyped DEF HasBegun
<1> QED  BY <1>2, <1>3 DEF RunsAreRequested

LEMMA CreateBlockBegins ==
  ASSUME TimelineTypeOK, RunsAreRequested, NEW b \in Blocks, NEW duration, CreateBlock(b, duration)
  PROVE  RunsAreRequested' /\ \A d \in Due : HasBegun(d) => HasBegun(d)'
<1>1. requests \in Nat /\ requests' = requests + 1
  BY TimelineAssumption DEF TimelineTypeOK, CreateBlock
<1>2. /\ block'[b] # None => block'[b].run = requests'
      /\ \A x \in Blocks \ {b} : block'[x] = block[x]
      /\ StartsOf(b)' = {}
      /\ \A x \in Blocks : StartsOf(x)' = StartsOf(x)
  BY DEF CreateBlock, TimelineTypeOK, StartsOf
<1>3. \A x \in Blocks : Cardinality(StartsOf(x)) \in Nat
  BY StartsAreFinite DEF StartsOf
<1>4. ASSUME NEW x \in Blocks, block'[x] # None
      PROVE  block'[x].run + Cardinality(StartsOf(x)') <= requests'
  <2>1. CASE x = b
    BY <1>1, <1>2, <1>4, <2>1, FS_EmptySet
  <2>2. CASE x # b
    <3>1. block[x].run \in Nat /\ block[x].run + Cardinality(StartsOf(x)) <= requests
      BY <1>2, <1>4, <2>2 DEF TimelineTypeOK, TimelineBlock, RunsAreRequested
    <3> QED  BY <1>1, <1>2, <1>3, <2>2, <3>1
  <2> QED  BY <2>1, <2>2
<1>5. ASSUME NEW d \in Due, HasBegun(d)
      PROVE  HasBegun(d)'
  BY <1>1, <1>2, <1>5, DueTyped DEF HasBegun
<1> QED  BY <1>4, <1>5 DEF RunsAreRequested

LEMMA FindsBegins ==
  ASSUME TimelineTypeOK, RunsAreRequested, NEW c \in Clients, NEW op, NEW b, Finds(c, op, b)
  PROVE  RunsAreRequested' /\ \A d \in Due : HasBegun(d) => HasBegun(d)'
<1>1. requests \in Nat /\ requests' = requests + 1 /\ block' = block
  BY TimelineAssumption DEF TimelineTypeOK, Finds
<1>2. \A x \in Blocks : StartsOf(x)' \subseteq StartsOf(x) \cup {c}
  BY DEF Finds, TimelineTypeOK, StartsOf
<1>3. ASSUME NEW x \in Blocks, block[x] # None
      PROVE  block[x].run + Cardinality(StartsOf(x)') <= requests'
  <2>1. /\ Cardinality(StartsOf(x)) \in Nat /\ Cardinality(StartsOf(x)') \in Nat
        /\ Cardinality(StartsOf(x)') <= Cardinality(StartsOf(x)) + 1
    <3>1. StartsOf(x) \in SUBSET Clients /\ StartsOf(x)' \in SUBSET Clients
      BY <1>2 DEF StartsOf
    <3>2. IsFiniteSet(StartsOf(x)) /\ Cardinality(StartsOf(x)) \in Nat
      BY <3>1, StartsAreFinite
    <3>3. /\ IsFiniteSet(StartsOf(x) \cup {c})
          /\ Cardinality(StartsOf(x) \cup {c}) =
               IF c \in StartsOf(x) THEN Cardinality(StartsOf(x)) ELSE Cardinality(StartsOf(x)) + 1
      BY <3>2, FS_AddElement
    <3>4. Cardinality(StartsOf(x) \cup {c}) \in Nat
      BY <3>3, FS_CardinalityType
    <3>5. Cardinality(StartsOf(x)') <= Cardinality(StartsOf(x) \cup {c})
      BY <1>2, <3>3, FS_Subset
    <3>6. Cardinality(StartsOf(x)') \in Nat
      BY <3>1, StartsAreFinite
    <3> QED  BY <3>2, <3>3, <3>4, <3>5, <3>6
  <2>2. block[x].run \in Nat /\ block[x].run + Cardinality(StartsOf(x)) <= requests
    BY <1>3 DEF TimelineTypeOK, TimelineBlock, RunsAreRequested
  <2> QED  BY <1>1, <2>1, <2>2
<1>4. ASSUME NEW d \in Due, HasBegun(d)
      PROVE  HasBegun(d)'
  BY <1>1, <1>4, DueTyped DEF HasBegun
<1> QED  BY <1>1, <1>3, <1>4 DEF RunsAreRequested

LEMMA ActivatesBegins ==
  ASSUME TimelineTypeOK, RunsAreRequested, NEW c \in Clients, Activates(c)
  PROVE  RunsAreRequested' /\ \A d \in Due : HasBegun(d) => HasBegun(d)'
<1>1. PICK b \in Blocks : b = request[c].block
  BY AtIsAsked DEF Activates
<1>2. requests \in Nat /\ requests' = requests
  BY TimelineAssumption DEF TimelineTypeOK, Activates
<1>3. /\ block[b] # None /\ block[b].run \in Nat
      /\ block'[b].run = block[b].run + 1
      /\ \A x \in Blocks \ {b} : block'[x] = block[x]
  <2>1. block[b] \in TimelineBlock
    BY <1>1 DEF Activates, TimelineTypeOK
  <2>2. block' = [block EXCEPT ![b].status = "ACTIVE", ![b].startTime = now, ![b].run = @ + 1]
    BY <1>1 DEF Activates
  <2> QED  BY <1>1, <2>1, <2>2 DEF Activates, TimelineTypeOK, TimelineBlock
<1>4. c \in StartsOf(b)
  <2>1. request[c] # Idle /\ request[c].step = "activate" /\ request[c].op = "start"
    BY DEF Activates, At, TimelineTypeOK
  <2> QED  BY <1>1, <2>1 DEF StartsOf
<1>5. \A x \in Blocks : StartsOf(x)' \subseteq StartsOf(x) \ {c}
  <2>1. /\ request'[c] # Idle => request'[c].step = "announce"
        /\ \A x \in Clients \ {c} : request'[x] = request[x]
    <3>1. request[c] \in Requesting /\ request' = [request EXCEPT ![c].step = "announce"]
      BY AtIsAsked DEF Activates
    <3> QED  BY <3>1 DEF Requesting, TimelineTypeOK
  <2> QED  BY <2>1 DEF StartsOf
<1>6. ASSUME NEW x \in Blocks, block'[x] # None
      PROVE  block'[x].run + Cardinality(StartsOf(x)') <= requests'
  <2>1. /\ Cardinality(StartsOf(x)) \in Nat /\ Cardinality(StartsOf(x)') \in Nat
        /\ Cardinality(StartsOf(x)') <= Cardinality(StartsOf(x))
        /\ x = b => Cardinality(StartsOf(x)') + 1 <= Cardinality(StartsOf(x))
    <3>1. StartsOf(x) \in SUBSET Clients /\ StartsOf(x)' \in SUBSET Clients
      BY <1>5 DEF StartsOf
    <3>2. /\ IsFiniteSet(StartsOf(x)) /\ Cardinality(StartsOf(x)) \in Nat
          /\ Cardinality(StartsOf(x)') \in Nat
      BY <3>1, StartsAreFinite
    <3>3. /\ IsFiniteSet(StartsOf(x) \ {c})
          /\ Cardinality(StartsOf(x) \ {c}) =
               IF c \in StartsOf(x) THEN Cardinality(StartsOf(x)) - 1 ELSE Cardinality(StartsOf(x))
      BY <3>2, FS_RemoveElement
    <3>4. Cardinality(StartsOf(x)') <= Cardinality(StartsOf(x) \ {c})
      BY <1>5, <3>3, FS_Subset
    <3>5. x = b => c \in StartsOf(x)
      BY <1>4
    <3> HIDE DEF StartsOf
    <3> QED  BY <3>2, <3>3, <3>4, <3>5
  <2>2. CASE x = b
    <3>1. block[b].run + Cardinality(StartsOf(b)) <= requests
      BY <1>3 DEF RunsAreRequested
    <3> QED  BY <1>2, <1>3, <2>1, <2>2, <3>1
  <2>3. CASE x # b
    <3>1. block[x].run \in Nat /\ block[x].run + Cardinality(StartsOf(x)) <= requests
      BY <1>3, <1>6, <2>3 DEF TimelineTypeOK, TimelineBlock, RunsAreRequested
    <3> QED  BY <1>2, <1>3, <2>1, <2>3, <3>1
  <2> QED  BY <2>2, <2>3
<1>7. ASSUME NEW d \in Due, HasBegun(d)
      PROVE  HasBegun(d)'
  <2>1. d[3] \in Nat /\ d[2] \in Blocks
    BY DueTyped
  <2>2. CASE d[2] = b
    BY <1>2, <1>3, <1>7, <2>1, <2>2 DEF HasBegun
  <2>3. CASE d[2] # b
    BY <1>2, <1>3, <1>7, <2>1, <2>3 DEF HasBegun
  <2> QED  BY <2>2, <2>3
<1> QED  BY <1>6, <1>7 DEF RunsAreRequested

\* Runs of a block are numbered upwards, whatever happens.
LEMMA RunsGoUp ==
  ASSUME TimelineTypeOK, TimelineTypeOK', RunsAreRequested, Next
  PROVE  RunsAreRequested' /\ \A d \in Due : HasBegun(d) => HasBegun(d)'
<1> DEFINE Up == RunsAreRequested' /\ \A d \in Due : HasBegun(d) => HasBegun(d)'
<1>1. requests \in Nat
  BY TimelineAssumption DEF TimelineTypeOK
<1>2. ASSUME NEW c \in Clients, CompletesActive(c)
      PROVE  Up
  <2>1. \A b \in Blocks : block'[b] # None => block[b] # None /\ block'[b].run = block[b].run
    BY <1>2 DEF CompletesActive, Active, TimelineTypeOK, TimelineBlock
  <2>2. /\ request'[c] # Idle => request[c] # Idle /\ request'[c].op = request[c].op
             /\ request'[c].block = request[c].block /\ request[c].step # "announce"
        /\ \A x \in Clients \ {c} : request'[x] = request[x]
    BY <1>2, AtIsAsked DEF CompletesActive, Requesting, TimelineTypeOK
  <2>3. \A b \in Blocks : StartsOf(b)' \subseteq StartsOf(b)
    BY <2>2 DEF StartsOf
  <2> QED  BY <1>1, <1>2, <2>1, <2>3, NoRunBegins DEF CompletesActive
<1>3. ASSUME NEW c \in Clients, StartAnnounced(c) \/ BlockIsGone(c)
      PROVE  Up
  <2>1. \A b \in Blocks : StartsOf(b)' \subseteq StartsOf(b)
    BY <1>3 DEF StartAnnounced, BlockIsGone, StartsOf, TimelineTypeOK
  <2> QED  BY <1>1, <1>3, <2>1, NoRunBegins DEF StartAnnounced, BlockIsGone
<1>4. ASSUME NEW c \in Clients, Writes(c)
      PROVE  Up
  <2>1. \A b \in Blocks : StartsOf(b)' \subseteq StartsOf(b)
    BY <1>4 DEF Writes, StartsOf, TimelineTypeOK
  <2>2. PICK b \in Blocks : b = request[c].block
    BY <1>4, AtIsAsked DEF Writes
  <2>3. block[b] \in TimelineBlock /\ request[c].op \in Operations \ {"start"}
    BY <1>4, <2>2, AtIsAsked DEF Writes, TimelineTypeOK, Requesting
  <2>4. PICK duration \in Durations :
          block' = [block EXCEPT ![b] = Written(request[c].op, block[b], duration)]
    BY <1>4, <2>2 DEF Writes
  <2>5. \A x \in Blocks : block'[x] # None => block[x] # None /\ block'[x].run = block[x].run
    <3>1. \A x \in Blocks \ {b} : block'[x] = block[x]
      BY <2>4 DEF TimelineTypeOK
    <3>2. block'[b] = Written(request[c].op, block[b], duration)
      BY <2>4 DEF TimelineTypeOK
    <3>3. block'[b] # None => block'[b].run = block[b].run
      BY <2>3, <3>2 DEF Written, TimelineBlock, Operations
    <3> QED  BY <2>3, <3>1, <3>3, NoneIsNoBlock
  <2> QED  BY <1>1, <1>4, <2>1, <2>5, NoRunBegins DEF Writes
<1>5. CASE DebounceFires \/ Clock \/ (\E p \in Productions : ReorderBlocks(p))
  BY <1>1, <1>5, NoRunBegins DEF DebounceFires, Clock, ReorderBlocks, StartsOf
<1>6. CASE Restart
  <2>1. \A b \in Blocks : StartsOf(b)' \subseteq StartsOf(b)
    BY <1>6 DEF Restart, StartsOf
  <2> QED  BY <1>1, <1>6, <2>1, NoRunBegins DEF Restart
<1>7. CASE \/ UNCHANGED rundownVars /\ requests' = requests
           \/ UNCHANGED rundownVars /\ requests < MaxRequests /\ requests' = requests + 1
  BY <1>1, <1>7, NoRunBegins DEF rundownVars, StartsOf
<1> QED
  BY <1>2, <1>3, <1>4, <1>5, <1>6, <1>7, StepOfTimeline, CreateBlockBegins, FindsBegins,
     ActivatesBegins DEF TimelineNext, OtherTimelineNext

-----------------------------------------------------------------------------
\* A tick waits for what is due.
LEMMA WaitingIsDue ==
  ASSUME EngineTypeOK, NEW t \in Ticks
  PROVE  Waiting(t) \subseteq Due
  BY TickTyped DEF Waiting

\* A step that leaves the ticks alone, and what their pairs are about.
LEMMA TicksStay ==
  ASSUME EngineTypeOK, TicksAreRight, tick' = tick,
         \A d \in Due : HasBegun(d) => HasBegun(d)',
         \A t \in Ticks : \A d \in Waiting(t) : Spoken(d) => Spoken(d)'
  PROVE  TicksAreRight'
<1> SUFFICES ASSUME NEW t \in Ticks
             PROVE  /\ \A d \in Waiting(t) : HasBegun(d)'
                    /\ Resuming(t) => /\ tick[t].asked \in tick[t].due
                                      /\ tick[t].found => Spoken(tick[t].asked)'
  BY DEF TicksAreRight, Waiting, Resuming
<1>1. \A d \in Waiting(t) : HasBegun(d)'
  BY WaitingIsDue DEF TicksAreRight
<1>2. Resuming(t) => tick[t].asked \in Waiting(t)
  BY DEF TicksAreRight, Waiting, Resuming
<1> QED  BY <1>1, <1>2 DEF TicksAreRight

\* A step that leaves the runs alone, and what is known of them.
LEMMA RunsStay ==
  ASSUME EngineTypeOK, RunsAreRight, UNCHANGED <<run, log, ran>>,
         \A d \in Due : HasBegun(d) => HasBegun(d)',
         unlogged \subseteq unlogged',
         \A d \in ran : rule[d[1]] = None => rule'[d[1]] = None
  PROVE  RunsAreRight'
<1>1. CausesAreOwn'
  <2>1. \A r \in Runnable : run[r] # Idle => ForBlock(r) \subseteq Due
    BY RunTyped
  <2>2. \A r \in Runnable : ForBlock(r)' = ForBlock(r)
    BY DEF ForBlock
  <2> QED  BY <2>1, <2>2 DEF RunsAreRight, CausesAreOwn
<1>2. LogsAreOfRuns'
  BY DEF RunsAreRight, LogsAreOfRuns
<1>3. RanIsKnown'
  BY DEF RunsAreRight, RanIsKnown, Known, AlreadyLogged, Doing, ForBlock
<1> QED  BY <1>1, <1>2, <1>3 DEF RunsAreRight

\* A step that starts runs, of the rule that is due if they have a cause.
LEMMA RunsStart ==
  ASSUME EngineTypeOK, RunsAreRight, NEW ids, NEW cause \in Due \cup {None},
         Executes(ids, cause), UNCHANGED <<rule, log, ran, unlogged>>,
         \A d \in Due : HasBegun(d) => HasBegun(d)',
         cause # None => ids = {cause[1]} /\ HasBegun(cause)
  PROVE  RunsAreRight'
<1>1. /\ \A r \in Runnable : run[r] # Idle => run'[r] = run[r]
      /\ \A r \in Runnable : run'[r] # run[r] =>
           /\ r \in ids /\ run'[r] # Idle /\ run'[r].cause = cause
  BY ExecutesEffect
<1>2. CausesAreOwn'
  <2> SUFFICES ASSUME NEW r \in Runnable, run'[r] # Idle, NEW d \in ForBlock(r)'
               PROVE  d[1] = r /\ HasBegun(d)'
    BY DEF CausesAreOwn
  <2>1. CASE run'[r] = run[r]
    <3>1. run[r] # Idle /\ d \in ForBlock(r)
      BY <2>1 DEF ForBlock
    <3> QED  BY <3>1, RunTyped DEF RunsAreRight, CausesAreOwn
  <2>2. CASE run'[r] # run[r]
    <3>1. run'[r].cause = cause /\ r \in ids
      BY <1>1, <2>2
    <3>2. cause # None /\ d = cause
      BY <3>1 DEF ForBlock
    <3> QED  BY <3>1, <3>2
  <2> QED  BY <2>1, <2>2
<1>3. LogsAreOfRuns'
  BY DEF RunsAreRight, LogsAreOfRuns
<1>4. \A d \in Due : Doing(d[1], "log") => Doing(d[1], "log")' /\ ForBlock(d[1])' = ForBlock(d[1])
  BY <1>1, DueTyped DEF Doing, ForBlock
<1>5. RanIsKnown'
  <2>1. ran \subseteq Due
    BY DEF EngineTypeOK
  <2> QED  BY <1>4, <2>1 DEF RunsAreRight, RanIsKnown, Known, AlreadyLogged
<1> QED  BY <1>2, <1>3, <1>5 DEF RunsAreRight

\* A step of a run to another step, or to its end.
LEMMA CausesStay ==
  ASSUME EngineTypeOK, CausesAreOwn, NEW r \in Runnable,
         \A d \in Due : HasBegun(d) => HasBegun(d)',
         run'[r] # Idle => run[r] # Idle /\ run'[r].cause = run[r].cause,
         \A x \in Runnable \ {r} : run'[x] = run[x]
  PROVE  CausesAreOwn'
<1> SUFFICES ASSUME NEW x \in Runnable, run'[x] # Idle, NEW d \in ForBlock(x)'
             PROVE  d[1] = x /\ HasBegun(d)'
  BY DEF CausesAreOwn
<1>1. run[x] # Idle /\ d \in ForBlock(x)
  BY DEF ForBlock
<1> QED  BY <1>1, RunTyped DEF CausesAreOwn

LEMMA RunStepIsRight ==
  ASSUME TimelineTypeOK, EngineTyped, TicksAreRight, RunsAreRight, NEW r \in Runnable,
         \A d \in Due : HasBegun(d) => HasBegun(d)',
         ActionsSucceed(r) \/ ActionsFail(r) \/ LogIsWritten(r) \/ LogFails(r) \/ RunEnds(r)
  PROVE  TicksAreRight' /\ RunsAreRight'
<1> USE DEF EngineTyped
<1>1. run[r] # Idle /\ ForBlock(r) \subseteq Due /\ \A d \in ForBlock(r) : d[1] = r /\ HasBegun(d)
  BY RunTyped DEF ActionsSucceed, ActionsFail, LogIsWritten, LogFails, RunEnds, Doing,
     RunsAreRight, CausesAreOwn
<1>2. /\ UNCHANGED <<rule, tick>> /\ ran \subseteq ran' /\ log \subseteq log'
      /\ unlogged \subseteq unlogged'
  BY DEF ActionsSucceed, ActionsFail, LogIsWritten, LogFails, RunEnds
<1>3. TicksAreRight'
  <2>1. \A d \in Due : Spoken(d) => Spoken(d)'
    BY <1>2 DEF Spoken
  <2> QED  BY <1>2, <2>1, TicksStay, WaitingIsDue
<1>4. /\ run'[r] # Idle => run'[r].cause = run[r].cause
      /\ \A x \in Runnable \ {r} : run'[x] = run[x]
  <2>1. CASE RunEnds(r)
    BY <2>1 DEF RunEnds, EngineTypeOK
  <2>2. CASE ~RunEnds(r)
    BY <1>1, <2>2, ProceedsEffect DEF ActionsSucceed, ActionsFail, LogIsWritten, LogFails
  <2> QED  BY <2>1, <2>2
<1>5. CausesAreOwn'
  BY <1>1, <1>4, CausesStay DEF RunsAreRight
<1>6. \A d \in ran : d[1] # r => (Known(d) => Known(d)')
  <2>1. \A d \in ran : d \in Due /\ d[1] \in Runnable
    BY DueTyped DEF EngineTypeOK
  <2> QED  BY <1>2, <1>4, <2>1 DEF Known, AlreadyLogged, Doing, ForBlock
<1>7. CASE ActionsSucceed(r)
  <2>1. run'[r] # Idle /\ run'[r].step = "log" /\ ForBlock(r)' = ForBlock(r)
    BY <1>1, <1>7, ProceedsEffect DEF ActionsSucceed, ForBlock
  <2>2. \A d \in ForBlock(r) : Known(d)'
    BY <1>1, <2>1 DEF Known, Doing
  <2>3. \A d \in ran : d[1] = r => Known(d)'
    BY <1>2, <1>7 DEF ActionsSucceed, RunsAreRight, RanIsKnown, Known, AlreadyLogged, Doing
  <2> QED
    BY <1>3, <1>5, <1>6, <1>7, <2>2, <2>3
       DEF ActionsSucceed, RunsAreRight, LogsAreOfRuns, RanIsKnown
<1>8. CASE ActionsFail(r) \/ RunEnds(r)
  <2>1. ~Doing(r, "log")
    BY <1>8 DEF ActionsFail, RunEnds, Doing
  <2>2. \A d \in ran : d[1] = r => Known(d)'
    BY <1>2, <2>1 DEF RunsAreRight, RanIsKnown, Known, AlreadyLogged
  <2> QED
    BY <1>3, <1>5, <1>6, <1>8, <2>2
       DEF ActionsFail, RunEnds, RunsAreRight, LogsAreOfRuns, RanIsKnown
<1>9. CASE LogIsWritten(r)
  <2>1. \A d \in ForBlock(r) : AlreadyLogged(d)'
    <3> SUFFICES ASSUME NEW d \in ForBlock(r)  PROVE AlreadyLogged(d)'
      OBVIOUS
    <3> DEFINE entry == [due |-> d, during |-> IF block[d[2]] = None THEN d[3] ELSE block[d[2]].run]
    <3>1. entry.due = d /\ entry.during >= d[3]
      <4>1. block[d[2]] # None => block[d[2]].run \in Nat /\ d[3] <= block[d[2]].run
        BY <1>1, DueTyped DEF HasBegun, TimelineTypeOK, TimelineBlock
      <4>2. d[3] \in Nat
        BY <1>1, DueTyped
      <4> QED  BY <4>1, <4>2
    <3>2. entry \in log'
      BY <1>9 DEF LogIsWritten
    <3> HIDE DEF entry
    <3> QED  BY <3>1, <3>2 DEF AlreadyLogged, SpeaksFor
  <2>2. \A d \in ran : d[1] = r => Known(d)'
    BY <1>2, <2>1 DEF RunsAreRight, RanIsKnown, Known, AlreadyLogged
  <2>3. \A entry \in log' : entry.due \in ran
    BY <1>9 DEF LogIsWritten, RunsAreRight, LogsAreOfRuns, LogsComeLast
  <2> QED
    BY <1>3, <1>5, <1>6, <1>9, <2>2, <2>3
       DEF LogIsWritten, RunsAreRight, LogsAreOfRuns, RanIsKnown
<1>10. CASE LogFails(r)
  <2>1. \A d \in ran : d[1] = r => Known(d)'
    BY <1>2, <1>10 DEF LogFails, RunsAreRight, RanIsKnown, Known, AlreadyLogged
  <2> QED
    BY <1>3, <1>5, <1>6, <1>10, <2>1
       DEF LogFails, RunsAreRight, LogsAreOfRuns, RanIsKnown
<1> QED  BY <1>7, <1>8, <1>9, <1>10

LEMMA DeleteRuleIsRight ==
  ASSUME EngineTypeOK, TicksAreRight, RunsAreRight, NEW r \in Rules, DeleteRule(r),
         \A d \in Due : HasBegun(d) => HasBegun(d)'
  PROVE  TicksAreRight' /\ RunsAreRight'
<1>1. /\ rule'[r] = None /\ \A x \in Rules \ {r} : rule'[x] = rule[x]
      /\ log' = {entry \in log : entry.due[1] # r}
      /\ UNCHANGED <<run, tick, ran, unlogged>>
  BY DEF DeleteRule, EngineTypeOK
<1>2. \A d \in Due : Spoken(d) => Spoken(d)'
  BY <1>1, DueTyped DEF Spoken
<1>3. \A d \in Due : Known(d) => Known(d)'
  BY <1>1, DueTyped DEF Known, AlreadyLogged, SpeaksFor, Doing, ForBlock
<1>4. TicksAreRight'
  BY <1>1, <1>2, TicksStay, WaitingIsDue
<1>5. CausesAreOwn'
  BY <1>1, RunTyped DEF RunsAreRight, CausesAreOwn, ForBlock
<1>6. LogsAreOfRuns' /\ RanIsKnown'
  BY <1>1, <1>3 DEF RunsAreRight, LogsAreOfRuns, RanIsKnown, EngineTypeOK
<1> QED  BY <1>4, <1>5, <1>6 DEF RunsAreRight

LEMMA RowsAreRight ==
  ASSUME EngineTypeOK, TicksAreRight, RunsAreRight, Rows,
         \A d \in Due : HasBegun(d) => HasBegun(d)'
  PROVE  TicksAreRight' /\ RunsAreRight'
<1>1. CASE \E r \in Rules : DeleteRule(r)
  BY <1>1, DeleteRuleIsRight
<1>2. ASSUME NEW r \in Rules, NEW form \in RuleForms, CreateRule(r, form)
      PROVE  TicksAreRight' /\ RunsAreRight'
  <2>1. /\ \A x \in Rules \ {r} : rule'[x] = rule[x]
        /\ UNCHANGED <<run, log, tick, ran, unlogged>>
        /\ \A d \in ran : d[1] # r
        /\ \A t \in Ticks : \A d \in Waiting(t) : d[1] # r
    BY <1>2 DEF CreateRule, EngineTypeOK, Waiting
  <2>2. \A t \in Ticks : \A d \in Waiting(t) : d[1] \in Rules \ {r}
    BY <2>1, WaitingIsDue, DueTyped
  <2>3. \A d \in ran : d[1] \in Rules \ {r}
    BY <2>1, DueTyped DEF EngineTypeOK
  <2>4. TicksAreRight'
    BY <2>1, <2>2, TicksStay DEF Spoken
  <2>5. RunsAreRight'
    BY <2>1, <2>3, RunsStay
  <2> QED  BY <2>4, <2>5
<1>3. ASSUME UNCHANGED <<run, log, tick, ran, unlogged>>,
             \A r \in Rules : rule[r] = None => rule'[r] = None
      PROVE  TicksAreRight' /\ RunsAreRight'
  <2>1. TicksAreRight'
    BY <1>3, TicksStay, WaitingIsDue, DueTyped DEF Spoken
  <2>2. \A d \in ran : d[1] \in Rules
    BY DueTyped DEF EngineTypeOK
  <2>3. RunsAreRight'
    BY <1>3, <2>2, RunsStay
  <2> QED  BY <2>1, <2>3
<1>4. CASE \E r \in Rules, form \in RuleForms : UpdateRule(r, form)
  BY <1>3, <1>4 DEF UpdateRule, EngineTypeOK
<1>5. CASE \/ \E k \in Keys, r \in Rules : SaveMapping(k, r)
           \/ \E k \in Keys : DeleteMapping(k)
  BY <1>3, <1>5 DEF SaveMapping, DeleteMapping
<1> QED  BY <1>1, <1>2, <1>4, <1>5 DEF Rows

\* A step of tick t to new.
LEMMA TickMoves ==
  ASSUME EngineTypeOK, TicksAreRight, NEW t \in Ticks, NEW new, tick' = [tick EXCEPT ![t] = new],
         UNCHANGED <<rule, log, ran>>,
         \A d \in Due : HasBegun(d) => HasBegun(d)',
         new # Idle /\ new.step # "read" => \A d \in new.due : HasBegun(d)',
         new # Idle /\ new.step = "resume" =>
           new.asked \in new.due /\ (new.found => Spoken(new.asked))
  PROVE  TicksAreRight'
<1> SUFFICES ASSUME NEW x \in Ticks
             PROVE  /\ \A d \in Waiting(x)' : HasBegun(d)'
                    /\ Resuming(x)' => /\ tick'[x].asked \in tick'[x].due
                                       /\ tick'[x].found => Spoken(tick[x].asked)'
  BY DEF TicksAreRight
<1>1. ASSUME NEW d, tick'[x].asked = d, Spoken(d)
      PROVE  Spoken(tick[x].asked)'
  BY <1>1 DEF Spoken
<1>2. CASE x = t
  <2>1. tick'[x] = new
    BY <1>2 DEF EngineTypeOK
  <2>2. Waiting(x)' = (IF new # Idle /\ new.step # "read" THEN new.due ELSE {})
    BY <2>1 DEF Waiting
  <2>3. Resuming(x)' = (new # Idle /\ new.step = "resume")
    BY <2>1 DEF Resuming
  <2> QED  BY <1>1, <2>1, <2>2, <2>3
<1>3. CASE x # t
  <2>1. tick'[x] = tick[x]
    BY <1>3 DEF EngineTypeOK
  <2>2. Waiting(x)' = Waiting(x) /\ Resuming(x)' = Resuming(x)
    BY <2>1 DEF Waiting, Resuming
  <2>3. \A d \in Waiting(x) : HasBegun(d)'
    BY WaitingIsDue DEF TicksAreRight
  <2>4. Resuming(x) => tick[x].asked \in tick[x].due /\ (tick[x].found => Spoken(tick[x].asked))
    BY DEF TicksAreRight
  <2> QED  BY <1>1, <2>1, <2>2, <2>3, <2>4
<1> QED  BY <1>2, <1>3

LEMMA TickStepIsRight ==
  ASSUME TimelineTypeOK, EngineTyped, RunsAreRequested, TicksAreRight, RunsAreRight, NEW t \in Ticks,
         \A d \in Due : HasBegun(d) => HasBegun(d)',
         \/ TickBegins(t) \/ TickReads(t) \/ TickResumes(t)
         \/ tick[t] # Idle /\ tick[t].step = "scan" /\ \E d \in tick[t].due : TickAsks(t, d)
  PROVE  TicksAreRight' /\ RunsAreRight'
<1> USE DEF EngineTyped
<1>1. ASSUME UNCHANGED <<rule, run, log, ran, unlogged>>
      PROVE  RunsAreRight'
  BY <1>1, RunsStay
<1>2. CASE TickBegins(t)
  <2> DEFINE new == [step |-> "read", at |-> now]
  <2>1. tick' = [tick EXCEPT ![t] = new] /\ UNCHANGED <<rule, run, log, ran, unlogged>>
    BY <1>2 DEF TickBegins
  <2>2. new.step = "read"
    OBVIOUS
  <2> HIDE DEF new
  <2> QED  BY <1>1, <2>1, <2>2, TickMoves
<1>3. CASE TickReads(t)
  <2> DEFINE due == {d \in Rules \X Blocks \X {block[b].run : b \in {x \in Blocks : block[x] # None}} :
                       IsDue(d[1], d[2], tick[t].at) /\ d[3] = block[d[2]].run}
             new == IF due = {} THEN Idle ELSE [step |-> "scan", due |-> due]
  <2>1. \A d \in due : HasBegun(d)'
    <3> SUFFICES ASSUME NEW d \in due  PROVE HasBegun(d)
      <4>1. \A b \in Blocks : block[b] # None => block[b].run \in Nat
        BY DEF TimelineTypeOK, TimelineBlock
      <4>2. due \subseteq Due
        BY <4>1 DEF Due
      <4> HIDE DEF due
      <4> QED  BY <4>2
    <3>1. d[2] \in Blocks /\ block[d[2]] # None /\ d[3] = block[d[2]].run
      BY DEF IsDue
    <3>2. /\ block[d[2]].run \in Nat /\ Cardinality(StartsOf(d[2])) \in Nat
          /\ block[d[2]].run + Cardinality(StartsOf(d[2])) <= requests
      BY <3>1, StartsAreFinite DEF TimelineTypeOK, TimelineBlock, StartsOf, RunsAreRequested
    <3>3. requests \in Nat
      BY TimelineAssumption DEF TimelineTypeOK
    <3> QED  BY <3>1, <3>2, <3>3 DEF HasBegun
  <2>2. tick' = [tick EXCEPT ![t] = new] /\ UNCHANGED <<rule, run, log, ran, unlogged>>
    BY <1>3 DEF TickReads
  <2> HIDE DEF due
  <2>3. new # Idle => new.step = "scan" /\ new.due = due
    OBVIOUS
  <2> HIDE DEF new
  <2> QED  BY <1>1, <2>1, <2>2, <2>3, TickMoves
<1>4. CASE TickResumes(t)
  <2> DEFINE d == tick[t].asked
             left == tick[t].due \ {d}
             new == IF left = {} THEN Idle ELSE [step |-> "scan", due |-> left]
  <2>1. /\ d \in Due /\ tick[t].due \subseteq Due /\ tick[t].found \in BOOLEAN
        /\ tick[t] # Idle /\ tick[t].step = "resume"
    BY <1>4, TickTyped DEF TickResumes
  <2>2. d \in tick[t].due /\ \A x \in tick[t].due : HasBegun(x)
    BY <2>1 DEF TicksAreRight, Resuming, Waiting
  <2>3. /\ tick' = [tick EXCEPT ![t] = new] /\ UNCHANGED <<rule, log, ran, unlogged>>
        /\ IF tick[t].found THEN UNCHANGED run ELSE Executes({d[1]}, d)
    BY <1>4 DEF TickResumes
  <2> HIDE DEF d
  <2>4. \A x \in left : HasBegun(x)'
    BY <2>1, <2>2
  <2> HIDE DEF left
  <2>5. new # Idle => new.step = "scan" /\ new.due = left
    OBVIOUS
  <2> HIDE DEF new
  <2>6. TicksAreRight'
    BY <2>3, <2>4, <2>5, TickMoves
  <2>7. RunsAreRight'
    <3>1. CASE tick[t].found
      BY <1>1, <2>3, <3>1
    <3>2. CASE ~tick[t].found
      <4>1. Executes({d[1]}, d) /\ d \in Due \cup {None} /\ HasBegun(d)
        BY <2>1, <2>2, <2>3, <3>2
      <4> QED  BY <2>3, <4>1, RunsStart
    <3> QED  BY <3>1, <3>2
  <2> QED  BY <2>6, <2>7
<1>5. CASE tick[t] # Idle /\ tick[t].step = "scan" /\ \E d \in tick[t].due : TickAsks(t, d)
  <2>1. PICK d \in tick[t].due : TickAsks(t, d)
    BY <1>5
  <2> DEFINE found == AlreadyLogged(d)
             new == [step |-> "resume", due |-> tick[t].due, asked |-> d, found |-> found]
  <2>2. tick[t].due \subseteq Due /\ \A x \in tick[t].due : HasBegun(x)
    BY <1>5, TickTyped DEF TicksAreRight, Waiting
  <2>3. tick' = [tick EXCEPT ![t] = new] /\ UNCHANGED <<rule, run, log, ran, unlogged>>
    BY <2>1 DEF TickAsks
  <2>4. found => Spoken(d)
    <3> SUFFICES ASSUME NEW entry \in log, entry.due[1] = d[1], entry.due[2] = d[2],
                        entry.during >= d[3], entry.due[3] = d[3]
                 PROVE  d \in ran
      BY DEF AlreadyLogged, SpeaksFor, Spoken
    <3>1. entry.due \in Due /\ entry.due \in ran
      BY DEF RunsAreRight, LogsAreOfRuns, EngineTypeOK
    <3>2. entry.due = d
      BY <2>1, <2>2, <3>1 DEF Due
    <3> QED  BY <3>1, <3>2
  <2> HIDE DEF found
  <2>5. new.step = "resume" /\ new.due = tick[t].due /\ new.asked = d /\ (new.found => Spoken(d))
    BY <2>4
  <2> HIDE DEF new
  <2>6. \A x \in new.due : HasBegun(x)'
    BY <2>2, <2>5
  <2> QED  BY <1>1, <2>1, <2>3, <2>5, <2>6, TickMoves
<1> QED  BY <1>2, <1>3, <1>4, <1>5

LEMMA TriggersStep ==
  ASSUME TriggersInv, Typed', Next
  PROVE  TriggersInv'
<1> USE DEF TriggersInv, Typed, EngineTyped
<1>1. RunsAreRequested' /\ \A d \in Due : HasBegun(d) => HasBegun(d)'
  BY RunsGoUp
<1>2. ASSUME UNCHANGED <<rule, run, log, tick, ran, unlogged>>
      PROVE  TicksAreRight' /\ RunsAreRight'
  <2>1. TicksAreRight'
    BY <1>1, <1>2, TicksStay, WaitingIsDue DEF Spoken
  <2> QED  BY <1>1, <1>2, <2>1, RunsStay
<1>3. CASE TimelineSteps
  BY <1>1, <1>2, <1>3 DEF TimelineSteps, engineVars
<1>4. CASE EngineRestarts
  <2>1. TicksAreRight'
    BY <1>4 DEF EngineRestarts, TicksAreRight, Waiting, Resuming
  <2>2. /\ \A r \in Runnable : run'[r] = Idle
        /\ UNCHANGED <<rule, log, ran>> /\ unlogged \subseteq unlogged'
        /\ \A r \in Runnable : Doing(r, "log") => ForBlock(r) \subseteq unlogged'
    BY <1>4 DEF EngineRestarts
  <2>3. CausesAreOwn' /\ LogsAreOfRuns'
    BY <2>2 DEF RunsAreRight, CausesAreOwn, LogsAreOfRuns
  <2>4. \A d \in ran : d[1] \in Runnable
    BY DueTyped DEF EngineTypeOK
  <2>5. RanIsKnown'
    BY <2>2, <2>4 DEF RunsAreRight, RanIsKnown, Known, AlreadyLogged
  <2> QED  BY <1>1, <2>1, <2>3, <2>5 DEF RunsAreRight
<1>5. ASSUME NEW ids, Executes(ids, None), UNCHANGED <<rule, log, tick, ran, unlogged>>
      PROVE  TicksAreRight' /\ RunsAreRight'
  <2>1. TicksAreRight'
    BY <1>1, <1>5, TicksStay, WaitingIsDue DEF Spoken
  <2>2. RunsAreRight'
    BY <1>1, <1>5, RunsStart
  <2> QED  BY <2>1, <2>2
<1>6. CASE \E r \in Runnable : Triggered(r)
  BY <1>1, <1>5, <1>6 DEF Triggered
<1>7. CASE \E k \in Keys : HardwareTrigger(k)
  BY <1>1, <1>5, <1>7 DEF HardwareTrigger
<1>8. CASE \E b \in Blocks : HandleEvent(b)
  BY <1>1, <1>5, <1>8 DEF HandleEvent
<1>9. CASE Rows
  BY <1>1, <1>9, RowsAreRight
<1>10. CASE \E t \in Ticks :
              \/ TickBegins(t) \/ TickReads(t) \/ TickResumes(t)
              \/ tick[t] # Idle /\ tick[t].step = "scan" /\ \E d \in tick[t].due : TickAsks(t, d)
  BY <1>1, <1>10, TickStepIsRight
<1>11. CASE \E r \in Runnable :
              ActionsSucceed(r) \/ ActionsFail(r) \/ LogIsWritten(r) \/ LogFails(r) \/ RunEnds(r)
  BY <1>1, <1>11, RunStepIsRight
<1>12. TicksAreRight' /\ RunsAreRight'
  BY <1>3, <1>4, <1>6, <1>7, <1>8, <1>9, <1>10, <1>11 DEF Next
<1> QED  BY <1>1, <1>12

LEMMA TriggersAreRight == Spec => []TriggersInv
<1>1. Init /\ Typed => TriggersInv
  <2> SUFFICES ASSUME Init, Typed  PROVE TriggersInv
    OBVIOUS
  <2>1. \A b \in Blocks : StartsOf(b) = {}
    BY DEF Init, TimelineInit, StartsOf
  <2>2. \A b \in Blocks : block[b] # None => block[b].run = 0
    BY DEF Init, TimelineInit
  <2>3. requests = 0 /\ Cardinality({}) = 0
    BY FS_EmptySet DEF Init, TimelineInit
  <2>6. RunsAreRequested
    <3> HIDE DEF StartsOf
    <3> QED  BY <2>1, <2>2, <2>3 DEF RunsAreRequested
  <2>4. TicksAreRight
    BY DEF Init, TicksAreRight, Waiting, Resuming
  <2>5. RunsAreRight
    BY DEF Init, RunsAreRight, CausesAreOwn, LogsAreOfRuns, RanIsKnown
  <2> QED  BY <2>6, <2>4, <2>5 DEF TriggersInv
<1>2. TriggersInv /\ Typed' /\ [Next]_vars => TriggersInv'
  <2> SUFFICES ASSUME TriggersInv, Typed', [Next]_vars  PROVE TriggersInv'
    OBVIOUS
  <2>1. CASE UNCHANGED vars
    <3> USE <2>1 DEF vars, timelineVars, engineVars
    <3>1. RunsAreRequested'
      BY DEF TriggersInv, RunsAreRequested, StartsOf
    <3>2. TicksAreRight'
      BY DEF TriggersInv, TicksAreRight, Waiting, Resuming, HasBegun, Spoken
    <3>3. RunsAreRight'
      BY DEF TriggersInv, RunsAreRight, CausesAreOwn, LogsAreOfRuns, RanIsKnown, Known,
         AlreadyLogged, Doing, ForBlock, HasBegun
    <3> QED  BY <3>1, <3>2, <3>3 DEF TriggersInv
  <2> QED  BY <2>1, TriggersStep
<1> QED  BY <1>1, <1>2, AllTyped, PTL DEF Spec

\* The answer a tick has is that of the log, unless the log has contradicted it since.
AnswersStand ==
  \A t \in Ticks : Resuming(t) /\ ~tick[t].found /\ t \notin overtaken =>
    ~AlreadyLogged(tick[t].asked)

\* Answers stand where the log grows no larger, and no tick is given one.
LEMMA AnswersStay ==
  ASSUME AnswersStand, log' \subseteq log,
         \A t \in Ticks : /\ Resuming(t)' => Resuming(t) /\ tick'[t] = tick[t]
                          /\ Resuming(t)' /\ t \in overtaken => t \in overtaken'
  PROVE  AnswersStand'
<1> SUFFICES ASSUME NEW t \in Ticks, Resuming(t)', ~tick'[t].found, t \notin overtaken',
                    AlreadyLogged(tick[t].asked)'
             PROVE  FALSE
  BY DEF AnswersStand, AlreadyLogged, SpeaksFor
<1> QED  BY DEF AnswersStand, AlreadyLogged, SpeaksFor

LEMMA TickAnswers ==
  ASSUME EngineTypeOK, AnswersStand, NEW t \in Ticks,
         \/ TickBegins(t) \/ TickReads(t) \/ TickResumes(t)
         \/ tick[t] # Idle /\ tick[t].step = "scan" /\ \E d \in tick[t].due : TickAsks(t, d)
  PROVE  AnswersStand'
<1>1. ASSUME NEW new, tick' = [tick EXCEPT ![t] = new], new # Idle => new.step # "resume",
             UNCHANGED log, overtaken \ {t} \subseteq overtaken'
      PROVE  AnswersStand'
  BY <1>1, AnswersStay DEF Resuming, EngineTypeOK
<1>2. CASE TickBegins(t)
  <2> DEFINE new == [step |-> "read", at |-> now]
  <2>1. tick' = [tick EXCEPT ![t] = new] /\ new.step # "resume"
    BY <1>2 DEF TickBegins
  <2> HIDE DEF new
  <2> QED  BY <1>1, <1>2, <2>1 DEF TickBegins
<1>3. CASE TickReads(t)
  <2> DEFINE due == {d \in Rules \X Blocks \X {block[b].run : b \in {x \in Blocks : block[x] # None}} :
                       IsDue(d[1], d[2], tick[t].at) /\ d[3] = block[d[2]].run}
             new == IF due = {} THEN Idle ELSE [step |-> "scan", due |-> due]
  <2>1. tick' = [tick EXCEPT ![t] = new]
    BY <1>3 DEF TickReads
  <2> HIDE DEF due
  <2>2. new # Idle => new.step # "resume"
    OBVIOUS
  <2> HIDE DEF new
  <2> QED  BY <1>1, <1>3, <2>1, <2>2 DEF TickReads
<1>4. CASE TickResumes(t)
  <2> DEFINE left == tick[t].due \ {tick[t].asked}
             new == IF left = {} THEN Idle ELSE [step |-> "scan", due |-> left]
  <2>1. tick' = [tick EXCEPT ![t] = new]
    BY <1>4 DEF TickResumes
  <2> HIDE DEF left
  <2>2. new # Idle => new.step # "resume"
    OBVIOUS
  <2> HIDE DEF new
  <2> QED  BY <1>1, <1>4, <2>1, <2>2 DEF TickResumes
<1>5. CASE tick[t] # Idle /\ tick[t].step = "scan" /\ \E d \in tick[t].due : TickAsks(t, d)
  <2>1. PICK d \in tick[t].due : TickAsks(t, d)
    BY <1>5
  <2> DEFINE found == AlreadyLogged(d)
             new == [step |-> "resume", due |-> tick[t].due, asked |-> d, found |-> found]
  <2>2. tick' = [tick EXCEPT ![t] = new] /\ UNCHANGED <<log, overtaken>>
    BY <2>1 DEF TickAsks
  <2>3. AlreadyLogged(d)' = found
    BY <2>2 DEF AlreadyLogged, SpeaksFor
  <2> HIDE DEF found
  <2>4. new.asked = d /\ new.found = found
    OBVIOUS
  <2> HIDE DEF new
  <2>5. ~tick'[t].found => ~AlreadyLogged(tick[t].asked)'
    <3>1. tick'[t] = new
      BY <2>2 DEF EngineTypeOK
    <3>2. CASE found
      BY <2>4, <3>1, <3>2
    <3>3. CASE ~found
      BY <2>2, <2>3, <2>4, <3>1, <3>3 DEF AlreadyLogged, SpeaksFor
    <3> QED  BY <3>2, <3>3
  <2>6. \A x \in Ticks \ {t} : tick'[x] = tick[x]
    BY <2>2 DEF EngineTypeOK
  <2> QED  BY <2>2, <2>5, <2>6 DEF AnswersStand, Resuming, AlreadyLogged, SpeaksFor
<1> QED  BY <1>2, <1>3, <1>4, <1>5

LEMMA LogAnswers ==
  ASSUME EngineTypeOK, AnswersStand, NEW r \in Runnable, LogIsWritten(r)
  PROVE  AnswersStand'
<1> SUFFICES ASSUME NEW t \in Ticks, Resuming(t), ~tick[t].found, t \notin overtaken',
                    AlreadyLogged(tick[t].asked)'
             PROVE  FALSE
  BY DEF AnswersStand, LogIsWritten, Resuming, AlreadyLogged, SpeaksFor
<1> DEFINE written ==
      {[due |-> d, during |-> IF block[d[2]] = None THEN d[3] ELSE block[d[2]].run] :
         d \in ForBlock(r)}
<1>1. /\ log' = log \cup written
      /\ overtaken' = overtaken \cup
           {x \in Ticks : /\ tick[x] # Idle /\ tick[x].step = "resume" /\ ~tick[x].found
                          /\ \E entry \in written : SpeaksFor(entry, tick[x].asked)}
  BY DEF LogIsWritten
<1> HIDE DEF written
<1>2. PICK entry \in log' : SpeaksFor(entry, tick[t].asked)
  BY DEF LogIsWritten, AlreadyLogged, SpeaksFor
<1>3. CASE entry \in log
  BY <1>1, <1>2, <1>3 DEF AnswersStand, AlreadyLogged
<1>4. CASE entry \in written
  BY <1>1, <1>2, <1>4 DEF Resuming
<1> QED  BY <1>1, <1>2, <1>3, <1>4

LEMMA AnswersAlwaysStand == Spec => []AnswersStand
<1>1. Init => AnswersStand
  BY DEF Init, AnswersStand, Resuming
<1>2. Typed /\ AnswersStand /\ [Next]_vars => AnswersStand'
  <2> SUFFICES ASSUME EngineTypeOK, AnswersStand, [Next]_vars  PROVE AnswersStand'
    BY DEF Typed, EngineTyped
  <2>1. ASSUME UNCHANGED <<tick, overtaken>>, log' \subseteq log
        PROVE  AnswersStand'
    BY <2>1, AnswersStay DEF Resuming
  <2>2. CASE UNCHANGED vars \/ TimelineSteps
    BY <2>1, <2>2 DEF vars, TimelineSteps, engineVars
  <2>3. CASE EngineRestarts
    BY <2>3 DEF EngineRestarts, AnswersStand, Resuming
  <2>4. CASE Rows
    BY <2>1, <2>4 DEF Rows, DeleteRule, CreateRule, UpdateRule, SaveMapping, DeleteMapping
  <2>5. CASE \/ \E r \in Runnable : Triggered(r)
             \/ \E k \in Keys : HardwareTrigger(k)
             \/ \E b \in Blocks : HandleEvent(b)
             \/ \E r \in Runnable : ActionsSucceed(r) \/ ActionsFail(r) \/ LogFails(r) \/ RunEnds(r)
    BY <2>1, <2>5 DEF Triggered, HardwareTrigger, HandleEvent, ActionsSucceed, ActionsFail,
       LogFails, RunEnds
  <2>6. CASE \E r \in Runnable : LogIsWritten(r)
    BY <2>6, LogAnswers
  <2>7. CASE \E t \in Ticks :
               \/ TickBegins(t) \/ TickReads(t) \/ TickResumes(t)
               \/ tick[t] # Idle /\ tick[t].step = "scan" /\ \E d \in tick[t].due : TickAsks(t, d)
    BY <2>7, TickAnswers
  <2> QED  BY <2>2, <2>3, <2>4, <2>5, <2>6, <2>7 DEF Next
<1> QED  BY <1>1, <1>2, AllTyped, PTL DEF Spec

\* Only a tick starts a run with a cause, and only on an answer that found nothing.
LEMMA StartIsOfTick ==
  ASSUME TriggersInv, [Next]_vars, NEW d \in ran, Starts(d[1], d)
  PROVE  \E t \in Ticks : /\ TickResumes(t) /\ Resuming(t) /\ ~tick[t].found
                          /\ tick[t].asked = d /\ tick'[t] # tick[t]
<1> USE DEF TriggersInv, Typed, EngineTyped
<1> DEFINE r == d[1]
<1>1. d \in Due /\ d # None /\ r \in Runnable
  BY DueTyped, NoneIsNotDue DEF EngineTypeOK
<1>2. run[r] = Idle /\ run'[r] # Idle /\ run'[r].cause = d
  BY DEF Starts
<1> HIDE DEF r
<1>3. ASSUME run' = run \/ run'[r] = Idle
      PROVE  FALSE
  BY <1>2, <1>3
<1>4. ASSUME NEW ids, Executes(ids, None)
      PROVE  FALSE
  BY <1>1, <1>2, <1>4, ExecutesEffect
<1>5. ASSUME NEW t \in Ticks, TickResumes(t)
      PROVE  Resuming(t) /\ ~tick[t].found /\ tick[t].asked = d /\ tick'[t] # tick[t]
  <2>1. ~tick[t].found
    BY <1>3, <1>5 DEF TickResumes
  <2>2. Executes({tick[t].asked[1]}, tick[t].asked) /\ tick[t].asked \in Due /\ Resuming(t)
    BY <1>5, <2>1, TickTyped DEF TickResumes, Resuming
  <2>3. tick[t].asked = d
    BY <1>1, <1>2, <2>2, ExecutesEffect
  <2> DEFINE left == tick[t].due \ {tick[t].asked}
             new == IF left = {} THEN Idle ELSE [step |-> "scan", due |-> left]
  <2>4. tick'[t] = new
    BY <1>5 DEF TickResumes, EngineTypeOK
  <2> HIDE DEF left
  <2>5. new # Idle => new.step = "scan"
    OBVIOUS
  <2> HIDE DEF new
  <2>6. tick'[t] # tick[t]
    BY <2>2, <2>4, <2>5 DEF Resuming
  <2> QED  BY <2>1, <2>2, <2>3, <2>6
<1>6. ASSUME NEW x \in Runnable,
             ActionsSucceed(x) \/ ActionsFail(x) \/ LogIsWritten(x) \/ LogFails(x) \/ RunEnds(x)
      PROVE  FALSE
  <2>1. run[x] # Idle
    BY <1>6 DEF ActionsSucceed, ActionsFail, LogIsWritten, LogFails, RunEnds, Doing
  <2>2. x # r
    BY <1>2, <2>1
  <2>3. run'[r] = run[r]
    BY <1>1, <1>6, <2>2 DEF ActionsSucceed, ActionsFail, LogIsWritten, LogFails, RunEnds,
       Proceeds, EngineTypeOK
  <2> QED  BY <1>2, <2>3
<1>7. CASE UNCHANGED vars \/ TimelineSteps \/ EngineRestarts \/ Rows
  BY <1>1, <1>3, <1>7 DEF vars, TimelineSteps, engineVars, EngineRestarts, Rows, DeleteRule,
     CreateRule, UpdateRule, SaveMapping, DeleteMapping
<1>8. CASE \/ \E x \in Runnable : Triggered(x)
           \/ \E k \in Keys : HardwareTrigger(k)
           \/ \E b \in Blocks : HandleEvent(b)
  BY <1>4, <1>8 DEF Triggered, HardwareTrigger, HandleEvent
<1>9. CASE \E t \in Ticks :
             \/ TickBegins(t) \/ TickReads(t)
             \/ \E e \in tick[t].due : TickAsks(t, e)
  BY <1>3, <1>9 DEF TickBegins, TickReads, TickAsks
<1> QED  BY <1>5, <1>6, <1>7, <1>8, <1>9 DEF Next

\* A rule that repeats has lost its log or its row, or is run on an answer from before the log.
LEMMA OnlyKnownRepeats ==
  ASSUME TriggersInv, AnswersStand, [Next]_vars, NEW d \in ran, Starts(d[1], d)
  PROVE  \/ d \in unlogged /\ ~AlreadyLogged(d)
         \/ rule[d[1]] = None
         \/ \E t \in overtaken : /\ tick[t] # Idle /\ tick[t].step = "resume"
                                 /\ tick[t].asked = d /\ tick'[t] # tick[t]
<1> PICK t \in Ticks : /\ TickResumes(t) /\ Resuming(t) /\ ~tick[t].found
                       /\ tick[t].asked = d /\ tick'[t] # tick[t]
  BY StartIsOfTick
<1>1. Known(d) /\ ~Doing(d[1], "log")
  BY DEF TriggersInv, RunsAreRight, RanIsKnown, Starts, Doing
<1>2. CASE t \in overtaken
  BY <1>2 DEF Resuming
<1>3. CASE t \notin overtaken
  BY <1>1, <1>3 DEF AnswersStand, Known
<1> QED  BY <1>2, <1>3

\* What a tick leaves out it was told of.
LEMMA LeftOutIsSpoken ==
  ASSUME TriggersInv, Next, NEW t \in Ticks, NEW d \in Waiting(t) \ Waiting(t)'
  PROVE  Spoken(d) \/ run'[d[1]] # Idle \/ EngineRestarts
<1> USE DEF TriggersInv, Typed, EngineTyped
<1>1. tick[t] # Idle /\ tick[t].step # "read" /\ d \in tick[t].due /\ d \in Due
  BY WaitingIsDue DEF Waiting
<1>2. ASSUME tick'[t] = tick[t]
      PROVE  FALSE
  BY <1>2 DEF Waiting
<1>3. CASE TickResumes(t)
  <2>1. tick[t].step = "resume" /\ tick[t].asked \in Due /\ tick[t].found \in BOOLEAN
    BY <1>1, <1>3, TickTyped DEF TickResumes
  <2> DEFINE left == tick[t].due \ {tick[t].asked}
             new == IF left = {} THEN Idle ELSE [step |-> "scan", due |-> left]
  <2>2. tick'[t] = new
    BY <1>3 DEF TickResumes, EngineTypeOK
  <2>3. Waiting(t)' = left
    <3> HIDE DEF left
    <3>1. new # Idle => new.step = "scan" /\ new.due = left
      OBVIOUS
    <3>2. left # {} => new # Idle
      <4>1. [step |-> "scan", due |-> left].step # Idle.step
        BY DEF Idle
      <4> QED  BY <4>1
    <3>3. left = {} => new = Idle
      OBVIOUS
    <3> HIDE DEF new
    <3> QED  BY <2>2, <3>1, <3>2, <3>3 DEF Waiting
  <2>4. d = tick[t].asked
    BY <1>1, <2>3
  <2>5. CASE tick[t].found
    BY <1>1, <2>1, <2>4, <2>5 DEF TicksAreRight, Resuming
  <2>6. CASE ~tick[t].found
    <3>1. Executes({d[1]}, d) /\ d[1] \in Runnable
      BY <1>1, <1>3, <2>4, <2>6, DueTyped DEF TickResumes
    <3> QED  BY <1>1, <3>1, ExecutesEffect
  <2> QED  BY <2>1, <2>5, <2>6
<1>4. CASE TickBegins(t) \/ TickReads(t)
  BY <1>1, <1>4 DEF TickBegins, TickReads
<1>5. ASSUME NEW x \in tick[t].due, TickAsks(t, x)
      PROVE  FALSE
  <2> DEFINE found == AlreadyLogged(x)
             new == [step |-> "resume", due |-> tick[t].due, asked |-> x, found |-> found]
  <2>1. tick'[t] = new
    BY <1>5 DEF TickAsks, EngineTypeOK
  <2> HIDE DEF found
  <2>2. new.step = "resume" /\ new.due = tick[t].due
    OBVIOUS
  <2>3. new # Idle
    BY <2>2 DEF Idle
  <2> HIDE DEF new
  <2> QED  BY <1>1, <2>1, <2>2, <2>3 DEF Waiting
<1>6. CASE \E x \in Ticks \ {t} :
             \/ TickBegins(x) \/ TickReads(x) \/ TickResumes(x)
             \/ \E e \in tick[x].due : TickAsks(x, e)
  BY <1>2, <1>6 DEF TickBegins, TickReads, TickResumes, TickAsks, EngineTypeOK
<1>7. CASE TimelineSteps \/ Rows
  BY <1>2, <1>7 DEF TimelineSteps, engineVars, Rows, DeleteRule, CreateRule, UpdateRule,
     SaveMapping, DeleteMapping
<1>8. CASE \/ \E r \in Runnable : Triggered(r)
           \/ \E k \in Keys : HardwareTrigger(k)
           \/ \E b \in Blocks : HandleEvent(b)
           \/ \E r \in Runnable :
                ActionsSucceed(r) \/ ActionsFail(r) \/ LogIsWritten(r) \/ LogFails(r) \/ RunEnds(r)
  BY <1>2, <1>8 DEF Triggered, HardwareTrigger, HandleEvent, ActionsSucceed, ActionsFail,
     LogIsWritten, LogFails, RunEnds
<1> QED  BY <1>3, <1>4, <1>5, <1>6, <1>7, <1>8 DEF Next

\* A time trigger that falls due runs its rule, and runs it once, save for the causes that
\* RepeatsOnlyUnlogged and DueTriggersRun name.
THEOREM TriggersRunOnce == Spec => DueTriggersRunOnce
<1>1. TriggersInv /\ AnswersStand /\ [Next]_vars =>
        [\A d \in ran : Starts(d[1], d) =>
           \/ d \in unlogged /\ ~AlreadyLogged(d)
           \/ rule[d[1]] = None
           \/ \E t \in overtaken : /\ tick[t] # Idle /\ tick[t].step = "resume"
                                   /\ tick[t].asked = d /\ tick'[t] # tick[t]]_vars
  BY OnlyKnownRepeats
<1>2. TriggersInv /\ [Next]_vars =>
        [\A t \in Ticks : \A d \in Waiting(t) \ Waiting(t)' :
           \/ d \in ran
           \/ run'[d[1]] # Idle \/ rule[d[1]] = None
           \/ \E entry \in log : entry.due[1] = d[1] /\ entry.due[2] = d[2]
                                 /\ entry.due[3] # d[3] /\ entry.during >= d[3]
           \/ EngineRestarts]_vars
  BY LeftOutIsSpoken DEF Spoken
<1>3. Spec => RepeatsOnlyUnlogged
  BY <1>1, TriggersAreRight, AnswersAlwaysStand, PTL DEF Spec, RepeatsOnlyUnlogged
<1>4. Spec => DueTriggersRun
  BY <1>2, TriggersAreRight, PTL DEF Spec, DueTriggersRun
<1> QED  BY <1>3, <1>4 DEF DueTriggersRunOnce

=============================================================================
