--------------------------- MODULE ScriptFlushProofs ---------------------------
(***************************************************************************)
(* Proofs about ScriptFlush, for every set of edits and of overlapping     *)
(* runs of the flush, with or without Redis.  The invariant orders every   *)
(* copy of the script, the ones in flight among them.                      *)
(***************************************************************************)
EXTENDS ScriptFlush, TLAPS

\* Without Redis nothing is ever on its way there.
NoRedis == ~RedisUrl => redis = None /\ storing = None

\* What is being stored is of a document still in memory, what is being flushed of a key.
InFlight ==
  /\ storing # None => document # None
  /\ \A r \in Runs : flush[r].step = "write" => redis # None

\* row <= key <= set in flight <= document, and a run writes at most the key.
Ordered ==
  ~bypassed =>
    /\ document # None => content \subseteq document
    /\ redis # None => content \subseteq redis
    /\ storing # None => content \subseteq storing
    /\ redis # None /\ storing # None => redis \subseteq storing
    /\ redis # None /\ document # None => redis \subseteq document
    /\ storing # None => storing \subseteq document
    /\ \A r \in Runs : flush[r].step = "write" => flush[r].state \subseteq redis

IInv == TypeOK /\ NoRedis /\ InFlight /\ Ordered

LEMMA Shapes ==
  /\ Idle.step = "idle" /\ Reading.step = "read"
  /\ \A state : Writing(state).step = "write" /\ Writing(state).state = state
  /\ Idle # Reading /\ \A state : Writing(state) # Idle /\ Writing(state) # Reading
  BY DEF Idle, Reading, Writing

LEMMA NoneIsNoState == \A state \in States : state # None
  BY ConstantsAssumption

LEMMA BoundsType ==
  ASSUME TypeOK, Fails \/ Succeeds
  PROVE  restarts' \in 0 .. MaxRestarts /\ failures' \in 0 .. MaxFailures
  BY ConstantsAssumption DEF TypeOK, Fails, Succeeds, bounds

\* A run that writes has a state to write.
LEMMA RunType ==
  ASSUME TypeOK, NEW r \in Runs, flush[r].step = "write"
  PROVE  flush[r].state \in States /\ flush[r] = Writing(flush[r].state)
<1>1. flush[r] \in {Idle, Reading} \cup {Writing(state) : state \in States}
  BY DEF TypeOK
<1>2. PICK state \in States : flush[r] = Writing(state)
  BY <1>1, Shapes
<1> QED  BY <1>2, Shapes

LEMMA InitEstablishesIInv == Init => IInv
<1> SUFFICES ASSUME Init PROVE IInv
  OBVIOUS
<1>1. TypeOK
  <2>1. flush \in [Runs -> {Idle, Reading} \cup {Writing(state) : state \in States}]
    BY DEF Init
  <2>2. restarts \in 0 .. MaxRestarts /\ failures \in 0 .. MaxFailures
    BY ConstantsAssumption DEF Init
  <2>3. {} \in States
    BY DEF States
  <2> QED  BY <2>1, <2>2, <2>3 DEF Init, TypeOK
<1>2. \A r \in Runs : flush[r].step # "write"
  BY Shapes DEF Init
<1> QED  BY <1>1, <1>2 DEF Init, IInv, NoRedis, InFlight, Ordered

LEMMA LoadsKeeps ==
  ASSUME IInv, Loads \/ LoadsFromRow
  PROVE  IInv'
<1>1. document' \in States /\ (Fails \/ Succeeds)
  BY DEF Loads, LoadsFromRow, IInv, TypeOK
<1>2. UNCHANGED <<made, edited, storing, redis, pendingFlush, flush, content, gateway>>
  BY DEF Loads, LoadsFromRow
<1>3. bypassed' \in BOOLEAN
  BY DEF Loads, LoadsFromRow, IInv, TypeOK
<1>4. TypeOK'
  BY <1>1, <1>2, <1>3, BoundsType DEF IInv, TypeOK, gateway
<1>5. storing = None
  BY DEF Loads, LoadsFromRow, IInv, InFlight
<1>6. Ordered'
  <2>1. CASE LoadsFromRow
    BY <2>1 DEF LoadsFromRow, Ordered
  <2>2. CASE Loads
    BY <1>2, <1>5, <2>2 DEF Loads, IInv, Ordered, NoRedis
  <2> QED  BY <2>1, <2>2
<1> QED  BY <1>2, <1>4, <1>5, <1>6 DEF IInv, NoRedis, InFlight

LEMMA EditKeeps ==
  ASSUME IInv, NEW e \in Edits, Edit(e)
  PROVE  IInv'
<1>1. document \in States /\ document' = document \cup {e} /\ document' \in States
  BY DEF Edit, IInv, TypeOK, States
<1>2. TypeOK'
  BY <1>1 DEF Edit, Makes, IInv, TypeOK, States, gateway, bounds
<1>3. document' # None
  BY <1>1, NoneIsNoState
<1> QED  BY <1>1, <1>2, <1>3 DEF Edit, IInv, NoRedis, InFlight, Ordered

LEMMA StoreBeginsKeeps ==
  ASSUME IInv, StoreBegins
  PROVE  IInv'
<1>1. UNCHANGED <<made, document, redis, flush, content, gateway, bypassed, bounds>>
  BY DEF StoreBegins
<1>2. document # None /\ ((storing' = document /\ RedisUrl) \/ storing' = storing)
  BY DEF StoreBegins
<1>3. TypeOK'
  BY <1>1 DEF StoreBegins, IInv, TypeOK, gateway, bounds
<1> QED  BY <1>1, <1>2, <1>3 DEF IInv, NoRedis, InFlight, Ordered

LEMMA StoreEndsKeeps ==
  ASSUME IInv, StoreEnds \/ StoreFails
  PROVE  IInv'
<1>1. /\ storing # None /\ storing \in States /\ storing' = None
      /\ redis' \in {redis, storing}
      /\ UNCHANGED <<made, document, edited, flush, content, gateway, bypassed>>
      /\ pendingFlush' = TRUE /\ (Fails \/ Succeeds)
  BY DEF StoreEnds, StoreFails, IInv, TypeOK
<1>2. TypeOK'
  BY <1>1, BoundsType DEF IInv, TypeOK, gateway
<1>3. RedisUrl
  BY <1>1 DEF IInv, NoRedis
<1>4. \A r \in Runs : flush'[r].step = "write" => redis # None /\ flush'[r] = flush[r]
  BY <1>1 DEF IInv, InFlight
<1>5. Ordered'
  BY <1>1, <1>4 DEF IInv, Ordered
<1> QED  BY <1>1, <1>2, <1>3, <1>4, <1>5 DEF IInv, NoRedis, InFlight

LEMMA LeavesKeep ==
  ASSUME IInv, Unloads \/ Expires
  PROVE  IInv'
<1>1. TypeOK'
  BY DEF Unloads, Expires, IInv, TypeOK, gateway, bounds
<1>2. CASE Unloads
  BY <1>1, <1>2 DEF Unloads, IInv, NoRedis, InFlight, Ordered
<1>3. CASE Expires
  <2>1. \A r \in Runs : flush'[r].step # "write"
    BY <1>3, Shapes DEF Expires
  <2> QED  BY <1>1, <1>3, <2>1 DEF Expires, IInv, NoRedis, InFlight, Ordered
<1> QED  BY <1>2, <1>3

\* A run that goes on to hold nothing, or what Redis holds.
LEMMA FlushMovesKeeps ==
  ASSUME IInv, NEW r \in Runs, FlushBegins(r) \/ FlushReads(r) \/ FlushFails(r)
  PROVE  IInv'
<1>1. UNCHANGED <<made, document, edited, storing, redis, content, gateway, bypassed>>
      /\ pendingFlush' \in BOOLEAN /\ (Fails \/ Succeeds)
  BY DEF FlushBegins, FlushReads, FlushFails, IInv, TypeOK, Succeeds
<1>2. PICK run :
        /\ flush' = [flush EXCEPT ![r] = run]
        /\ run \in {Idle, Reading} \/ (run = Writing(redis) /\ redis # None)
  BY DEF FlushBegins, FlushReads, FlushFails
<1>3. run \in {Idle, Reading} \cup {Writing(state) : state \in States}
  BY <1>2 DEF IInv, TypeOK
<1>4. flush' \in [Runs -> {Idle, Reading} \cup {Writing(state) : state \in States}]
  BY <1>2, <1>3 DEF IInv, TypeOK
<1>5. TypeOK'
  BY <1>1, <1>4, BoundsType DEF IInv, TypeOK, gateway
<1>6. \A q \in Runs : flush'[q].step = "write" =>
        flush'[q] = flush[q] \/ (flush'[q].state = redis /\ redis # None)
  BY <1>2, Shapes DEF IInv, TypeOK
<1> QED  BY <1>1, <1>5, <1>6 DEF IInv, NoRedis, InFlight, Ordered

LEMMA FlushWritesKeeps ==
  ASSUME IInv, NEW r \in Runs, FlushWrites(r)
  PROVE  IInv'
<1>1. /\ content' = flush[r].state /\ content' \in States
      /\ flush' = [flush EXCEPT ![r] = Idle] /\ Succeeds
      /\ UNCHANGED <<made, document, edited, storing, redis, pendingFlush, gateway, bypassed>>
  BY RunType DEF FlushWrites, IInv
<1>2. TypeOK'
  BY <1>1, BoundsType DEF IInv, TypeOK, gateway
<1>3. \A q \in Runs : flush'[q].step = "write" => flush'[q] = flush[q]
  BY <1>1, Shapes DEF IInv, TypeOK
<1>4. redis # None /\ (~bypassed => content' \subseteq redis)
  BY <1>1 DEF FlushWrites, IInv, InFlight, Ordered
<1> QED  BY <1>1, <1>2, <1>3, <1>4 DEF IInv, NoRedis, InFlight, Ordered

LEMMA GatewayKeeps ==
  ASSUME IInv, (\E e \in Edits : ScriptUpdate(e)) \/ TimerFires \/ MergeWrites \/ MergeFails
  PROVE  IInv'
<1>1. UNCHANGED hocuspocus /\ ((content' = content /\ bypassed' = bypassed) \/ bypassed' = TRUE)
  BY DEF ScriptUpdate, TimerFires, MergeWrites, MergeFails, hocuspocus
<1>2. CASE \E e \in Edits : ScriptUpdate(e)
  BY <1>2 DEF ScriptUpdate, Makes, IInv, TypeOK, States, hocuspocus, bounds,
              NoRedis, InFlight, Ordered
<1>3. CASE TimerFires
  <2>1. timer \in States
    BY <1>3 DEF TimerFires, IInv, TypeOK
  <2> QED
    BY <1>3, <2>1 DEF TimerFires, IInv, TypeOK, hocuspocus, bounds, NoRedis, InFlight, Ordered
<1>4. CASE MergeWrites \/ MergeFails
  <2>1. merge \in [seen : States, update : States]
    BY <1>4 DEF MergeWrites, MergeFails, IInv, TypeOK
  <2>2. content' \in States
    BY <1>4, <2>1 DEF MergeWrites, MergeFails, IInv, TypeOK, States
  <2>3. /\ merge' = None /\ timer' = timer /\ made' = made /\ (Fails \/ Succeeds)
    BY <1>4 DEF MergeWrites, MergeFails
  <2>4. TypeOK'
    BY <1>1, <2>2, <2>3, BoundsType DEF IInv, TypeOK, hocuspocus
  <2> QED  BY <1>1, <2>4 DEF IInv, hocuspocus, NoRedis, InFlight, Ordered
<1> QED  BY <1>2, <1>3, <1>4

LEMMA RestartKeeps ==
  ASSUME IInv, Restart
  PROVE  IInv'
<1>1. /\ redis' = redis \/ (redis' = storing /\ storing # None)
      /\ document' = None /\ storing' = None
      /\ \A r \in Runs : flush'[r] = Idle
      /\ content' = content /\ bypassed' = bypassed
  BY DEF Restart
<1>2. restarts' \in 0 .. MaxRestarts
  BY ConstantsAssumption DEF Restart, IInv, TypeOK
<1>3. TypeOK'
  BY <1>1, <1>2 DEF Restart, IInv, TypeOK
<1> QED  BY <1>1, <1>3, Shapes DEF IInv, NoRedis, InFlight, Ordered

LEMMA NextKeepsIInv == IInv /\ [Next]_vars => IInv'
<1> SUFFICES ASSUME IInv, [Next]_vars PROVE IInv'
  OBVIOUS
<1>1. CASE UNCHANGED vars
  BY <1>1 DEF vars, hocuspocus, gateway, bounds, IInv, TypeOK, NoRedis, InFlight, Ordered
<1>2. CASE Next
  BY <1>2, LoadsKeeps, EditKeeps, StoreBeginsKeeps, StoreEndsKeeps, LeavesKeep,
     FlushMovesKeeps, FlushWritesKeeps, GatewayKeeps, RestartKeeps DEF Next
<1> QED  BY <1>1, <1>2

THEOREM Invariance == Spec => []IInv
  BY InitEstablishesIInv, NextKeepsIInv, PTL DEF Spec

\* The state keeps its types.
THEOREM TypeCorrectness == Spec => []TypeOK
<1>1. IInv => TypeOK
  BY DEF IInv
<1> QED  BY <1>1, Invariance, PTL

\* The document, Redis and the row are ordered, whatever fails to be stored, overlaps or
\* restarts (onLoadDocument, onStoreDocument, flushPendingToDB).
THEOREM CopiesStayOrdered == Spec => []CopiesAreOrdered
<1>1. IInv => CopiesAreOrdered
  BY DEF IInv, Ordered, CopiesAreOrdered
<1> QED  BY <1>1, Invariance, PTL

-----------------------------------------------------------------------------
(***************************************************************************)
(* What may be lost, and what may be forgotten                             *)
(***************************************************************************)

LEMMA StepKeepsStored ==
  ASSUME IInv, Next, ~bypassed', NEW e \in Edits, Stored(e), ~Stored(e)'
  PROVE  redis' = None /\ ~Covered
<1>1. CASE Expires
  <2>1. e \in redis /\ e \notin content
    BY <1>1 DEF Expires, Stored
  <2> QED  BY <1>1, <2>1, Shapes DEF Expires, Covered
<1>2. CASE StoreEnds \/ StoreFails
  BY <1>2 DEF StoreEnds, StoreFails, IInv, Ordered, Stored
<1>3. ASSUME NEW r \in Runs, FlushWrites(r) PROVE FALSE
  <2>1. redis # None /\ e \in redis /\ redis' = redis
    BY <1>3 DEF FlushWrites, IInv, InFlight, Ordered, Stored
  <2> QED  BY <2>1 DEF Stored
<1>4. CASE Restart
  BY <1>4 DEF Restart, IInv, Ordered, Stored
<1>5. CASE MergeWrites
  BY <1>5 DEF MergeWrites
<1>6. ASSUME redis' = redis, content' = content PROVE FALSE
  BY <1>6 DEF Stored
<1>7. ASSUME \/ Loads \/ LoadsFromRow \/ Unloads \/ StoreBegins \/ TimerFires \/ MergeFails
             \/ \E d \in Edits : Edit(d) \/ ScriptUpdate(d)
             \/ \E r \in Runs : FlushBegins(r) \/ FlushReads(r) \/ FlushFails(r)
      PROVE  redis' = redis /\ content' = content
  BY <1>7 DEF Loads, LoadsFromRow, Unloads, StoreBegins, TimerFires, MergeFails, Edit,
              ScriptUpdate, FlushBegins, FlushReads, FlushFails, hocuspocus
<1> QED  BY <1>1, <1>2, <1>3, <1>4, <1>5, <1>6, <1>7 DEF Next

\* A stored edit is lost only when the key of a forgotten state expires, for any edits
\* and runs.
THEOREM StoredIsKept == Spec => StoredSurvives
<1>1. IInv /\ [Next]_vars =>
        [\A e \in Edits :
           ~bypassed' /\ Stored(e) /\ ~Stored(e)' => redis' = None /\ ~Covered]_vars
  BY StepKeepsStored
<1> QED  BY <1>1, Invariance, PTL DEF Spec, StoredSurvives

LEMMA StepKeepsCovered ==
  ASSUME IInv, Next, ~bypassed', Covered, ~Covered', ~Overtaken
  PROVE  restarts' # restarts
<1>1. CASE StoreBegins
  BY <1>1, NoneIsNoState DEF StoreBegins, Covered
<1>2. CASE StoreEnds \/ StoreFails
  BY <1>2 DEF StoreEnds, StoreFails, Covered
<1>3. CASE Expires
  BY <1>3 DEF Expires, Covered
<1>4. ASSUME NEW r \in Runs, FlushBegins(r) PROVE FALSE
  <2>1. flush'[r] = Reading
    BY <1>4 DEF FlushBegins, IInv, TypeOK
  <2> QED  BY <2>1 DEF Covered
<1>5. ASSUME NEW r \in Runs, FlushReads(r) PROVE FALSE
  <2>1. RedisUrl /\ redis # None
    BY <1>5 DEF FlushReads, Covered, IInv, NoRedis
  <2>2. flush'[r] = Writing(redis) /\ redis' = redis
    BY <1>5, <2>1 DEF FlushReads, IInv, TypeOK
  <2> QED  BY <2>2 DEF Covered
<1>6. ASSUME NEW r \in Runs, FlushWrites(r) PROVE FALSE
  <2>1. /\ content' = flush[r].state
        /\ redis' = redis /\ storing' = storing /\ pendingFlush' = pendingFlush
        /\ \A q \in Runs \ {r} : flush'[q] = flush[q]
        /\ content \subseteq flush[r].state
    BY <1>6 DEF FlushWrites, Overtaken, IInv, TypeOK
  <2>2. flush[r] # Reading
    BY <1>6, Shapes DEF FlushWrites
  <2>3. flush[r] = Writing(redis) => content' = redis
    BY <2>1, Shapes
  <2> QED  BY <2>1, <2>2, <2>3 DEF Covered
<1>7. ASSUME NEW r \in Runs, FlushFails(r) PROVE FALSE
  BY <1>7 DEF FlushFails, Covered
<1>8. CASE Restart
  BY <1>8 DEF Restart, IInv, TypeOK
<1>9. CASE MergeWrites
  BY <1>9 DEF MergeWrites
<1>10. ASSUME UNCHANGED <<redis, content, storing, pendingFlush, flush>> PROVE FALSE
  BY <1>10 DEF Covered
<1>11. ASSUME \/ Loads \/ LoadsFromRow \/ Unloads \/ TimerFires \/ MergeFails
              \/ \E d \in Edits : Edit(d) \/ ScriptUpdate(d)
       PROVE  UNCHANGED <<redis, content, storing, pendingFlush, flush>>
  BY <1>11 DEF Loads, LoadsFromRow, Unloads, TimerFires, MergeFails, Edit, ScriptUpdate,
               hocuspocus
<1> QED
  BY <1>1, <1>2, <1>3, <1>4, <1>5, <1>6, <1>7, <1>8, <1>9, <1>10, <1>11 DEF Next

\* The service forgets to flush what Redis holds only when it restarts or when a run of
\* the flush is overtaken by a later one, for any edits and runs.
THEOREM NothingElseForgets == Spec => NothingIsForgotten
<1>1. IInv /\ [Next]_vars =>
        [~bypassed' /\ Covered /\ ~Covered' => Overtaken \/ restarts' # restarts]_vars
  BY StepKeepsCovered
<1> QED  BY <1>1, Invariance, PTL DEF Spec, NothingIsForgotten

\* What Redis has stored is neither dropped nor left out of the flush, save by the causes
\* that the two parts name.
THEOREM LossIsNeverQuiet == Spec => NoQuietLoss
<1> QED  BY StoredIsKept, NothingElseForgets DEF NoQuietLoss
=============================================================================
