------------------------------- MODULE ScriptFlush -------------------------------
(***************************************************************************)
(* The collaborative script of one production:                             *)
(*   src/script/hocuspocus.service.ts            document, Redis, flush    *)
(*   src/script/script.service.ts                updateScriptState         *)
(*   src/websockets/gateways/script.gateway.ts   script.update             *)
(*                                                                         *)
(* A Yjs state is the set of the edits it holds: applying an update is     *)
(* union, encoding a document is its set.  The edits of collaborators go   *)
(* from the document in memory to a key in Redis and from there, every     *)
(* 30 seconds, to the row ProductionScript.  script.update merges an edit  *)
(* into the row by itself.                                                 *)
(*                                                                         *)
(* External, from how the code uses them: Hocuspocus loads a document for  *)
(* its first collaborator, has it stored some time after an edit, one      *)
(* store at a time, and unloads it once stored.                            *)
(***************************************************************************)
EXTENDS Naturals

CONSTANTS
  Edits,        \* edits, each made once
  Runs,         \* runs of flushPendingToDB that may overlap
  None,         \* null
  RedisUrl,     \* REDIS_URL is set
  MaxRestarts,  \* bound on restarts
  MaxFailures   \* bound on calls that fail

States == SUBSET Edits

ASSUME ConstantsAssumption ==
  /\ \A state \in States : state # None
  /\ RedisUrl \in BOOLEAN
  /\ MaxRestarts \in Nat /\ MaxFailures \in Nat

VARIABLES
  made,          \* edits made so far
  document,      \* the document in memory, None when it is not loaded
  edited,        \* it has edits that onStoreDocument was not called for
  storing,       \* what a redis.set in flight writes, else None
  redis,         \* the key yjs:doc, None when there is none
  pendingFlush,  \* the document is in pendingFlush
  flush,         \* the runs of flushPendingToDB
  content,       \* ProductionScript.content
  timer,         \* the update of the armed scriptUpdateTimers entry, else None
  merge,         \* updateScriptState between its statements, else None
  bypassed,      \* history: the document missed what Redis or the row held
  restarts,
  failures

hocuspocus == <<document, edited, storing, redis, pendingFlush, flush>>
gateway == <<timer, merge>>
bounds == <<restarts, failures>>
vars == <<made, hocuspocus, content, gateway, bypassed, bounds>>

Idle == [step |-> "idle"]
Reading == [step |-> "read"]
Writing(state) == [step |-> "write", state |-> state]

Fails == failures < MaxFailures /\ failures' = failures + 1 /\ UNCHANGED restarts
Succeeds == UNCHANGED bounds

Makes(e) == e \notin made /\ made' = made \cup {e}

(***************************************************************************)
(* Collaborators and Redis                                                 *)
(***************************************************************************)
\* Mutant: the row first, Redis when there is none.
Loads_RowFirst ==
  /\ document = None
  /\ document' = IF content = {} /\ RedisUrl /\ redis # None THEN redis ELSE content
  /\ Succeeds
  /\ UNCHANGED <<made, edited, storing, redis, pendingFlush, flush, content, gateway, bypassed>>

\* onLoadDocument: Redis first, the row when there is no key.
Loads ==
  /\ document = None
  /\ document' = IF RedisUrl /\ redis # None THEN redis ELSE content
  /\ Succeeds
  /\ UNCHANGED <<made, edited, storing, redis, pendingFlush, flush, content, gateway, bypassed>>

\* Redis does not answer: the row, whatever Redis holds.
LoadsFromRow ==
  /\ document = None /\ RedisUrl
  /\ document' = content
  /\ bypassed' = TRUE
  /\ Fails
  /\ UNCHANGED <<made, edited, storing, redis, pendingFlush, flush, content, gateway>>

Edit(e) ==
  /\ document # None
  /\ Makes(e)
  /\ document' = document \cup {e}
  /\ edited' = TRUE
  /\ UNCHANGED <<storing, redis, pendingFlush, flush, content, gateway, bypassed, bounds>>

\* onStoreDocument up to its call to Redis; without Redis there is none.
StoreBegins ==
  /\ document # None /\ edited /\ storing = None
  /\ edited' = FALSE
  /\ IF RedisUrl
     THEN storing' = document /\ UNCHANGED pendingFlush
     ELSE pendingFlush' = TRUE /\ UNCHANGED storing
  /\ UNCHANGED <<made, document, redis, flush, content, gateway, bypassed, bounds>>

StoreEnds ==
  /\ storing # None
  /\ redis' = storing
  /\ storing' = None
  /\ pendingFlush' = TRUE
  /\ Succeeds
  /\ UNCHANGED <<made, document, edited, flush, content, gateway, bypassed>>

\* The document is marked for the flush all the same; Redis may have the key.
StoreFails ==
  /\ storing # None
  /\ redis' \in {redis, storing}
  /\ storing' = None
  /\ pendingFlush' = TRUE
  /\ Fails
  /\ UNCHANGED <<made, document, edited, flush, content, gateway, bypassed>>

Unloads ==
  /\ document # None /\ ~edited /\ storing = None
  /\ document' = None
  /\ UNCHANGED <<made, edited, storing, redis, pendingFlush, flush, content, gateway,
                 bypassed, bounds>>

\* Mutant: the key does not live as long as a flush may take.
Expires_Early ==
  /\ redis # None
  /\ storing = None /\ \A r \in Runs : flush[r] = Idle
  /\ redis' = None
  /\ UNCHANGED <<made, document, edited, storing, pendingFlush, flush, content, gateway,
                 bypassed, bounds>>

\* REDIS_STATE_TTL_S "must exceed max flush interval": no flush is due or running.
Expires ==
  /\ redis # None
  /\ storing = None /\ ~pendingFlush /\ \A r \in Runs : flush[r] = Idle
  /\ redis' = None
  /\ UNCHANGED <<made, document, edited, storing, pendingFlush, flush, content, gateway,
                 bypassed, bounds>>

(***************************************************************************)
(* flushPendingToDB                                                        *)
(***************************************************************************)
\* Mutant: returns when at most one document is pending.
FlushBegins_SkipsOne(r) ==
  /\ flush[r] = Idle
  /\ pendingFlush /\ FALSE
  /\ pendingFlush' = FALSE
  /\ flush' = [flush EXCEPT ![r] = Reading]
  /\ UNCHANGED <<made, document, edited, storing, redis, content, gateway, bypassed, bounds>>

FlushBegins(r) ==
  /\ flush[r] = Idle
  /\ pendingFlush
  /\ pendingFlush' = FALSE
  /\ flush' = [flush EXCEPT ![r] = Reading]
  /\ UNCHANGED <<made, document, edited, storing, redis, content, gateway, bypassed, bounds>>

\* Mutant: a missing state is written.
FlushReads_Unchecked(r) ==
  /\ flush[r] = Reading
  /\ flush' = [flush EXCEPT ![r] = Writing(redis)]
  /\ Succeeds
  /\ UNCHANGED <<made, document, edited, storing, redis, pendingFlush, content, gateway,
                 bypassed>>

\* Without a state in Redis nothing is written.
FlushReads(r) ==
  /\ flush[r] = Reading
  /\ flush' = [flush EXCEPT ![r] = IF RedisUrl /\ redis # None THEN Writing(redis) ELSE Idle]
  /\ Succeeds
  /\ UNCHANGED <<made, document, edited, storing, redis, pendingFlush, content, gateway,
                 bypassed>>

FlushWrites(r) ==
  /\ flush[r].step = "write"
  /\ content' = flush[r].state
  /\ flush' = [flush EXCEPT ![r] = Idle]
  /\ Succeeds
  /\ UNCHANGED <<made, document, edited, storing, redis, pendingFlush, gateway, bypassed>>

\* Mutant: a failed document is not marked again.
FlushFails_Drops(r) ==
  /\ flush[r] # Idle
  /\ flush' = [flush EXCEPT ![r] = Idle]
  /\ Fails
  /\ UNCHANGED <<made, document, edited, storing, redis, pendingFlush, content, gateway,
                 bypassed>>

\* Redis or the database does not answer: the document is marked again.
FlushFails(r) ==
  /\ flush[r] # Idle
  /\ flush' = [flush EXCEPT ![r] = Idle]
  /\ pendingFlush' = TRUE
  /\ Fails
  /\ UNCHANGED <<made, document, edited, storing, redis, content, gateway, bypassed>>

(***************************************************************************)
(* script.update                                                           *)
(***************************************************************************)
\* Each update clears the timer of the one before it, whose update is dropped.
ScriptUpdate(e) ==
  /\ Makes(e)
  /\ timer' = {e}
  /\ UNCHANGED <<hocuspocus, content, merge, bypassed, bounds>>

\* The timer fires and updateScriptState reads the row; one at a time is a bound.
TimerFires ==
  /\ timer # None /\ merge = None
  /\ merge' = [seen |-> content, update |-> timer]
  /\ timer' = None
  /\ UNCHANGED <<made, hocuspocus, content, bypassed, bounds>>

MergeWrites ==
  /\ merge # None
  /\ content' = merge.seen \cup merge.update
  /\ merge' = None
  /\ bypassed' = TRUE
  /\ Succeeds
  /\ UNCHANGED <<made, hocuspocus, timer>>

MergeFails ==
  /\ merge # None
  /\ merge' = None
  /\ Fails
  /\ UNCHANGED <<made, hocuspocus, content, timer, bypassed>>

(***************************************************************************)
(* The process dies and starts again.  No shutdown hooks are enabled, so   *)
(* onModuleDestroy does not flush.  A set in flight may reach Redis.       *)
(***************************************************************************)
Restart ==
  /\ restarts < MaxRestarts
  /\ restarts' = restarts + 1
  /\ redis' \in IF storing = None THEN {redis} ELSE {redis, storing}
  /\ document' = None /\ edited' = FALSE /\ storing' = None /\ pendingFlush' = FALSE
  /\ flush' = [r \in Runs |-> Idle]
  /\ timer' = None /\ merge' = None
  /\ UNCHANGED <<made, content, bypassed, failures>>

Init ==
  /\ made = {}
  /\ document = None /\ edited = FALSE /\ storing = None
  /\ redis = None
  /\ pendingFlush = FALSE
  /\ flush = [r \in Runs |-> Idle]
  /\ content = {}
  /\ timer = None /\ merge = None
  /\ bypassed = FALSE
  /\ restarts = 0 /\ failures = 0

Next ==
  \/ Loads \/ LoadsFromRow \/ Unloads
  \/ \E e \in Edits : Edit(e) \/ ScriptUpdate(e)
  \/ StoreBegins \/ StoreEnds \/ StoreFails \/ Expires
  \/ \E r \in Runs : FlushBegins(r) \/ FlushReads(r) \/ FlushWrites(r) \/ FlushFails(r)
  \/ TimerFires \/ MergeWrites \/ MergeFails
  \/ Restart

Spec == Init /\ [][Next]_vars

\* The interval fires for ever and every call ends; Hocuspocus has edits stored.
FairSpec ==
  /\ Spec
  /\ WF_vars(StoreBegins) /\ WF_vars(StoreEnds)
  /\ \A r \in Runs :
       WF_vars(FlushBegins(r)) /\ WF_vars(FlushReads(r)) /\ WF_vars(FlushWrites(r))

-----------------------------------------------------------------------------
(***************************************************************************)
(* Properties                                                              *)
(***************************************************************************)

TypeOK ==
  /\ made \in States
  /\ document = None \/ document \in States
  /\ edited \in BOOLEAN
  /\ storing = None \/ storing \in States
  /\ redis = None \/ redis \in States
  /\ pendingFlush \in BOOLEAN
  /\ flush \in [Runs -> {Idle, Reading} \cup {Writing(state) : state \in States}]
  /\ content \in States
  /\ timer = None \/ timer \in States
  /\ merge = None \/ merge \in [seen : States, update : States]
  /\ bypassed \in BOOLEAN
  /\ restarts \in 0 .. MaxRestarts /\ failures \in 0 .. MaxFailures

\* What Redis holds and the row does not will be flushed without another edit.
Covered ==
  \/ redis = None
  \/ redis \subseteq content
  \/ storing # None \/ pendingFlush
  \/ \E r \in Runs : flush[r] = Reading \/ flush[r] = Writing(redis)

Stored(e) == e \in content \/ (redis # None /\ e \in redis)

\* A run is about to write a state older than the one the row has: it was overtaken.
Overtaken == \E r \in Runs : flush[r].step = "write" /\ ~(content \subseteq flush[r].state)

\* Collaborators' edits go one way, and each copy holds at least the next one's: until
\* script.update writes the row or a document is loaded past Redis, the document has
\* everything Redis has, and Redis everything the row has while its key lives.
CopiesAreOrdered ==
  ~bypassed =>
    /\ document # None /\ redis # None => redis \subseteq document
    /\ document # None => content \subseteq document
    /\ redis # None => content \subseteq redis

\* A stored edit is only ever lost when Redis drops a key that no flush was to write,
\* until script.update writes the row or a document is loaded past Redis.
StoredSurvives ==
  [][\A e \in Edits :
       ~bypassed' /\ Stored(e) /\ ~Stored(e)' => redis' = None /\ ~Covered]_vars

\* Only a restart, a run overtaken by a later one, or script.update makes the service
\* forget to flush what Redis holds ("ensuring durability").
NothingIsForgotten ==
  [][~bypassed' /\ Covered /\ ~Covered' => Overtaken \/ restarts' # restarts]_vars

\* An edit Redis has stored is not lost quietly: neither dropped nor left out of the
\* flush, save by the causes the two parts name.
NoQuietLoss == StoredSurvives /\ NothingIsForgotten

\* What Redis holds reaches the row, unless it is forgotten in those ways or lost.
StoredReachesRow ==
  \A e \in Edits :
    redis # None /\ e \in redis /\ Covered ~> e \in content \/ ~Covered \/ bypassed
=============================================================================
