-------------------------------- MODULE Timeline --------------------------------
(***************************************************************************)
(* The blocks of the rundowns: src/timeline/timeline.service.ts.           *)
(*                                                                         *)
(* A request is two statements: it looks for the block, then writes it.    *)
(* startBlock is three: it also completes the blocks that are active, and  *)
(* announces the change only after the audit log has answered.  Changes    *)
(* are announced through one debounce that all productions share.          *)
(***************************************************************************)
EXTENDS Naturals

CONSTANTS
  Productions,   \* ids of productions
  Blocks,        \* ids a block may get
  ProductionOf,  \* the production of each block
  Durations,     \* values of durationMs, in seconds
  Clients,       \* requests that may run at the same time
  None,          \* null
  MaxRequests,   \* bound on requests
  MaxTime        \* bound on the clock

ASSUME TimelineAssumption ==
  /\ ProductionOf \in [Blocks -> Productions]
  /\ Durations \subseteq Nat
  /\ None \notin Productions \cup Nat \cup Blocks
  /\ MaxRequests \in Nat /\ MaxTime \in Nat

VARIABLES
  block,       \* the TimelineBlock rows, None when there is none
  request,     \* what each request holds between its statements
  pending,     \* the production the debounce will announce, None when it is quiet
  changed,     \* productions with a change not announced since
  swallowed,   \* those whose announcement was replaced or never made
  overlapped,  \* productions two of whose starts ran between each other's statements
  now,         \* the clock, in seconds
  requests     \* requests so far

timelineVars ==
  <<block, request, pending, changed, swallowed, overlapped, now, requests>>

BlockStatus == {"PENDING", "ACTIVE", "COMPLETED"}

\* A row; run stands for the id and the milliseconds of startTime: it tells starts apart.
TimelineBlock ==
  [status : BlockStatus, duration : Durations, startTime : (0 .. MaxTime) \cup {None},
   run : Nat]

ASSUME NoneIsNoBlock == None \notin TimelineBlock

Operations == {"start", "complete", "reset", "update", "delete"}

Requesting == [op : Operations, block : Blocks, step : {"write", "activate", "announce"}]

Idle == [step |-> "idle"]

At(c, step) == request[c] # Idle /\ request[c].step = step

RequestOf(c) == ProductionOf[request[c].block]

Active(p) ==
  {b \in Blocks : ProductionOf[b] = p /\ block[b] # None /\ block[b].status = "ACTIVE"}

Changes(p) == changed' = changed \cup {p}

\* Mutant: the debounce forgets whom it was about to announce without a trace.
Announces_PerCall(p) ==
  /\ pending' = IF pending = None THEN p ELSE pending
  /\ swallowed' = IF pending \in {None, p} THEN swallowed ELSE swallowed \cup {pending}

\* emitTimelineUpdated: the debounce keeps the last of the productions it is given.
Announces(p) ==
  /\ pending' = p
  /\ swallowed' = IF pending \in {None, p} THEN swallowed ELSE swallowed \cup {pending}

\* A request that ends before it has announced what it wrote.
GoesUnannounced(p) ==
  /\ swallowed' = IF p \in changed THEN swallowed \cup {p} ELSE swallowed
  /\ UNCHANGED pending

Quiet == UNCHANGED <<pending, swallowed>>

CreateBlock(b, duration) ==
  /\ requests < MaxRequests /\ requests' = requests + 1
  /\ block[b] = None
  /\ \A c \in Clients : request[c] # Idle => request[c].block # b
  /\ block' = [block EXCEPT ![b] =
       [status |-> "PENDING", duration |-> duration, startTime |-> None, run |-> requests']]
  /\ Changes(ProductionOf[b]) /\ Announces(ProductionOf[b])
  /\ UNCHANGED <<request, overlapped, now>>

ReorderBlocks(p) ==
  /\ requests < MaxRequests /\ requests' = requests + 1
  /\ Changes(p) /\ Announces(p)
  /\ UNCHANGED <<block, request, overlapped, now>>

\* findFirst; startBlock refuses a block that is active, and no other status.
Finds(c, op, b) ==
  /\ requests < MaxRequests /\ requests' = requests + 1
  /\ request[c] = Idle
  /\ block[b] # None
  /\ op = "start" => block[b].status # "ACTIVE"
  /\ request' = [request EXCEPT ![c] = [op |-> op, block |-> b, step |-> "write"]]
  /\ UNCHANGED <<block, pending, changed, swallowed, overlapped, now>>

\* Mutant: the blocks are looked for by id, not by production.
CompletesActive_ById(c) ==
  LET p == RequestOf(c)
  IN /\ At(c, "write") /\ request[c].op = "start"
     /\ block' = [b \in Blocks |->
          IF b \in Active(p) \cap {request[c].block}
          THEN [block[b] EXCEPT !.status = "COMPLETED"] ELSE block[b]]
     /\ overlapped' =
          IF \E d \in Clients \ {c} : At(d, "activate") /\ RequestOf(d) = p
          THEN overlapped \cup {p} ELSE overlapped \ {p}
     /\ request' = [request EXCEPT ![c].step = "activate"]
     /\ changed' = IF Active(p) # {} THEN changed \cup {p} ELSE changed
     /\ Quiet
     /\ UNCHANGED <<now, requests>>

\* Mutant: the other requests take this step too.
CompletesActive_AnyOp(c) ==
  /\ At(c, "write")
  /\ request' = [request EXCEPT ![c].step = "activate"]
  /\ Quiet
  /\ UNCHANGED <<block, changed, overlapped, now, requests>>

\* startBlock, updateMany of the active blocks of the production.
CompletesActive(c) ==
  LET p == RequestOf(c)
  IN /\ At(c, "write") /\ request[c].op = "start"
     /\ block' = [b \in Blocks |->
          IF b \in Active(p) THEN [block[b] EXCEPT !.status = "COMPLETED"] ELSE block[b]]
     /\ overlapped' =
          IF \E d \in Clients \ {c} : At(d, "activate") /\ RequestOf(d) = p
          THEN overlapped \cup {p} ELSE overlapped \ {p}
     /\ request' = [request EXCEPT ![c].step = "activate"]
     /\ changed' = IF Active(p) # {} THEN changed \cup {p} ELSE changed
     /\ Quiet
     /\ UNCHANGED <<now, requests>>

\* startBlock, update of its own block; timeline.block.started is emitted.
Activates(c) ==
  LET b == request[c].block
  IN /\ At(c, "activate")
     /\ block[b] # None
     /\ block' = [block EXCEPT ![b].status = "ACTIVE", ![b].startTime = now, ![b].run = @ + 1]
     /\ request' = [request EXCEPT ![c].step = "announce"]
     /\ Changes(RequestOf(c)) /\ Quiet
     /\ UNCHANGED <<overlapped, now, requests>>

\* startBlock after the audit log: timeline.updated goes to the debounce.
StartAnnounced(c) ==
  /\ At(c, "announce")
  /\ request' = [request EXCEPT ![c] = Idle]
  /\ Announces(RequestOf(c))
  /\ UNCHANGED <<block, changed, overlapped, now, requests>>

\* What the other requests write.
Written(op, row, duration) ==
  CASE op = "complete" -> [row EXCEPT !.status = "COMPLETED"]
    [] op = "reset"    -> [row EXCEPT !.status = "PENDING", !.startTime = None]
    [] op = "update"   -> [row EXCEPT !.duration = duration]
    [] op = "delete"   -> None

Writes(c) ==
  LET b == request[c].block
  IN /\ At(c, "write") /\ request[c].op # "start"
     /\ block[b] # None
     /\ \E duration \in Durations :
          block' = [block EXCEPT ![b] = Written(request[c].op, block[b], duration)]
     /\ request' = [request EXCEPT ![c] = Idle]
     /\ Changes(RequestOf(c)) /\ Announces(RequestOf(c))
     /\ UNCHANGED <<overlapped, now, requests>>

\* The row was deleted since it was found: the statement throws.
BlockIsGone(c) ==
  /\ At(c, "activate") \/ (At(c, "write") /\ request[c].op # "start")
  /\ block[request[c].block] = None
  /\ request' = [request EXCEPT ![c] = Idle]
  /\ IF At(c, "activate") THEN GoesUnannounced(RequestOf(c)) ELSE Quiet
  /\ UNCHANGED <<block, changed, overlapped, now, requests>>

\* 500 ms after the last change of any production: timeline.updated reaches the room.
DebounceFires ==
  /\ pending # None
  /\ changed' = changed \ {pending}
  /\ swallowed' = swallowed \ {pending}
  /\ pending' = None
  /\ UNCHANGED <<block, request, overlapped, now, requests>>

Clock ==
  /\ now < MaxTime /\ now' = now + 1
  /\ UNCHANGED <<block, request, pending, changed, swallowed, overlapped, requests>>

\* The process dies and starts again: requests and the debounce are gone.
Restart ==
  /\ request' = [c \in Clients |-> Idle]
  /\ pending' = None
  /\ swallowed' = changed
  /\ UNCHANGED <<block, changed, overlapped, now, requests>>

TimelineInit ==
  /\ block \in [Blocks ->
       {[status |-> "PENDING", duration |-> d, startTime |-> None, run |-> 0] : d \in Durations}]
  /\ request = [c \in Clients |-> Idle]
  /\ pending = None
  /\ changed = {} /\ swallowed = {} /\ overlapped = {}
  /\ now = 0
  /\ requests = 0

\* Every step but a restart and the one that emits timeline.block.started.
OtherTimelineNext ==
  \/ \E b \in Blocks, d \in Durations : CreateBlock(b, d)
  \/ \E p \in Productions : ReorderBlocks(p)
  \/ \E c \in Clients :
       \/ \E op \in Operations, b \in Blocks : Finds(c, op, b)
       \/ CompletesActive(c) \/ StartAnnounced(c) \/ Writes(c) \/ BlockIsGone(c)
  \/ DebounceFires
  \/ Clock

TimelineNext == OtherTimelineNext \/ Restart \/ \E c \in Clients : Activates(c)

TimelineSpec == TimelineInit /\ [][TimelineNext]_timelineVars

-----------------------------------------------------------------------------
(***************************************************************************)
(* Properties                                                              *)
(***************************************************************************)

\* The types of the state; only a start has a second statement.
TimelineTypeOK ==
  /\ block \in [Blocks -> TimelineBlock \cup {None}]
  /\ request \in [Clients -> Requesting \cup {Idle}]
  /\ pending \in Productions \cup {None}
  /\ changed \subseteq Productions
  /\ swallowed \subseteq Productions
  /\ overlapped \subseteq Productions
  /\ now \in 0 .. MaxTime
  /\ requests \in 0 .. MaxRequests
  /\ \A c \in Clients : request[c] # Idle /\ request[c].step # "write" => request[c].op = "start"

\* startBlock keeps one block of a production active, unless the statements of two starts
\* ran between each other; the next start that runs alone repairs even that.
OneActiveBlock ==
  \A p \in Productions \ overlapped : \A b1, b2 \in Active(p) : b1 = b2

\* A change of a rundown is on its way to the room: its production waits in the debounce, a
\* start has yet to announce it, or the announcement was lost in one of three ways: another
\* production took its place in the debounce, a start failed at its last statement, or the
\* process was restarted.
ChangesAreAnnounced ==
  \A p \in changed :
    \/ pending = p
    \/ p \in swallowed
    \/ \E c \in Clients : request[c] # Idle /\ request[c].step # "write" /\ RequestOf(c) = p

=============================================================================
