# LiveOPS backend: a verification development

TLA+ models of the LiveOPS backend (NestJS, `src/src`), model-checked with TLC on
small instances and, for the modules that carry the program's core, proved with
TLAPS for every value of their constants.  This file has the inventory of the
system, what each module models and how, what each run and each theorem shows, and
what is left.

The process is one Node.js event loop over PostgreSQL (Prisma).  A turn of the loop
is atomic; everything hard happens between turns: an `await` in a handler, a timer,
a socket event, the end of an HTTP poll.  One action of a model is one turn, or one
SQL statement together with the turn that follows it.

## 1. Inventory

| component | state it keeps | operations | hard behaviour |
|---|---|---|---|
| OBS connection manager (`obs/`) | instances, the store and the production map, timers, sockets, `lastState`, `ObsConnection` rows | save, add, remove, reconnect, switch of engine, restart; attempts, retries, heartbeats, bootstrap, events | attempts and bootstraps that end after their instance was replaced; events that overtake the answers of the bootstrap; three inputs that are one master audio |
| OBS pollers (`obs-screenshot-poller`, `obs-stats-poller`) | timers | start, stop, tick | a screenshot in flight re-arms what stop cleared |
| vMix polling manager (`vmix/`) | instances, intervals, polls in flight, `VmixConnection` rows | save, switch of engine, restart; poll starts, succeeds, fails | a poll of a removed instance ends later and emits; thresholds on failures |
| Productions (`productions/`) | `Production` rows | create, clone, templates, update, updateState, rehearsal, remove, restore | check-then-write by id; a transaction that calls a service which writes outside of it |
| Streaming control (`streaming/`) | `activeEgressId`, `activeRecordingId`, `activeState`, schedules | start and stop of streams, recordings, destinations; scheduler | check, start outside, store the id; lost updates of JSON; overlapping ticks |
| SRS hub (`streaming/srs`) | the hubs and their child processes | start, stop, end of the ingest, process exit | an exit handled after the hub was replaced |
| Timeline, automation (`timeline/`, `automation/`, `hardware/`) | blocks, the debounce; rules, running rules, the execution log | create, start, complete, reset, reorder; tick, event, key | two active blocks; a swallowed announcement; a trigger skipped or fired twice |
| Guest slots (`guest/`) | invitations, slot configuration as a log | invite, join, update, preview, program, release | read-modify-append of the whole configuration; a take that is two commands to vMix |
| Script collaboration (`script/`) | document in memory, Redis, PostgreSQL; the pending set | store, flush, load, shutdown | Redis failing, flush interrupted by a restart |
| Presence (`websockets/`) | recorded sockets, lists of productions, grace timers | connect, identify, join, leave, disconnect, sweep | timers racing a return; a disconnect handled before the connect ends |
| Intercom (`intercom/`) | templates, commands, responses | seed, send, deliver, acknowledge | seeding twice or half |
| Social, Restream chat (`social/`) | comments, polls; tokens, one socket and its timers | moderate, vote; link, connect, retry | two on air, lost votes; a retry after stop, a late message or close of a socket that was replaced |
| Chat (`chat/`) | messages, pins, reactions | messages of OBS events, toggles of pins | two toggles at once |
| Overlays, sports (`overlays/`, `sports/`) | overlays, one match | activate, bind, score, clock | each writes the other |
| Video calls (`video-call/`) | calls and the recording of each | create, start, stop, record, remove | a recording nothing can stop |
| Authentication, users (`auth/`, `users/`) | users, tenants, sessions, codes | register, verify, log in, refresh, revoke, second factor | who is first; a token spent twice |
| Members, rehearsal, engine automation and tally, notifications, analytics, media, NDI, AI, audit, mail | rows and external services | | single statements or external calls |

They interact in three ways: direct calls (streaming and guest services call the
engine services, these the managers), events of one process-wide emitter
(`engine.connection.update`, `obs.connection.state`, `vmix.connection.state`,
`timeline.block.started`, `overlay.list_updated`, ...) which the gateways forward to
sockets and the automation engine matches against rules, and shared rows.

What makes each component correct: connections follow the rows and are never forgotten,
leaked or resurrected (OBS, vMix); whoever follows the announcements ends up knowing the
state (OBS, vMix, presence, timeline, guests); a production's status moves along
its state machine (productions); every external egress, recording or process is known to
the row or the map that could stop it (streaming, video calls, SRS, Restream); at most
one of what may only be one (active block, comment on air, poll, overlay); each trigger
and schedule acts once (automation, scheduler); what was written is not lost (guests,
script, pins, votes, failed logins).

The gateways of `/obs`, `/chat`, `/script`, `/intercom` and `/webrtc` are namespaces of
their own.  Their handlers are behind `WsAuthGuard`, which asks for `client.data.userId`,
and only `CoreGateway` sets it, for sockets of the default namespace; nor does a socket of
theirs join a production's room.  As the code stands their handlers of client messages are
refused and what they emit to a room reaches nobody.  Where the state behind such a handler
has other ways in, the modules keep the handler too, because it only adds behaviours to
them: `script.update` in `ScriptFlush`, statuses of the crew in `Presence`, commands in
`Intercom`.  What a property calls announced is what the process announced, to its emitter
or, in `Presence`, to the room of the default namespace; none says that a member sees what
another namespace emits.

Many of these hold only while requests do not overlap, because the code checks in one
statement and writes in another.  Each property therefore names the causes that part
what should agree, and says that there are no others.  A variable that records such a
cause (`overlapped`, `swallowed`, `wallRaces`, ...) is history: no guard reads it, and
it is set by the step that makes the cause true, from the state of the other requests.

## 2. The modules

### ObsConnections

`obs/obs-connection.manager.ts`, `obs-state.store.ts`, `obs-event-handler.ts` and the
requests of `obs.service.ts`.  An instance of the manager is an object of the pool
`Instances`: an attempt, a timer or a socket may hold on to it after the store has
dropped it, and it returns to the pool when nothing does.

| action | code |
|---|---|
| `SaveConnection`, `AddConnection`, `RemoveConnection`, `Reconnect`, `ReconnectPrimary` | the requests, each with the manager calls it makes |
| `SwitchEngine` | `engine.connection.update`, emitted by an update of the production without an address |
| `ConnectSucceeds`, `ConnectFails`, `BootstrapEnds` | the turns in which `connectObsById` resumes |
| `ConnectionClosed`, `HeartbeatFails`, `ReconnectTimerFires` | socket event, heartbeat, timer |
| `Restart` | `onModuleInit` after the process died |

Kept because the properties depend on it: the attempt's own copy of address and
password, so that the rejection of an attempt that was replaced arms a timer of the
*new* instance with the *old* configuration; listeners that teardown removes; a
bootstrap that ends after teardown.  Abstracted: scene and audio caches, statistics,
screenshots (`ObsRuntime` has these); a password is "as typed" or "encrypted".  The statement that
writes a row and the manager call after it are one step.

### VmixPolling

`vmix/vmix-connection.manager.ts`, `saveConnection` of `vmix.service.ts`, and the
event of `productions.service.ts`.  `connections` is the manager's map, `inst` the
instances, `announced` and `published` what a client that follows the events saw last.
`PollStarts`, `PollSucceeds` and `PollFails` are the halves of `pollApi` around its
await; `Tick` ages a run of failures by one unit, of which `FailureWindow` make five
seconds; `EngineToggles` is the engine itself.  `program` stands for the fields whose
change `pollApi` publishes.

### ProductionLifecycle

`productions.service.ts`, `productions-state.service.ts`, `production-state.machine.ts`
and `productions-templates.service.ts`.  Each of `Clients` is a request: the first
statement reads the row, the connections and the decision (`UpdateStateReads`,
`RemoveReads`, ...), the second writes by id (`Writes`).  `update` holds the row from
`UpdateBegins` to `UpdateCommits` or `UpdateRollsBack`, but its connections are written
at once, by another service on another connection.

Requests act on a stale read in three ways, all of one cause: a transition the machine does
not list (out of ARCHIVED among them), going live without an engine, and deleting what has
just gone live.  They are stated as "goes wrong only when stale" and
proved, instead of three counterexamples.

### CloudEgress

`streaming.service.ts` (starts and stops of streams, recordings and destinations),
`streaming-destinations.service.ts`, and the `activeState` column as `core.gateway.ts`
writes it.  LiveKit is external: `running` says which egresses go on.  Each of `Clients`
is a request, an action one of its calls: `StartReads` or `StopReads`, then the call to
LiveKit, the statement that stores or clears the id, and for destinations the one that
marks the row.  The ids of streams and recordings are columns (`column`); those of
destinations are one JSON value read and written as a whole (`noted`), which is why a
handler carries what it `seen`.  `Owned(e)` says that some request can stop `e`.
Requests that an engine serves natively touch no egress and are reduced to their mark.
The two calls of a start (`ensureRoomExists`, then the egress) are one, and the two
updates of a stop that fails are one.

`EgressStaysOwned` lists every way to lose an egress: a failing call that nothing rolls
back (`Unhandled`), a write or mark based on a stale read (`StaleWrite`, `StaleMark`), a
second start of a destination whose entry was read (`Restarts`), clearing the id of an
egress LiveKit did not stop (`Unstopped`), and an operator or client who removes the row
or overwrites the column (`Withdrawn`).  Each case is needed: with any one of them left
out, TLC answers `egress_owned` with a trace.

### ScriptFlush

`hocuspocus.service.ts`, `script.service.ts` and `script.gateway.ts`, for one document.
A Yjs state is the set of edits it holds; merging is union.  `Loads`, `StoreBegins`,
`StoreEnds` and `StoreFails` are the hooks of Hocuspocus (external: when they run),
`FlushBegins`, `FlushReads`, `FlushWrites` and `FlushFails` the turns of
`flushPendingToDB`, of which several `Runs` may overlap because `@Interval` does not
wait; `ScriptUpdate`, `TimerFires` and `MergeWrites` the path of `script.update`, which
drops the update whose timer it clears.  `Restart` loses what is in memory; no shutdown
hooks are enabled, so the last flush of `onModuleDestroy` is not part of it.  A key
expires only when no flush is due, which is what its comment asks of the TTL.
`bypassed` is a history variable: script.update has written the row, or a document was
loaded past Redis.  From then on copies may overwrite each other and the properties
promise nothing.  Edits that collaborators would send again from their own copies are
not given back by the model.

### Timeline and RuleEngine

`Timeline` is `timeline.service.ts`: `Finds` is the first statement of every request,
`CompletesActive`, `Activates` and `StartAnnounced` the three parts of `startBlock`,
`Writes` the second statement of the others, `DebounceFires` the one debounce that all
productions share.  `RuleEngine` extends it with `automation-engine.service.ts`, the
executor, the rows of rules and the keys of `hardware.service.ts`: a tick (`TickBegins`,
`TickReads`, `TickAsks`, `TickResumes`) computes what is due from the time it began with
and asks the log pair by pair; a run (`ActionsSucceed`, `LogIsWritten`, ...) writes its
log after its actions.  `overtaken` are the ticks that had asked the log about a start
before its success was in it, so that only such a tick, and not any tick once the log
exists, may run the rule again.  The clock counts seconds; `run` of a block tells its starts
apart.  The listener for `**` that feeds `handleEvent` is external; conditions are the
set of the events that satisfy them; trigger types that nothing emits are left out.
The log of an instant clip always fails, because it names a rule that does not exist.

### StreamScheduler

`stream-scheduler.service.ts` and the rows of schedules, over `CloudEgress`: a tick is
one of its `Clients` while it awaits a start or a stop, so the theorems of `CloudEgress`
are about its calls too.  `isExecuted` is set by a tick and never reset, by
`updateSchedule` neither: a schedule that ran once and is moved does not start again.
No doc says it should, so nothing is stated about it.

### SrsHub

`srs.service.ts`, the webhook of the ingest's end and the choice of sources of
`ffmpeg-compositor.service.ts`.  `stopHub` and the spawns after it are one turn.  FFmpeg
catches SIGTERM and may end with a code of its own, so the exit handler cannot always
tell that the process was told to end.  The comment at `srs.service.ts:289`
("Auto-restart once") is about each exit: restarts are not counted.  A restart of the
backend is not modelled.

### ObsRuntime

One OBS connection while it is up: the bootstrap awaits its questions together and
writes their answers over whatever events have written meanwhile; `PollBegins` and
`PollEnds` are the screenshot loop, whose `finally` looks at `isConnected`, which a
teardown leaves TRUE.  The order of messages is that of one socket (external).  When
connections come and go is left open here and is the subject of `ObsConnections`.

What OBS shows has *sources*, what clients are given has *fields*, and a field holds a
`Reading`, a value and the source it is of.  Scene and output are their own source.  The
master audio has every master input for a source: the bootstrap asks the code's three names
in order and takes the first that answers (`Asked`, and `Rejects` for the next one), while an
event of any of them overwrites the field (`EventArrives`).  `MasterInputs` are those OBS has,
`FirstInput` the first of them in the code's order; volume and mute are two fields of the
same kind, of which `audio` stands for either.  `changes` numbers what OBS does, so that a
value tells which change it is of.  `MirrorIsCurrent` is about the source of the reading: no
reading of the microphone is taken for one of the desktop audio, and each is what OBS shows
of *its* source.  That after an event of another input the master audio is that other
input's is what the code does and is not called wrong.  An OBS without any of the three
inputs keeps the default for ever and is left out.

### GuestSlots

`guest.service.ts` for one production, with the engine as its commands change it.  A patch
is a return feed and a status.  `envelope` is the latest row of the log.  With vMix, a take
is `SelectsInput` (the input goes to vMix' preview) and `Cuts` (preview and program change
places), each awaited; a preview is the first alone, so previews and takes of other slots
come between the two commands of a take.  With OBS a take is one command (`SwitchesScene`).
A preview goes on as an update, which looks its invitation up again (`LooksUp`).  `overtaken`
tells of a take that another's command has come between, besides requests whose reading
another has written over.  A slot is taken to have an input and a scene of its own, as when
the configuration names them; the default, the slot's place in the list, moves when an
earlier invitation goes and is not modelled.  What operators do at the engine itself is left
out.  The two listings that an update makes are one.  Requests with a production's id as a
token write nothing, expired tokens are refused.

### Scoreboard

`overlays.service.ts` and `sports.service.ts`: one score stands for the bound layers.
Writing an overlay makes the match read its score from the active one, and a new score
is written into the layers of the active one.  `updateMatch` may set `isRunning` without
a timer, as in the code.

### Presence and Roster

`presence.service.ts` and the handlers of `core.gateway.ts` and `intercom.gateway.ts`
that call it.  `asking` holds what a socket has asked the database: connecting and
joining may be recorded after the disconnect was handled, and a connection recorded
after its disconnect stays recorded until a restart.  `Roster` is the abstract promise:
a user whose last connection goes is shown as reconnecting, in one production, until
the user is back or the time is up.  `Presence` implements it through
`Online` and `RosterOf`; the refinement is checked and proved.

### Accounts and SignIn

`Accounts`: registration, the first login by OAuth, verification mails and what
administrators do.  The comment at `auth.service.ts:70` ("First user creates the org
tenant; all subsequent users join that tenant.") is the property; a failed first
registration, two at once and users who come by OAuth (each in a tenant of their own)
are its three causes.  Roles are assumed seeded, forms of roles are not modelled.  `SignIn`: logins,
sessions, the second factor and forgotten passwords of one user.  Whether a password or
code is right is left open; a secret generated again while enabled is the same secret.

### RestreamChat and SocialWall

`RestreamChat`: `connectProduction` in its four awaits, the socket's events, the timers,
and linking.  A socket that was asked to close is *closing* until it reports it, and its
messages are still handled: each clears the heartbeat timer the map knows, which may be its
successor's, and puts its own there.  The property promises the known timer to the open
socket or, after such a message, to the closing one, and no third.  The reconnect timer is
never cancelled; `close` deletes the heartbeat's entry without clearing it.  A refresh that
fails in that timer rejects unhandled, which ends the process: the model restarts it.

`SocialWall`: comments, of which one may be on air, and polls.  Every status but ON_AIR hides the graphics, of
whichever comment.  The transaction of a vote is at READ COMMITTED, so a vote is a
read and a write.  The external id of a comment is unique: a second ingest throws.

### Intercom, VideoCalls, ChatPins

`Intercom`: templates with their seeding, commands with deliveries and answers; a group
is a row per target, and a failure after the first rows is reported as an error of all.
A seeding that failed half way is never completed.  `VideoCalls`: one call and its
recording; LiveKit refuses to stop an egress that has ended, so a recording it ended by
itself keeps its id in the row and blocks both start and stop until a form clears it.
`ChatPins`: the messages that are written about OBS events and the pins, toggled over HTTP by
a read and a write.  `odd` counts the toggles of a message by their parity.  Reactions are
single statements behind a unique key.  What `chat.gateway.ts` emits is not modelled, as
no socket of its namespace is in the room it emits to.

## 3. What the runs show

| run | question | bounds | result |
|---|---|---|---|
| `obs_safety` | can any order of attempts, timers, drops and requests forget, leak or resurrect a connection, or leave clients with the wrong state of it? | a production, two connections, three instances, three requests, one restart | holds |
| `obs_liveness` | is a stored connection attempted until it is up? | one connection, under `FairSpec` | holds |
| `obs_remove` | does removing a connection leave the others? | two connections | violated: it stops them all |
| `vmix_safety` | do intervals, rows and events stay in step? | two addresses, two instances and polls in flight on both | holds |
| `vmix_engine` | is a loss announced only when sustained, and does the state follow an engine that stays up or down? | a history of failures beside the manager; fair ticks and polls | holds |
| `prod_races` | does the state of a production go wrong in any way but a stale read? | two productions, two clients, five requests | holds |
| `prod_bypass` | does every change of status follow the state machine? | one production, one client | violated: the form of `update` carries a status |
| `egress_owned` | which interleavings leave an egress running that no request can stop? | a stream, a recording and two destinations, three egresses, two requests at a time, four in all, one failing call | only the listed ones |
| `script_flush` | can a stored edit be lost, or forgotten on its way to the row? | three edits, two overlapping runs, two restarts, two failing calls; `FairSpec` | only in the listed ways |
| `rundown` | is one block active, is every change announced, and does a time trigger run its rule once? | two blocks, two productions on one debounce, two requests beside a tick or two ticks beside a request, one rule | only the listed exceptions |
| `room` | what people do: presence, accounts, logins, Restream, comments, commands, calls, pins | two requests at a time in each component, three sockets | only the listed exceptions; `Presence` implements `Roster` |
| `studio` | what runs beside the engines: schedules, hubs, OBS connections that are up, guests, overlays with their match | two ticks over a schedule, four processes, two objects and two master inputs, two guests on vMix or OBS, two overlays | only the listed exceptions |

What each property of a passing run says:

* `ConnectionsAreHeld`: a stored instance has an attempt, a timer or a socket that will
  act on it, `disconnectObs` reaches it, and once it is up its heartbeat runs.
  `NoResurrection`: nothing left over from before a disconnect brings it back.
  `ConnectedIsAnnounced`: the last event says what the store says.
* `PollingFollowsRow`: intervals and map entries are the same, and those of the rows.
  `StateEventsAgree`, `ProgramEventsAgree`: what was emitted last is what the manager
  holds, but for a poll of a removed instance.  `LossIsSustained`, `EngineIsReflected`.
* `WritesGoWrongOnlyWhenStale`: a transition the machine does not list, going live
  without an engine and deleting what is live all met a row other than the one read.
* `EgressStaysOwned`: see CloudEgress above.
* `CopiesAreOrdered`, `NoQuietLoss`, `StoredReachesRow`: the row never holds more than
  Redis, a stored edit is lost only in the listed ways, and else it reaches the row.
* `OneActiveBlock`, `ChangesAreAnnounced`, `DueTriggersRunOnce`: save two starts between
  each other's statements; a replaced debounce, a start that fails at its last
  statement or a restart; and, for a trigger that does not run, a rule deleted or
  executing for another reason, a log of another run of the block, or a restart, and for
  one that runs again, a success that left no log, a rule deleted under a tick, or a tick
  that had asked the log before the success was in it.  Ticks that ignore the log break it.
* `RosterIsKept`, `ChangesAreBroadcast`: nobody vanishes from a production unseen, and
  its members hear of every change but those of four listed kinds.
* `AccountsAgree`, `SignInAgrees`, `OneChatConnection`, `WallAgrees`,
  `TemplatesAreSeeded`, `RecordingStaysOwned`, `PinsAreToggled`, `SlotsAreKept`,
  `ScoreIsShown`, `SendersAreHeld`, `MirrorIsCurrent`, `PollingFollowsConnection`,
  `SchedulesActOnce`: each is stated, with its exceptions, above its definition.

`room` and `studio` hold several components that share no state: the first state
chooses one, whose steps are taken while the others rest, so the number of states is
the sum, not the product, of theirs, and every component is explored as if alone.  Their
constants share model values so that one group of symmetries serves all; the objects of
`ObsRuntime` are interchangeable too.  Its master inputs are not: one of them is the first.

Why the bounds are enough.  Two clients or two requests make every race there is
between a check and a write; the third request of `obs_safety` lets a replaced
attempt meet a replacement that is replaced again.  The pool must have one more
object than the store can hold, or orphans never happen; a restart more than once
meets no state the first one did not.  `FailureWindow` and `DisconnectAfter` are small
but at least two, so that count and window can cross their thresholds in either order.
In `rundown` two requests overlap beside one tick at a time, or two ticks beside one
request: a tick does not wait for the run it starts, so one tick meets the late log of an
earlier run of its block, and of two the one that has asked meets the log of the other.
Requests are counted so that one may begin before, between and after the statements of
another two.  The components of `room` and of `studio` were also explored one by one
with more requests and failures than the configurations have (the largest of them,
presence, runtime and guests, not to the end): no property failed.
Runs set `CHECK_DEADLOCK FALSE` only because the bounds on requests end them.

The violations are disagreements between a comment, a message or a stated rule and
the code; `PROJECT.json` quotes each under "findings".  Three smaller ones have no run:

* `vmix-connection.manager.ts:356` says connection state is emitted "ONLY on
  transition"; a poll in flight when its instance is removed emits `connected: true`
  for it once more.
* `obs.service.ts:152` says "Re-pass decrypted password for the reconnect"; after a
  restart the instance has the encrypted one of the row, with which the line before it,
  `manualReconnect`, dials, and with which the retry of that attempt dials again.
* `hocuspocus.service.ts` falls back to the database alone when Redis is missing; the
  flush takes what it writes from Redis, so in this mode no edit reaches the row.

### Fairness

The event loop runs every timer that is due and settles every promise, so the ends of
attempts and polls and the firing of timers are weakly fair.  Nothing is assumed of
operators, and of engines only what the property's premise says.  The interval of the flush fires again and
every call to Redis or the database ends, so the steps of a run and of a store are weakly
fair; that Hocuspocus eventually has an edit stored is its debounce.  The OBS timer is
strongly fair for one reason, the finite pool: a fire that finds no free object is
disabled in the model and never in the code.  vMix ticks and polls are weakly fair.

## 4. What is proved

The modules `*Proofs`, for every value of the constants, from the named assumptions of
the modules they extend and nothing else unless stated: that the sets of constants are
what their comments say, that `None` and its like are not in them, and not among rows.

* **OBS** (`ObsConnectionsProofs`).  `TypeCorrectness`, `ConnectionsStayHeld` (from
  `NothingForgotten`, `AllCanBeStopped`, `AllWatched`), `NothingResurrects`.  The
  invariant adds to the properties what they need to survive a step: an instance and
  the store name each other (`Linked`), only stored instances act (`OnlyStoredActs`), an
  attempt has its configuration (`PendingHasConn`), the production map leads to the
  store (`Mapped`), what is up has a socket whose closing is heard (`UpHasSocket`), a
  bootstrapped connection has its heartbeat (`RunningIsWatched`), and what is stored has
  something that will act on it (`Served`).  `UpIsAnnounced` (`ConnectedIsAnnounced`) adds
  that a pending attempt is down (`ConnectingIsDown`): then every step but a successful
  attempt is `Calm`, that is, a connection up and alone in the map after it was so before,
  and no step withdraws its announcement.
* **vMix** (`VmixPollingProofs`).  `TypeCorrectness`, `RowsArePolled` (from
  `NoLeakedPolling`, `RowsAreFollowed`), `EventsAgree`.  The invariant is that intervals
  and map entries are the same set and that an instance knows its production, so a poll
  that ends speaks for the production whose entry it is, or is an orphan.
  `ProgramIsPublished` (`ProgramEventsAgree`) follows from the same.  `LossesAreSustained`
  (`LossIsSustained`, over the history of `MCVmixLoss`): what an instance that is up counts
  is at most what the history remembers, and one without an address is never up; without
  the second a failure of a poll that never left the process would count too (`LossInv`).
* **Productions** (`ProductionLifecycleProofs`).  `TypeCorrectness`; and
  `WrongTransitionsAreStale`, `DeletedActiveIsStale` and `WrongWritesAreStale`, the
  conjunction of both, under `StatusLeftOut` (forms of update carry no status; the run
  `prod_bypass` shows why it is needed).  The invariant `Justified` records that what a
  handler is about to write was allowed by the row it read: whatever goes wrong met
  another row.
* **Egresses** (`CloudEgressProofs`).  `TypeCorrectness`, whose `Holding` says that a
  request has the egress its next call is about and a stop of a destination the one it
  read; `EgressesStayOwned` follows step by step: `GivenUp` shows that while the rows
  stay only the request that moves can give an egress up, and the steps that write rows
  are compared with what their request read.
* **Script** (`ScriptFlushProofs`).  `TypeCorrectness`, `CopiesStayOrdered`,
  `LossIsNeverQuiet` (from `StoredIsKept`, `NothingElseForgets`).  The invariant orders
  every copy: row, Redis key, set in flight, document, and what a run of the flush is
  about to write is at most the key.  The copies in flight are what the property itself
  cannot see.
* **Rundown** (`RundownProofs`, about the whole of `RuleEngine`).  `TypeCorrectness`,
  `OneBlockIsActive`, `ChangesAreNotForgotten`.  The second is not inductive alone: a
  production with a start between its two statements has no active block, and one such
  start at most, unless it is in `overlapped`.  The third is inductive over the types.
  Typing the engine needs that a run about to write its log is in `ran` (`LogsComeLast`).
  `TriggersRunOnce` is the action property `DueTriggersRunOnce`.  Its invariant
  `TriggersInv` says that the number of a block's run and its starts under way are
  within the number of requests (`RunsAreRequested`, which counts and so assumes
  `ClientsAreFinite`), so that what is due is never about a run to come (`HasBegun`),
  even when a block's id is given again; that every success is logged, is about to be,
  or was lost (`RanIsKnown`); and that the answer a tick holds is still true.
* **Room** (`RoomProofs`, component by component, then the composition `MCRoom`).
  * Presence.  `RosterIsImplemented` (`RosterIsKept`): the initial state maps to Roster's,
    and each action to a step of Roster or a stutter.  The invariant it needs is the last
    part of `PresenceTypeOK`: nobody is recorded and in the grace period at once.  A user's
    row of the roster changes only with that user's own sockets and timer, which
    makes each action a statement about one row.  `ChangesAreTold` (`ChangesAreBroadcast`)
    adds that a socket is associated with the production whose room it is in.
  * Calls.  `RecordingIsOwned`.  While no flaw was recorded there is one start at a time, a
    stop that LiveKit has answered is the only one and holds the id of the row, and nothing
    else writes the row under either (`CallIInv`).
  * Pins.  `NoToggleIsLost` (`PinsAreToggled`).  A message whose toggles have not met has one
    toggle at most in progress, which holds the negation of the row (`PinIInv`).
  * Accounts.  `AccountsAreInOneWorkspace` (`AccountsAgree`).  Of the requests in progress
    each is placed: it will create the first workspace, or join it; and a mail on its way
    carries the code of its row (`AccountIInv`).
  * Logins.  `SignInsAgree` (`SignInAgrees`).  For each kind of row (session, failed
    attempts, second factor) what requests in progress have read is still so, unless two of
    them met at it (`SignInIInv`).
  * Intercom.  `DefaultsAreSeeded` (`TemplatesAreSeeded`).  One listing seeds, and each
    default is there or in its list (`IntercomIInv`).
  * Restream.  `ChatHasOneSocket` (`OneChatConnection`).  Until runs or sockets overlap there
    is one run at most, none beside a socket, the open socket is the one of the map, and a
    timer the map knows of another socket is that of one still closing (`RestreamIInv`).  It
    counts the reconnects owed, so it assumes finitely many sockets.
  * Wall.  `WallIsConsistent` (`WallAgrees`).  What a request has taken off air is still off
    when it writes, and a vote holds the tally as it still is (`WallIInv`).
  * `RoomTyped` (`RoomTypeOK`) and `RoomIsSafe`: the composition implements each component
    (`RoomImplementsComponents`), and so keeps all of the above.
* **Studio** (`StudioProofs`, the same for `MCStudio`).
  * Scheduler.  `SchedulesStartOnce` (`SchedulesActOnce`), over the lemmas of
    `CloudEgressProofs`.  `CallsAreMarked`: a call that succeeded is in the row of its schedule, in
    a tick about to mark it, or could not be marked.  `Fresh`: what a tick has yet to call
    for has not been called for, or the tick has crossed that call.
  * Hubs.  `SendersHeld` (`SendersAreHeld`).  What sends is held or told to end, and what a
    hub holds is its own: an exit handled late finds another process in its place.
  * Runtime.  `MirrorFollows` (`MirrorIsCurrent`), `LoopsFollowConnection`
    (`PollingFollowsConnection`).  What OBS shows of a source is what the last message about
    it on the wire says; when none is on its way, it is what the instance holds or its bootstrap
    is about to write, if that is a reading of this source and not late (`Follows`, `Sound`).
    What is not late has been read, from a source of its field (`Known`).  The lemmas
    `AppendEffect` and `TailEffect` say what a message more or less changes of that.
  * Guests.  `SlotsAgreeAtRest` (`SlotsAreKept`).  A request that no other has overtaken has
    read the latest configuration, announces the list as it is, and holds on air the guest it
    takes there (`RequestAgrees`); while no blemish was recorded, wherever slot, engine,
    invitation and list disagree, such a request is under way to settle it (`SlotsAgree`).
    Between its two commands a take that was not overtaken has its guest in the preview.
  * Overlays.  `MatchIsShown` (`ScoreIsShown`).  Without flaws one request works on the
    overlays, and what it will activate or write is about the only active one (`ScoreAgrees`).
  * `StudioTyped` (`StudioTypeOK`) and `StudioIsSafe`, as for the room.

Several of these needed the model to say what its comments said already: a
constant that stands for "no row" is not a row (`NoAccountIsNoRow`, `NoSessionIsNoRow`,
`NoSlotIsNothing`, `NoScheduleIsNoRow`, and `RuntimeAssumption` for values and bounds).

In most of the properties the flaws they list are history.  The invariants therefore have
the form "types, and, while no flaw was recorded, the parts agree", where the second half
speaks of requests in progress, which the property cannot see; that a step breaks the
agreement only by recording a flaw is what the proof of each step shows.

Only model-checked: the three liveness properties, `RetriesIndefinitely`,
`EngineIsReflected` and `StoredReachesRow` (fairness and ENABLED are beyond the prover), and
of course the violations.  Every other property of the passing runs is a theorem.

## 5. What is not modelled

* Members and rehearsal, deleting templates, the public status flag, notifications,
  analytics, media, NDI, audit: single statements behind a key, or rows that are only
  appended and read.
* Engine automation and tally, commands forwarded to an engine, signalling, awareness,
  typing: events that pass through and leave no state in this program.
* AI, mail, files and devices: calls to services outside.  Encryption, TOTP and password
  hashes are pure functions and stand behind "right" and "wrong".
* Roles and the cached check of permissions; the history snapshots of scripts.
* Restarts of the backend in `SrsHub`, `ObsRuntime`, `StreamScheduler`, `GuestSlots` and
  the modules of `room` other than `Presence` and `RestreamChat`: what these keep between
  requests is in rows, or ends with the process; a request that dies half way is, where
  requests may fail, a failure of its next call.

Worth doing next: a composition of `ObsRuntime` with `ObsConnections`, whose connections
come and go by the manager's rules rather than at any time.
