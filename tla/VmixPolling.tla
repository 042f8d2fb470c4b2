------------------------------ MODULE VmixPolling ------------------------------
(***************************************************************************)
(* The runtime manager of vMix engines, which are polled over HTTP:        *)
(*   src/vmix/vmix-connection.manager.ts   polling loop and its instances  *)
(*   src/vmix/vmix.service.ts              saveConnection                  *)
(*   src/productions/productions.service.ts   engine.connection.update     *)
(*                                                                         *)
(* A poll starts in one turn of the event loop and ends in another.        *)
(* disconnectVmix clears the interval but not the poll in flight, so an    *)
(* instance that is no longer in the map may still end one, and then emits *)
(* for its production as if it were the current one.                       *)
(*                                                                         *)
(* Abstracted: the XML.  program stands for the fields a change of which   *)
(* is published (active and preview input, streaming, recording, number of *)
(* inputs).  Time is the age of a run of failures, in units of which       *)
(* FailureWindow make DISCONNECT_AFTER_MS.                                 *)
(***************************************************************************)
EXTENDS Naturals

CONSTANTS
  Productions,      \* production ids
  Urls,             \* engine addresses
  Programs,         \* what a poll can read
  Instances,        \* identities of VmixInstance objects
  None,             \* undefined / absent
  DisconnectAfter,  \* DISCONNECT_AFTER_FAILURES
  FailureWindow,    \* DISCONNECT_AFTER_MS
  MaxOps,           \* bound on operator requests
  MaxRestarts       \* bound on process restarts

ASSUME ConstantsAssumption ==
  /\ DisconnectAfter \in Nat \ {0} /\ FailureWindow \in Nat
  /\ MaxOps \in Nat /\ MaxRestarts \in Nat
  /\ None \notin Instances \cup Urls \cup Programs \cup Productions \cup Nat
  /\ None \notin [url : Urls, isEnabled : BOOLEAN]

VARIABLES
  connections,   \* the manager's map: production -> instance
  inst,          \* the instances, in the map or still polling
  announced,     \* connected flag of the last vmix.connection.state event
  published,     \* program of the last vmix.input.changed event
  db,            \* the VmixConnection row of a production, or None
  up,            \* which addresses answer (the engines themselves)
  ops,           \* operator requests so far
  restarts       \* process restarts so far

manager == <<connections, inst, announced, published>>
vars == <<manager, db, up, ops, restarts>>

(***************************************************************************)
(* A VmixInstance.  failures saturates at DisconnectAfter, the only value  *)
(* it is compared with; failingFor is the age of firstFailureAt.           *)
(***************************************************************************)
VmixInstance ==
  [prod : Productions \cup {None}, url : Urls \cup {None},
   pollInterval : BOOLEAN, pollInFlight : BOOLEAN, isConnected : BOOLEAN,
   program : Programs \cup {None}, failures : 0 .. DisconnectAfter,
   failingFor : 0 .. FailureWindow \cup {None}]

Unused ==
  [prod |-> None, url |-> None, pollInterval |-> FALSE, pollInFlight |-> FALSE,
   isConnected |-> FALSE, program |-> None, failures |-> 0, failingFor |-> None]

Row == [url : Urls, isEnabled : BOOLEAN]

Stored(i) == \E p \in Productions : connections[p] = i

Free == {i \in Instances : ~Stored(i) /\ ~inst[i].pollInFlight}

IsConnected(p) == connections[p] # None /\ inst[connections[p]].isConnected

\* Mutant: every failure restarts the window.
Failed_RestartsWindow(o) ==
  [o EXCEPT !.failures = IF @ < DisconnectAfter THEN @ + 1 ELSE @,
            !.failingFor = 0,
            !.pollInFlight = FALSE]

\* The catch of pollApi: one more failure, the first of a run starts its window.
Failed(o) ==
  [o EXCEPT !.failures = IF @ < DisconnectAfter THEN @ + 1 ELSE @,
            !.failingFor = IF @ = None THEN 0 ELSE @,
            !.pollInFlight = FALSE]

\* Mutant: production and address are swapped.
NewInstance_Swapped(p, url) ==
  LET o == [Unused EXCEPT !.prod = url, !.url = p, !.pollInterval = TRUE]
  IN IF url = None THEN Failed(o) ELSE [o EXCEPT !.pollInFlight = TRUE]

\* A new instance with its first poll started: without an address the poll fails
\* in the same turn (getApiUrl throws).
NewInstance(p, url) ==
  LET o == [Unused EXCEPT !.prod = p, !.url = url, !.pollInterval = TRUE]
  IN IF url = None THEN Failed(o) ELSE [o EXCEPT !.pollInFlight = TRUE]

\* Mutant: disconnectVmix forgets clearInterval.
Released_KeepsInterval(o) == IF o.pollInFlight THEN o ELSE Unused

\* disconnectVmix: interval cleared; the object lives on while a poll is in flight.
Released(o) == IF o.pollInFlight THEN [o EXCEPT !.pollInterval = FALSE] ELSE Unused

\* stopPolling and disconnectVmix.
StopPolling(p) ==
  LET e == connections[p]
  IN IF e = None
     THEN UNCHANGED manager
     ELSE /\ connections' = [connections EXCEPT ![p] = None]
          /\ inst' = [inst EXCEPT ![e] = Released(@)]
          /\ announced' = [announced EXCEPT ![p] = FALSE]
          /\ UNCHANGED published

\* Mutant: an instance whose engine does not answer is kept, whatever its address.
ConnectVmix_KeepsFailing(p, url) ==
  LET e == connections[p]
  IN IF e # None /\ (inst[e].url = url \/ ~inst[e].isConnected)
     THEN UNCHANGED manager
     ELSE \E i \in Free :
            /\ connections' = [connections EXCEPT ![p] = i]
            /\ inst' = [j \in Instances |->
                          IF j = i THEN NewInstance(p, url)
                          ELSE IF j = e THEN Released(inst[j]) ELSE inst[j]]
            /\ announced' = IF e = None THEN announced
                                        ELSE [announced EXCEPT ![p] = FALSE]
            /\ UNCHANGED published

\* connectVmix: skipped for an address already polled.
ConnectVmix(p, url) ==
  LET e == connections[p]
      served == /\ e # None
                /\ inst[e].url = url
                /\ inst[e].isConnected \/ inst[e].pollInterval
  IN IF served
     THEN UNCHANGED manager
     ELSE \E i \in Free :
            /\ connections' = [connections EXCEPT ![p] = i]
            /\ inst' = [j \in Instances |->
                          IF j = i THEN NewInstance(p, url)
                          ELSE IF j = e THEN Released(inst[j]) ELSE inst[j]]
            /\ announced' = IF e = None THEN announced
                                        ELSE [announced EXCEPT ![p] = FALSE]
            /\ UNCHANGED published

(***************************************************************************)
(* The polling loop.                                                       *)
(***************************************************************************)

\* What is left of an instance after its poll ended.
Settled(i, o) == IF Stored(i) THEN o ELSE Unused

\* The interval elapses; a poll still in flight makes the callback return.
PollStarts(i) ==
  LET o == inst[i]
  IN /\ o.pollInterval /\ ~o.pollInFlight
     /\ inst' = [inst EXCEPT ![i] = IF o.url = None THEN Failed(o)
                                    ELSE [o EXCEPT !.pollInFlight = TRUE]]
     /\ UNCHANGED <<connections, announced, published, db, up, ops, restarts>>

\* Mutant: the previous values are read after they are overwritten.
PollSucceeds_SnapshotAfter(i, read) ==
  LET o == inst[i]
  IN /\ o.pollInFlight /\ up[o.url]
     /\ inst' = [inst EXCEPT ![i] =
                   Settled(i, [o EXCEPT !.program = read, !.isConnected = TRUE,
                                        !.failures = 0, !.failingFor = None,
                                        !.pollInFlight = FALSE])]
     /\ announced' = [announced EXCEPT ![o.prod] = @ \/ ~o.isConnected]
     /\ UNCHANGED <<published, connections, db, up, ops, restarts>>

\* Mutant: firstFailureAt survives a successful poll.
PollSucceeds_KeepsWindow(i, read) ==
  LET o == inst[i]
  IN /\ o.pollInFlight /\ up[o.url]
     /\ inst' = [inst EXCEPT ![i] =
                   Settled(i, [o EXCEPT !.program = read, !.isConnected = TRUE,
                                        !.failures = 0, !.pollInFlight = FALSE])]
     /\ published' = [published EXCEPT ![o.prod] = IF o.program = read THEN @ ELSE read]
     /\ announced' = [announced EXCEPT ![o.prod] = @ \/ ~o.isConnected]
     /\ UNCHANGED <<connections, db, up, ops, restarts>>

\* The answer is parsed: a changed program is published, a connection that was
\* down is announced.
PollSucceeds(i, read) ==
  LET o == inst[i]
  IN /\ o.pollInFlight /\ up[o.url]
     /\ inst' = [inst EXCEPT ![i] =
                   Settled(i, [o EXCEPT !.program = read, !.isConnected = TRUE,
                                        !.failures = 0, !.failingFor = None,
                                        !.pollInFlight = FALSE])]
     /\ published' = [published EXCEPT ![o.prod] = IF o.program = read THEN @ ELSE read]
     /\ announced' = [announced EXCEPT ![o.prod] = @ \/ ~o.isConnected]
     /\ UNCHANGED <<connections, db, up, ops, restarts>>

\* Sustained failures: enough of them, over a long enough window.
Lost(o) ==
  /\ o.isConnected
  /\ Failed(o).failures >= DisconnectAfter
  /\ Failed(o).failingFor >= FailureWindow

\* Mutant: the loss is recorded and not announced.
PollFails_Silent(i) ==
  LET o == inst[i]
  IN /\ o.pollInFlight /\ ~up[o.url]
     /\ inst' = [inst EXCEPT ![i] =
                   Settled(i, [Failed(o) EXCEPT !.isConnected = @ /\ ~Lost(o)])]
     /\ UNCHANGED <<announced, published, connections, db, up, ops, restarts>>

\* Timeout, refused connection or unreadable answer.
PollFails(i) ==
  LET o == inst[i]
  IN /\ o.pollInFlight /\ ~up[o.url]
     /\ inst' = [inst EXCEPT ![i] =
                   Settled(i, [Failed(o) EXCEPT !.isConnected = @ /\ ~Lost(o)])]
     /\ announced' = [announced EXCEPT ![o.prod] = @ /\ ~Lost(o)]
     /\ UNCHANGED <<published, connections, db, up, ops, restarts>>

\* Time passes.
Tick ==
  /\ \E i \in Instances : inst[i].failingFor \in 0 .. FailureWindow - 1
  /\ inst' = [i \in Instances |->
                [inst[i] EXCEPT !.failingFor = IF @ \in 0 .. FailureWindow - 1
                                               THEN @ + 1 ELSE @]]
  /\ UNCHANGED <<connections, announced, published, db, up, ops, restarts>>

\* An engine starts or stops answering.
EngineToggles(u) ==
  /\ up' = [up EXCEPT ![u] = ~@]
  /\ UNCHANGED <<manager, db, ops, restarts>>

(***************************************************************************)
(* The operator's requests: the row is written, then the manager is called.*)
(***************************************************************************)
Request == ops < MaxOps /\ ops' = ops + 1 /\ UNCHANGED <<up, restarts>>

SaveConnection(p, url, enabled) ==
  /\ Request
  /\ db' = [db EXCEPT ![p] = [url |-> url, isEnabled |-> enabled]]
  /\ IF enabled THEN ConnectVmix(p, url) ELSE StopPolling(p)

\* productions.update to another engine disables the row and emits
\* engine.connection.update without a url, which handleConnectionUpdate connects.
SwitchEngine(p) ==
  /\ Request
  /\ db' = [db EXCEPT ![p] = IF @ = None THEN None ELSE [@ EXCEPT !.isEnabled = FALSE]]
  /\ ConnectVmix(p, None)

(***************************************************************************)
(* Restart: loadAllConnections polls every enabled row.                    *)
(***************************************************************************)
Enabled == {p \in Productions : db[p] # None /\ db[p].isEnabled}

Restart ==
  /\ restarts < MaxRestarts
  /\ restarts' = restarts + 1
  /\ \E f \in [Enabled -> Instances] :
       /\ \A p, q \in Enabled : f[p] = f[q] => p = q
       /\ connections' = [p \in Productions |-> IF p \in Enabled THEN f[p] ELSE None]
       /\ inst' = [i \in Instances |->
                     IF \E p \in Enabled : f[p] = i
                     THEN LET p == CHOOSE p \in Enabled : f[p] = i
                          IN NewInstance(p, db[p].url)
                     ELSE Unused]
  /\ announced' = [p \in Productions |-> FALSE]
  /\ published' = [p \in Productions |-> None]
  /\ UNCHANGED <<db, up, ops>>

Init ==
  /\ connections = [p \in Productions |-> None]
  /\ inst = [i \in Instances |-> Unused]
  /\ announced = [p \in Productions |-> FALSE]
  /\ published = [p \in Productions |-> None]
  /\ db = [p \in Productions |-> None]
  /\ up \in [Urls -> BOOLEAN]
  /\ ops = 0
  /\ restarts = 0

Operator ==
  \E p \in Productions :
    \/ \E url \in Urls, enabled \in BOOLEAN : SaveConnection(p, url, enabled)
    \/ SwitchEngine(p)

PollEnds(i) == PollFails(i) \/ \E read \in Programs : PollSucceeds(i, read)

Next ==
  \/ Operator
  \/ Restart
  \/ Tick
  \/ \E i \in Instances : PollStarts(i) \/ PollEnds(i)
  \/ \E u \in Urls : EngineToggles(u)

Spec == Init /\ [][Next]_vars

\* The interval goes on elapsing, a poll ends (it has a timeout), time passes.
FairSpec ==
  /\ Spec
  /\ WF_vars(Tick)
  /\ \A i \in Instances : WF_vars(PollStarts(i)) /\ WF_vars(PollEnds(i))

-----------------------------------------------------------------------------
(***************************************************************************)
(* Properties                                                              *)
(***************************************************************************)

TypeOK ==
  /\ connections \in [Productions -> Instances \cup {None}]
  /\ inst \in [Instances -> VmixInstance]
  /\ announced \in [Productions -> BOOLEAN]
  /\ published \in [Productions -> Programs \cup {None}]
  /\ db \in [Productions -> Row \cup {None}]
  /\ up \in [Urls -> BOOLEAN]
  /\ ops \in 0 .. MaxOps
  /\ restarts \in 0 .. MaxRestarts

\* Exactly the instances in the map are polled, each for its own production: no
\* interval outlives its connection and no connection is left without one.
PolledIffStored ==
  /\ \A i \in Instances : inst[i].pollInterval <=> Stored(i)
  /\ \A p \in Productions :
       connections[p] # None => inst[connections[p]].prod = p

\* What is polled is what the operator saved: an enabled row is polled at its
\* address, and nothing else is polled but the empty address of a switched engine.
RuntimeFollowsRow ==
  \A p \in Productions :
    LET polled == inst[connections[p]].url
    IN /\ p \in Enabled => connections[p] # None /\ polled = db[p].url
       /\ connections[p] # None /\ p \notin Enabled => polled = None

\* The polling loops of the process are those the saved rows ask for: one for each
\* enabled row, at its address, and none that no disconnect reaches.
PollingFollowsRow == PolledIffStored /\ RuntimeFollowsRow

\* A poll of an instance no longer in the map is in flight for production p.
OrphanInFlight(p) ==
  \E i \in Instances : inst[i].pollInFlight /\ inst[i].prod = p /\ ~Stored(i)

\* Clients that follow vmix.connection.state know whether the production is
\* connected, as long as no poll of a disconnected instance comes back.
StateEventsAgree ==
  [][\A p \in Productions :
       ~OrphanInFlight(p) /\ announced[p] = IsConnected(p) =>
         announced'[p] = IsConnected(p)']_vars

ProgramShown(p) ==
  connections[p] # None =>
    inst[connections[p]].program \in {None, published[p]}

\* Clients that follow vmix.input.changed see the program the manager holds, under
\* the same condition (pollApi: "Snapshot previous values BEFORE overwrite").
ProgramEventsAgree ==
  [][\A p \in Productions :
       ProgramShown(p) /\ ~OrphanInFlight(p) => ProgramShown(p)']_vars

\* The connection state follows the engine: when an address stays up, the
\* production polled there ends up connected for good; when it stays down,
\* disconnected for good.
EngineIsReflected ==
  \A p \in Productions, u \in Urls :
    LET polled == connections[p] # None /\ inst[connections[p]].url = u
    IN /\ <>[](polled /\ up[u]) => <>[]IsConnected(p)
       /\ <>[](polled /\ ~up[u]) => <>[]~IsConnected(p)

=============================================================================
