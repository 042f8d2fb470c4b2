------------------------------- MODULE ObsRuntime -------------------------------
(***************************************************************************)
(* What an OBS connection does while it is up:                             *)
(*   src/obs/obs-connection.manager.ts   the bootstrap of lastState        *)
(*   src/obs/obs-event-handler.ts        lastState follows the events      *)
(*   src/obs/obs-screenshot-poller.ts    the loop of screenshots           *)
(*   src/obs/obs-stats-poller.ts         the interval of statistics        *)
(*   src/obs/obs.service.ts              the commands                      *)
(*                                                                         *)
(* lastState is a copy of what OBS shows.  It is built from answers that   *)
(* are awaited together, while events are handled as they arrive, and it   *)
(* is the state clients are given.  When connections come and go is the    *)
(* subject of ObsConnections; here one replaces another at any time.       *)
(***************************************************************************)
EXTENDS Naturals, Sequences

CONSTANTS
  Objects,      \* instances of the manager
  NoObject,     \* undefined
  MasterInputs, \* which of the three inputs the code looks for OBS has
  FirstInput,   \* the first of them in the order the bootstrap tries
  MaxChanges,   \* bound on changes of OBS
  MaxRejected   \* bound on questions OBS rejects

(***************************************************************************)
(* What is mirrored, by the way it is: scenes, of which the list is asked  *)
(* again when it changes; outputs and setup (stream, recording, replay     *)
(* buffer, camera, collection, transition, studio mode); and one setting   *)
(* of the master audio, its volume or whether it is muted, which is asked  *)
(* only after all the others.  What OBS shows has a source: a field, but   *)
(* for the audio, which the bootstrap reads from the first master input    *)
(* that answers and the events of every master input overwrite.            *)
(***************************************************************************)
Fields == {"scene", "output", "audio"}
Sources == {"scene", "output"} \cup MasterInputs

FieldOf(s) == IF s \in MasterInputs THEN "audio" ELSE s

\* The source that is asked for a field.
Asked(f) == IF f = "audio" THEN FirstInput ELSE f

VARIABLES
  changes,   \* OBS: changes so far
  shows,     \* OBS: the last change of each source
  stored,    \* the instance of the store
  instance,  \* the instances
  rejected   \* questions rejected so far

runtimeVars == <<changes, shows, stored, instance, rejected>>

Unknown == MaxChanges + 1

Value == 0 .. Unknown

\* What is read: a value, and the source it is of.
Reading == [of : Sources, value : Value]

\* What has not been read is undefined, which is no instance and no reading.
ASSUME RuntimeAssumption ==
  /\ MaxChanges \in Nat /\ MaxRejected \in Nat
  /\ FirstInput \in MasterInputs /\ "scene" \notin MasterInputs /\ "output" \notin MasterInputs
  /\ NoObject \notin Objects \cup Reading

\* asked are the questions OBS has not answered yet, wire what it sent and is not handled.
\* late is what lastState has older than OBS has told; torn says what teardown met.
Instance ==
  [phase : {"bootstrap", "running"}, isConnected : BOOLEAN, asked : SUBSET Fields,
   wire : Seq([kind : {"event", "answer", "list"}, of : Sources, value : Value]),
   answers : [Fields -> Reading \cup {NoObject}],
   lastState : [Fields -> Reading \cup {NoObject}],
   late : SUBSET Fields, screenshot : {"off", "armed", "polling"}, stats : BOOLEAN,
   torn : {"no", "quiet", "busy"}]

Unused == [phase |-> "unused"]

Used(i) == instance[i] # Unused

Up(i) == i = stored /\ i # NoObject /\ instance[i].isConnected

NewInstance ==
  [phase |-> "bootstrap", isConnected |-> TRUE, asked |-> Fields \ {"audio"}, wire |-> <<>>,
   answers |-> [f \in Fields |-> NoObject], lastState |-> [f \in Fields |-> NoObject],
   late |-> Fields, screenshot |-> "off", stats |-> FALSE, torn |-> "no"]

Tell(i, kind, s, value) == [instance EXCEPT ![i].wire =
                              Append(@, [kind |-> kind, of |-> s, value |-> value])]

-----------------------------------------------------------------------------
\* Mutant: teardown leaves the loop of screenshots running.
TeardownInstance_Polls(o) ==
  [NewInstance EXCEPT !.asked = {}, !.phase = o.phase, !.isConnected = o.isConnected,
     !.screenshot = o.screenshot,
     !.torn = IF o.phase = "bootstrap" \/ o.screenshot = "polling" THEN "busy" ELSE "quiet"]

\* teardownInstance: listeners and timers are removed, calls that are out are rejected.
\* isConnected stays as it is; what the instance knows nobody can read any more.
TeardownInstance(o) ==
  [NewInstance EXCEPT !.asked = {}, !.phase = o.phase, !.isConnected = o.isConnected,
     !.screenshot = IF o.screenshot = "armed" THEN "off" ELSE o.screenshot,
     !.torn = IF o.phase = "bootstrap" \/ o.screenshot = "polling" THEN "busy" ELSE "quiet"]

\* Another attempt succeeds: its instance has replaced the one before.
Connects(i) ==
  /\ ~Used(i)
  /\ instance' = [o \in Objects |-> CASE o = i -> NewInstance
                                      [] o = stored -> TeardownInstance(instance[o])
                                      [] OTHER -> instance[o]]
  /\ stored' = i
  /\ UNCHANGED <<changes, shows, rejected>>

\* Mutant: the connection is torn down and stays in the store.
Disconnects_Kept ==
  /\ stored # NoObject
  /\ instance' = [instance EXCEPT ![stored] = TeardownInstance(@)]
  /\ UNCHANGED <<changes, shows, stored, rejected>>

Disconnects ==
  /\ stored # NoObject
  /\ instance' = [instance EXCEPT ![stored] = TeardownInstance(@)]
  /\ stored' = NoObject
  /\ UNCHANGED <<changes, shows, rejected>>

\* ConnectionClosed, or the heartbeat: the instance stays in the store.
Closes ==
  /\ \E i \in Objects :
       Up(i) /\ instance' = [instance EXCEPT ![i].isConnected = FALSE,
                                             ![i].asked = {}, ![i].wire = <<>>]
  /\ UNCHANGED <<changes, shows, stored, rejected>>

-----------------------------------------------------------------------------
\* OBS changes, by hand or by a command, and tells who is connected.
Changes(s) ==
  /\ changes < MaxChanges /\ changes' = changes + 1
  /\ shows' = [shows EXCEPT ![s] = changes + 1]
  /\ IF \E i \in Objects : Up(i) THEN instance' = Tell(stored, "event", s, changes + 1)
     ELSE UNCHANGED instance
  /\ UNCHANGED <<stored, rejected>>

\* A command is for the instance that is connected, and its answer changes nothing.
Commands(s) == (\E i \in Objects : Up(i)) /\ Changes(s)

ChangesScene == Commands("scene")
SwitchesOutput == Commands("output")
SetsUp == Commands("output")
SetsAudio == \E s \in MasterInputs : Commands(s)

\* The list of scenes changes: it is asked again.
ListChanges ==
  /\ \E i \in Objects :
       /\ Up(i) /\ instance[i].phase = "running" /\ "scene" \notin instance[i].asked
       /\ \A n \in DOMAIN instance[i].wire : instance[i].wire[n].kind # "list"
       /\ instance' = Tell(i, "list", "scene", 0)
  /\ UNCHANGED <<changes, shows, stored, rejected>>

Answered(i, f, s, value) ==
  /\ Up(i) /\ f \in instance[i].asked
  /\ instance' = [Tell(i, "answer", s, value) EXCEPT ![i].asked = @ \ {f}]
  /\ UNCHANGED <<changes, shows, stored>>

Answers(i, f) == Answered(i, f, Asked(f), shows[Asked(f)]) /\ UNCHANGED rejected

\* A question is rejected: the bootstrap goes on with a default, or with another master
\* input that answers.
Rejects(i, f) ==
  /\ rejected < MaxRejected /\ rejected' = rejected + 1
  /\ \/ Answered(i, f, Asked(f), Unknown)
     \/ f = "audio" /\ \E s \in MasterInputs \ {FirstInput} : Answered(i, f, s, shows[s])

-----------------------------------------------------------------------------
\* Mutant: the streaming state is not followed.
EventArrives_NoOutput(o, s, value) ==
  IF o.phase = "running"
  THEN IF s = "output" THEN o
       ELSE [o EXCEPT !.lastState[FieldOf(s)] = [of |-> s, value |-> value],
                      !.late = @ \ {FieldOf(s)}]
  ELSE [o EXCEPT !.late = @ \cup {FieldOf(s)}]

\* An event of any master input is the master audio from then on.  Before lastState is
\* built, an event is only passed on.
EventArrives(o, s, value) ==
  IF o.phase = "running"
  THEN [o EXCEPT !.lastState[FieldOf(s)] = [of |-> s, value |-> value],
                 !.late = @ \ {FieldOf(s)}]
  ELSE [o EXCEPT !.late = @ \cup {FieldOf(s)}]

\* The list of scenes brings the scene with it, unless it was refused.
ListArrives(o, value) ==
  IF value = Unknown THEN o
  ELSE [o EXCEPT !.lastState["scene"] = [of |-> "scene", value |-> value],
                 !.late = @ \ {"scene"}]

\* An answer of the bootstrap; with the last of them the audio is asked.
AnswerArrives(o, s, value) ==
  LET answers == [o.answers EXCEPT ![FieldOf(s)] = [of |-> s, value |-> value]]
  IN [o EXCEPT !.answers = answers,
        !.late = IF value = Unknown THEN @ ELSE @ \ {FieldOf(s)},
        !.asked = IF s \notin MasterInputs
                     /\ \A g \in Fields \ {"audio"} : answers[g] # NoObject
                  THEN {"audio"} ELSE @]

Handles(i) ==
  /\ Up(i) /\ instance[i].wire # <<>>
  /\ LET message == Head(instance[i].wire)
         o == [instance[i] EXCEPT !.wire = Tail(@)]
     IN instance' = [instance EXCEPT ![i] =
          CASE message.kind = "event" -> EventArrives(o, message.of, message.value)
            [] message.kind = "list" -> [o EXCEPT !.asked = @ \cup {"scene"}]
            [] message.kind = "answer" /\ o.phase = "bootstrap" ->
                 AnswerArrives(o, message.of, message.value)
            [] OTHER -> ListArrives(o, message.value)]
  /\ UNCHANGED <<changes, shows, stored, rejected>>

\* bootstrapInitialState and what follows it, also when the instance was torn down or its
\* connection closed: then the calls that were out count as rejected.
BootstrapEnds(i) ==
  /\ Used(i) /\ instance[i].phase = "bootstrap"
  /\ ~Up(i) \/ \A f \in Fields : instance[i].answers[f] # NoObject
  /\ instance' = [instance EXCEPT ![i] =
       [@ EXCEPT !.phase = "running", !.stats = TRUE, !.screenshot = "armed",
          !.lastState = instance[i].answers]]
  /\ UNCHANGED <<changes, shows, stored, rejected>>

\* The timer of the loop: without a connection the loop ends.
PollBegins(i) ==
  /\ Used(i) /\ instance[i].screenshot = "armed"
  /\ instance' = [instance EXCEPT ![i].screenshot =
                    IF instance[i].isConnected THEN "polling" ELSE "off"]
  /\ UNCHANGED <<changes, shows, stored, rejected>>

\* Mutant: the loop ends with a poll that fails.
PollEnds_Once(i) ==
  /\ Used(i) /\ instance[i].screenshot = "polling"
  /\ instance' = [instance EXCEPT ![i].screenshot = "off"]
  /\ UNCHANGED <<changes, shows, stored, rejected>>

\* The finally of poll, also when the calls were rejected.
PollEnds(i) ==
  /\ Used(i) /\ instance[i].screenshot = "polling"
  /\ instance' = [instance EXCEPT ![i].screenshot =
                    IF instance[i].isConnected THEN "armed" ELSE "off"]
  /\ UNCHANGED <<changes, shows, stored, rejected>>

RuntimeInit ==
  /\ changes = 0 /\ shows = [s \in Sources |-> 0]
  /\ stored = NoObject
  /\ instance = [i \in Objects |-> Unused]
  /\ rejected = 0

RuntimeNext ==
  \/ \E i \in Objects :
       \/ Connects(i) \/ Handles(i) \/ BootstrapEnds(i) \/ PollBegins(i) \/ PollEnds(i)
       \/ \E f \in Fields : Answers(i, f) \/ Rejects(i, f)
  \/ Disconnects \/ Closes \/ ListChanges
  \/ \E s \in Sources : Changes(s)
  \/ ChangesScene \/ SwitchesOutput \/ SetsUp \/ SetsAudio

RuntimeSpec == RuntimeInit /\ [][RuntimeNext]_runtimeVars

-----------------------------------------------------------------------------
\* The types of the state; only the instance of the store hears OBS.
RuntimeTypeOK ==
  /\ changes \in 0 .. MaxChanges /\ shows \in [Sources -> 0 .. MaxChanges]
  /\ stored \in Objects \cup {NoObject}
  /\ rejected \in 0 .. MaxRejected
  /\ \A i \in Objects : Used(i) =>
       /\ instance[i].phase \in {"bootstrap", "running"}
       /\ instance[i].late \subseteq Fields
       /\ instance[i].lastState \in [Fields -> Reading \cup {NoObject}]
       /\ instance[i].wire # <<>> \/ instance[i].asked # {} => Up(i)
       /\ instance[i].torn = "no" <=> i = stored

\* When nothing is on its way, every field clients are given is a reading of a source of that
\* field and is what OBS shows of it, but for a field whose event overtook the bootstrap, or
\* whose question was rejected, and no event since.  For the master audio the source is the
\* master input that was heard of last: the one the bootstrap read, and after an event of
\* another, that other one.
MirrorIsCurrent ==
  \A i \in Objects :
    Up(i) /\ instance[i].phase = "running" /\ instance[i].wire = <<>> =>
      \A f \in Fields \ instance[i].late :
        LET reading == instance[i].lastState[f]
        IN /\ reading # NoObject /\ FieldOf(reading.of) = f
           /\ reading.value = shows[reading.of]

\* A connection that is up has its loops; an instance that was torn down while neither a
\* poll nor the bootstrap was out has none.
PollingFollowsConnection ==
  \A i \in Objects : Used(i) =>
    /\ Up(i) /\ instance[i].phase = "running" =>
         instance[i].stats /\ instance[i].screenshot # "off"
    /\ instance[i].torn = "quiet" => ~instance[i].stats /\ instance[i].screenshot = "off"
=============================================================================
