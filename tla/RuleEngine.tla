------------------------------- MODULE RuleEngine -------------------------------
(***************************************************************************)
(* Automation rules over the timeline:                                     *)
(*   src/automation/automation-engine.service.ts    ticks, events, runs    *)
(*   src/automation/automation-action.executor.ts   the actions of a run   *)
(*   src/automation/automation.service.ts           the rows               *)
(*   src/hardware/hardware.service.ts               keys mapped to rules   *)
(*                                                                         *)
(* A tick of the interval reads the active blocks and the rules, and then  *)
(* asks the log, pair by pair, whether the pair ran already.  Ticks do not *)
(* wait for each other, nor for the runs they start.  A run writes its log *)
(* after its actions.  executingRules keeps two runs of a rule apart.      *)
(***************************************************************************)
EXTENDS Timeline, FiniteSets

CONSTANTS
  Rules,        \* ids a rule may get
  RuleForms,    \* rules operators save
  RuleOwner,    \* the production of each rule
  Ticks,        \* runs of checkTimeTriggers that may overlap
  Keys,         \* keys of hardware panels
  InstantClip   \* the id of the rule triggerInstantClip makes up

Runnable == Rules \cup {InstantClip}

\* isEnabled; secondsBefore of a timeline.before_end trigger, or None; the blocks whose
\* timeline.block.started satisfies the condition of a trigger on it.
Rule == [isEnabled : BOOLEAN, secondsBefore : Nat \cup {None}, onStart : SUBSET Blocks]

ASSUME EngineAssumption ==
  /\ InstantClip \notin Rules
  /\ RuleForms \subseteq Rule
  /\ RuleOwner \in [Rules -> Productions]
  /\ None \notin Rules /\ None \notin Rule

ASSUME ClientsAreFinite == IsFiniteSet(Clients)

VARIABLES
  rule,      \* the Rule rows, None when there is none
  mapping,   \* the HardwareMapping rows: the rule of each key
  run,       \* executingRules, and what each run will do next
  log,       \* RuleExecutionLog: what succeeded, and for a block, in which run of it
  tick,      \* what each run of checkTimeTriggers holds between its statements
  heard,     \* timeline.block.started events whose rules are being read
  ran,       \* what has succeeded, logged or not
  unlogged,  \* what has succeeded and left no log
  overtaken  \* ticks about to act on an answer that a log has contradicted since

engineVars == <<rule, mapping, run, log, tick, heard, ran, unlogged, overtaken>>
vars == <<timelineVars, engineVars>>

\* A rule, and the run of the block that was about to end.
Due == Rules \X Blocks \X Nat

ASSUME NoneIsNotDue == None \notin Due

\* A run for a block is for a rule and a run of the block; the others are for neither.
Running == [cause : Due \cup {None}, step : {"act", "log", "audit", "error"}]

\* A log of success names the block; it counts for every run of it that began before.
Logged == [due : Due, during : Nat]

Ticking ==
  [step : {"read"}, at : 0 .. MaxTime] \cup
  [step : {"scan"}, due : SUBSET Due] \cup
  [step : {"resume"}, due : SUBSET Due, asked : Due, found : BOOLEAN]

\* executeActions: a rule that is executing is left alone.
Executes(ids, cause) ==
  run' = [r \in Runnable |->
            IF r \in ids /\ run[r] = Idle THEN [cause |-> cause, step |-> "act"] ELSE run[r]]

-----------------------------------------------------------------------------
(***************************************************************************)
(* The rows                                                                *)
(***************************************************************************)
Requests == requests < MaxRequests /\ requests' = requests + 1
            /\ UNCHANGED <<block, request, pending, changed, swallowed, overlapped, now>>

\* createRule, each rule of importRules, and what generateRuleAi made up.
CreateRule(r, form) ==
  /\ Requests
  /\ rule[r] = None
  /\ run[r] = Idle
  /\ \A d \in ran : d[1] # r
  /\ \A t \in Ticks : tick[t] # Idle /\ tick[t].step # "read" => \A d \in tick[t].due : d[1] # r
  /\ rule' = [rule EXCEPT ![r] = form]
  /\ UNCHANGED <<mapping, run, log, tick, heard, ran, unlogged, overtaken>>

\* updateRule replaces triggers and actions in one transaction.
UpdateRule(r, form) ==
  /\ Requests
  /\ rule[r] # None
  /\ rule' = [rule EXCEPT ![r] = form]
  /\ UNCHANGED <<mapping, run, log, tick, heard, ran, unlogged, overtaken>>

\* The row takes its logs and mappings with it.
DeleteRule(r) ==
  /\ Requests
  /\ rule[r] # None
  /\ rule' = [rule EXCEPT ![r] = None]
  /\ log' = {entry \in log : entry.due[1] # r}
  /\ mapping' = [k \in Keys |-> IF mapping[k] = r THEN None ELSE mapping[k]]
  /\ UNCHANGED <<run, tick, heard, ran, unlogged, overtaken>>

SaveMapping(k, r) ==
  /\ Requests
  /\ rule[r] # None
  /\ mapping' = [mapping EXCEPT ![k] = r]
  /\ UNCHANGED <<rule, run, log, tick, heard, ran, unlogged, overtaken>>

DeleteMapping(k) ==
  /\ Requests
  /\ mapping[k] # None
  /\ mapping' = [mapping EXCEPT ![k] = None]
  /\ UNCHANGED <<rule, run, log, tick, heard, ran, unlogged, overtaken>>

-----------------------------------------------------------------------------
(***************************************************************************)
(* What starts a run                                                       *)
(***************************************************************************)
\* executeRuleById, whether or not the rule is enabled; hardware.trigger, if it is; and
\* triggerInstantClip.
Triggered(r) ==
  /\ Requests
  /\ \/ r \in Rules /\ rule[r] # None
     \/ r = InstantClip
  /\ Executes({r}, None)
  /\ UNCHANGED <<rule, mapping, log, tick, heard, ran, unlogged, overtaken>>

HardwareTrigger(k) ==
  /\ Requests
  /\ mapping[k] # None /\ rule[mapping[k]].isEnabled
  /\ Executes({mapping[k]}, None)
  /\ UNCHANGED <<rule, mapping, log, tick, heard, ran, unlogged, overtaken>>

\* evaluateTriggers: a condition is the set of the events that satisfy it.
EvaluateTriggers(r, b) == b \in rule[r].onStart

\* handleEvent has read the rules of the block's production.
HandleEvent(b) ==
  /\ b \in heard
  /\ heard' = heard \ {b}
  /\ Executes({r \in Rules : /\ rule[r] # None /\ RuleOwner[r] = ProductionOf[b]
                             /\ rule[r].isEnabled /\ EvaluateTriggers(r, b)}, None)
  /\ UNCHANGED <<timelineVars, rule, mapping, log, tick, ran, unlogged, overtaken>>

TickBegins(t) ==
  /\ tick[t] = Idle
  /\ tick' = [tick EXCEPT ![t] = [step |-> "read", at |-> now]]
  /\ UNCHANGED <<timelineVars, rule, mapping, run, log, heard, ran, unlogged, overtaken>>

\* At time at, the seconds block b has left are those the rule asks for.
IsDue(r, b, at) ==
  /\ block[b] # None /\ block[b].status = "ACTIVE"
  /\ block[b].duration > 0 /\ block[b].startTime # None
  /\ rule[r] # None /\ RuleOwner[r] = ProductionOf[b]
  /\ rule[r].isEnabled /\ rule[r].secondsBefore # None
  /\ block[b].duration + block[b].startTime = at + rule[r].secondsBefore

TickReads(t) ==
  LET due == {d \in Rules \X Blocks \X {block[b].run : b \in {x \in Blocks : block[x] # None}} :
                IsDue(d[1], d[2], tick[t].at) /\ d[3] = block[d[2]].run}
  IN /\ tick[t] # Idle /\ tick[t].step = "read"
     /\ tick' = [tick EXCEPT ![t] = IF due = {} THEN Idle ELSE [step |-> "scan", due |-> due]]
     /\ UNCHANGED <<timelineVars, rule, mapping, run, log, heard, ran, unlogged, overtaken>>

\* The log is one of the rule, names the block and is younger than the start of this run of it.
SpeaksFor(entry, d) == entry.due[1] = d[1] /\ entry.due[2] = d[2] /\ entry.during >= d[3]

AlreadyLogged(d) == \E entry \in log : SpeaksFor(entry, d)

\* Mutant: the log is not asked.
TickAsks_Blind(t, d) ==
  /\ tick[t] # Idle /\ tick[t].step = "scan" /\ d \in tick[t].due
  /\ tick' = [tick EXCEPT ![t] =
       [step |-> "resume", due |-> tick[t].due, asked |-> d, found |-> FALSE]]
  /\ UNCHANGED <<timelineVars, rule, mapping, run, log, heard, ran, unlogged, overtaken>>

TickAsks(t, d) ==
  /\ tick[t] # Idle /\ tick[t].step = "scan" /\ d \in tick[t].due
  /\ tick' = [tick EXCEPT ![t] =
       [step |-> "resume", due |-> tick[t].due, asked |-> d, found |-> AlreadyLogged(d)]]
  /\ UNCHANGED <<timelineVars, rule, mapping, run, log, heard, ran, unlogged, overtaken>>

\* Mutant: the loop over the pairs returns where it should continue.
TickResumes_Returns(t) ==
  LET d == tick[t].asked
  IN /\ tick[t] # Idle /\ tick[t].step = "resume"
     /\ IF tick[t].found THEN UNCHANGED run ELSE Executes({d[1]}, d)
     /\ tick' = [tick EXCEPT ![t] = Idle]
     /\ overtaken' = overtaken \ {t}
     /\ UNCHANGED <<timelineVars, rule, mapping, log, heard, ran, unlogged>>

TickResumes(t) ==
  LET d == tick[t].asked
      left == tick[t].due \ {d}
  IN /\ tick[t] # Idle /\ tick[t].step = "resume"
     /\ IF tick[t].found THEN UNCHANGED run ELSE Executes({d[1]}, d)
     /\ tick' = [tick EXCEPT ![t] = IF left = {} THEN Idle ELSE [step |-> "scan", due |-> left]]
     /\ overtaken' = overtaken \ {t}
     /\ UNCHANGED <<timelineVars, rule, mapping, log, heard, ran, unlogged>>

-----------------------------------------------------------------------------
(***************************************************************************)
(* Runs                                                                    *)
(***************************************************************************)
Doing(r, step) == run[r] # Idle /\ run[r].step = step

Proceeds(r, step) == run' = [run EXCEPT ![r].step = step]

ForBlock(r) == IF run[r].cause = None THEN {} ELSE {run[r].cause}

ActionsSucceed(r) ==
  /\ Doing(r, "act")
  /\ Proceeds(r, "log")
  /\ ran' = ran \cup ForBlock(r)
  /\ UNCHANGED <<timelineVars, rule, mapping, log, tick, heard, unlogged, overtaken>>

\* executeAction throws on; saving a clip is the one action that never does.
ActionsFail(r) ==
  /\ Doing(r, "act") /\ r # InstantClip
  /\ Proceeds(r, "error")
  /\ UNCHANGED <<timelineVars, rule, mapping, log, tick, heard, ran, unlogged, overtaken>>

\* Mutant: the rule stops executing before its log is written.
LogIsWritten_Early(r) ==
  /\ Doing(r, "log")
  /\ r \in Rules /\ rule[r] # None
  /\ run' = [run EXCEPT ![r] = Idle]
  /\ UNCHANGED <<timelineVars, rule, mapping, log, tick, heard, ran, unlogged, overtaken>>

LogIsWritten(r) ==
  LET written == {[due |-> d, during |-> IF block[d[2]] = None THEN d[3] ELSE block[d[2]].run] :
                    d \in ForBlock(r)}
  IN /\ Doing(r, "log")
     /\ r \in Rules /\ rule[r] # None
     /\ log' = log \cup written
     /\ overtaken' = overtaken \cup
          {t \in Ticks : /\ tick[t] # Idle /\ tick[t].step = "resume" /\ ~tick[t].found
                         /\ \E entry \in written : SpeaksFor(entry, tick[t].asked)}
     /\ Proceeds(r, "audit")
     /\ UNCHANGED <<timelineVars, rule, mapping, tick, heard, ran, unlogged>>

\* The log refers to a rule that is not there, or the database fails.
LogFails(r) ==
  /\ Doing(r, "log")
  /\ Proceeds(r, "error")
  /\ unlogged' = unlogged \cup ForBlock(r)
  /\ UNCHANGED <<timelineVars, rule, mapping, log, tick, heard, ran, overtaken>>

\* finally: after the audit log, or after the log of the error, written or not.
RunEnds(r) ==
  /\ Doing(r, "audit") \/ Doing(r, "error")
  /\ run' = [run EXCEPT ![r] = Idle]
  /\ UNCHANGED <<timelineVars, rule, mapping, log, tick, heard, ran, unlogged, overtaken>>

-----------------------------------------------------------------------------
TimelineSteps ==
  \/ OtherTimelineNext /\ UNCHANGED engineVars
  \/ \E c \in Clients :
       /\ Activates(c)
       /\ heard' = heard \cup {request[c].block}
       /\ UNCHANGED <<rule, mapping, run, log, tick, ran, unlogged, overtaken>>

EngineRestarts ==
  /\ Restart
  /\ run' = [r \in Runnable |-> Idle]
  /\ tick' = [t \in Ticks |-> Idle]
  /\ heard' = {}
  /\ unlogged' = unlogged \cup UNION {ForBlock(r) : r \in {x \in Runnable : Doing(x, "log")}}
  /\ overtaken' = {}
  /\ UNCHANGED <<rule, mapping, log, ran>>

Init ==
  /\ TimelineInit
  /\ rule \in [Rules -> RuleForms \cup {None}]
  /\ mapping = [k \in Keys |-> None]
  /\ run = [r \in Runnable |-> Idle]
  /\ log = {}
  /\ tick = [t \in Ticks |-> Idle]
  /\ heard = {}
  /\ ran = {} /\ unlogged = {} /\ overtaken = {}

Rows ==
  \/ \E r \in Rules : DeleteRule(r)
  \/ \E r \in Rules, form \in RuleForms : CreateRule(r, form) \/ UpdateRule(r, form)
  \/ \E k \in Keys, r \in Rules : SaveMapping(k, r)
  \/ \E k \in Keys : DeleteMapping(k)

Next ==
  \/ TimelineSteps
  \/ EngineRestarts
  \/ Rows
  \/ \E r \in Runnable : Triggered(r)
  \/ \E k \in Keys : HardwareTrigger(k)
  \/ \E b \in Blocks : HandleEvent(b)
  \/ \E t \in Ticks :
       \/ TickBegins(t) \/ TickReads(t) \/ TickResumes(t)
       \/ tick[t] # Idle /\ tick[t].step = "scan" /\ \E d \in tick[t].due : TickAsks(t, d)
  \/ \E r \in Runnable :
       ActionsSucceed(r) \/ ActionsFail(r) \/ LogIsWritten(r) \/ LogFails(r) \/ RunEnds(r)

Spec == Init /\ [][Next]_vars

-----------------------------------------------------------------------------
(***************************************************************************)
(* Properties                                                              *)
(***************************************************************************)

\* The types of the state.
TypeOK ==
  /\ TimelineTypeOK
  /\ rule \in [Rules -> RuleForms \cup {None}]
  /\ mapping \in [Keys -> Rules \cup {None}]
  /\ run \in [Runnable -> Running \cup {Idle}]
  /\ log \subseteq Logged
  /\ tick \in [Ticks -> Ticking \cup {Idle}]
  /\ heard \subseteq Blocks
  /\ ran \subseteq Due /\ unlogged \subseteq ran
  /\ overtaken \subseteq Ticks

Starts(r, d) == run[r] = Idle /\ run'[r] # Idle /\ run'[r].cause = d

\* A time trigger runs its rule once for a run of its block: it runs it again only if the
\* success left no log, if the rule was deleted under a tick, or if the tick that runs it had
\* asked the log before the success was in it; and never while that log is to be written.
RepeatsOnlyUnlogged ==
  [][\A d \in ran : Starts(d[1], d) =>
       \/ d \in unlogged /\ ~AlreadyLogged(d)
       \/ rule[d[1]] = None
       \/ \E t \in overtaken : /\ tick[t] # Idle /\ tick[t].step = "resume"
                               /\ tick[t].asked = d /\ tick'[t] # tick[t]]_vars

Waiting(t) == IF tick[t] # Idle /\ tick[t].step # "read" THEN tick[t].due ELSE {}

\* What a tick has found due runs, unless it ran already, the rule is executing for another
\* reason or has been deleted, a late log of another run of the block speaks for this one,
\* or the process ends.
DueTriggersRun ==
  [][\A t \in Ticks : \A d \in Waiting(t) \ Waiting(t)' :
       \/ d \in ran
       \/ run'[d[1]] # Idle \/ rule[d[1]] = None
       \/ \E entry \in log : entry.due[1] = d[1] /\ entry.due[2] = d[2] /\ entry.due[3] # d[3] /\ entry.during >= d[3]
       \/ EngineRestarts]_vars

\* A time trigger that a tick finds due in a run of its block runs its rule, and runs it
\* once, save for the causes the two parts name.
DueTriggersRunOnce == RepeatsOnlyUnlogged /\ DueTriggersRun

=============================================================================
