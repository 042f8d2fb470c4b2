---------------------------- MODULE StreamScheduler -----------------------------
(***************************************************************************)
(* Schedules of cloud streams:                                             *)
(*   src/streaming/stream-scheduler.service.ts  the tick                   *)
(*   src/streaming/streaming.service.ts         the schedules' rows        *)
(*                                                                         *)
(* A tick starts and stops streams through the same calls as any request:  *)
(* it is a client of CloudEgress while it is in one.  It marks a schedule  *)
(* only after the call, and the interval does not wait for it: the next    *)
(* tick may read what this one has not marked.                             *)
(***************************************************************************)
EXTENDS CloudEgress

CONSTANTS
  Schedules,  \* ids of schedules
  Ticks       \* ticks that may run at the same time

ASSUME SchedulerAssumption == Ticks \subseteq Clients /\ None \notin Schedules

VARIABLES
  schedule,  \* the StreamSchedule rows, None when there is none
  tick,      \* what each tick holds between its statements
  acted,     \* history: the calls that have succeeded for each schedule, as it is set
  unmarked   \* history: the schedules that could not be marked

schedulerVars == <<vars, schedule, tick, acted, unmarked>>

\* Of the times only what tick asks: is the start over, is the end over.
StreamSchedule ==
  [over : {"none", "start", "end"}, isEnabled : BOOLEAN, isExecuted : BOOLEAN]

ASSUME NoScheduleIsNoRow == None \notin StreamSchedule

\* ended is the time of the tick, which began before its second query; crossed are the
\* schedules another tick has acted on and not marked when this one read them.
Ticking ==
  [op : {"start", "stop"}, todo : SUBSET Schedules, ended : SUBSET Schedules,
   crossed : SUBSET Schedules, call : Schedules \cup {None}, step : {"next", "call", "mark"}]

Resting == [step |-> "idle"]

Is(t, op, step) == tick[t] # Resting /\ tick[t].op = op /\ tick[t].step = step

Unmarked == {tick[t].call : t \in {t \in Ticks : tick[t] # Resting /\ tick[t].step = "mark"}}

Ended == {s \in Schedules : schedule[s] # None /\ schedule[s].over = "end"}

-----------------------------------------------------------------------------
\* Mutant: the query does not ask for isExecuted.
TickBegins_Executed(t) ==
  /\ tick[t] = Resting
  /\ tick' = [tick EXCEPT ![t] =
       [op |-> "start", ended |-> Ended, crossed |-> Unmarked, call |-> None, step |-> "next",
        todo |-> {s \in Schedules : schedule[s] # None /\ schedule[s].isEnabled
                                    /\ schedule[s].over # "none"}]]
  /\ UNCHANGED <<vars, schedule, acted, unmarked>>

TickBegins(t) ==
  /\ tick[t] = Resting
  /\ tick' = [tick EXCEPT ![t] =
       [op |-> "start", ended |-> Ended, crossed |-> Unmarked, call |-> None, step |-> "next",
        todo |-> {s \in Schedules : schedule[s] # None /\ schedule[s].isEnabled
                                    /\ ~schedule[s].isExecuted /\ schedule[s].over # "none"}]]
  /\ UNCHANGED <<vars, schedule, acted, unmarked>>

TickTurnsToStops(t) ==
  /\ Is(t, "start", "next") /\ tick[t].todo = {}
  /\ tick' = [tick EXCEPT ![t].op = "stop", ![t].crossed = Unmarked,
       ![t].todo = {s \in Ended \cap tick[t].ended :
                      schedule[s].isEnabled /\ schedule[s].isExecuted}]
  /\ UNCHANGED <<vars, schedule, acted, unmarked>>

TickEnds(t) ==
  /\ Is(t, "stop", "next") /\ tick[t].todo = {}
  /\ tick' = [tick EXCEPT ![t] = Resting]
  /\ UNCHANGED <<vars, schedule, acted, unmarked>>

Accepts(op) == IF op = "start" THEN MayStart("stream") ELSE column["stream"] # None

\* startCloudStream or stopCloudStream, or their refusal, which is logged.
TickCalls(t, s) ==
  /\ tick[t] # Resting /\ tick[t].step = "next" /\ s \in tick[t].todo
  /\ IF Accepts(tick[t].op)
     THEN /\ \/ tick[t].op = "start" /\ StartReads(t, "stream")
             \/ tick[t].op = "stop" /\ StopReads(t, "stream")
          /\ tick' = [tick EXCEPT ![t].todo = @ \ {s}, ![t].call = s, ![t].step = "call"]
     ELSE /\ tick' = [tick EXCEPT ![t].todo = @ \ {s}]
          /\ UNCHANGED vars
  /\ UNCHANGED <<schedule, acted, unmarked>>

\* Inside of the call.
TickAwaits(t) ==
  /\ EgressStarts(t) \/ EgressStops(t) \/ StoreFails(t)
  /\ UNCHANGED <<schedule, tick, acted, unmarked>>

TickCallSucceeds(t) ==
  /\ EgressIsStored(t) \/ StopIsStored(t)
  /\ tick' = [o \in Ticks |-> CASE o = t -> [tick[t] EXCEPT !.step = "mark"]
                               [] tick[o] = Resting -> Resting
                               [] OTHER -> [tick[o] EXCEPT !.crossed = @ \cup {tick[t].call}]]
  /\ acted' = [acted EXCEPT ![tick[t].call] = @ \cup {tick[t].op}]
  /\ UNCHANGED <<schedule, unmarked>>

TickCallFails(t) ==
  /\ EgressStartFails(t) \/ RollsBack(t) \/ StopStoreFails(t)
  /\ tick' = [tick EXCEPT ![t].call = None, ![t].step = "next"]
  /\ UNCHANGED <<schedule, acted, unmarked>>

\* Mutant: the stop of a schedule is not marked.
Marked_StartOnly(s, op) ==
  IF op = "start" THEN [schedule EXCEPT ![s].isExecuted = TRUE] ELSE schedule

Marked(s, op) ==
  IF op = "start" THEN [schedule EXCEPT ![s].isExecuted = TRUE]
  ELSE [schedule EXCEPT ![s].isEnabled = FALSE]

TickMarks(t) ==
  LET s == tick[t].call
  IN /\ tick[t] # Resting /\ tick[t].step = "mark"
     /\ \/ /\ schedule[s] # None
           /\ schedule' = Marked(s, tick[t].op)
           /\ UNCHANGED <<vars, unmarked>>
        \/ /\ IF schedule[s] = None THEN Succeeds ELSE Fails
           /\ unmarked' = unmarked \cup {s}
           /\ UNCHANGED <<running, rows, synced, handler, schedule>>
     /\ tick' = [tick EXCEPT ![t].call = None, ![t].step = "next"]
     /\ UNCHANGED acted

-----------------------------------------------------------------------------
\* createSchedule, updateSchedule and deleteSchedule: isExecuted is never reset.
SetsSchedule(s, new) ==
  /\ Request
  /\ IF schedule[s] = None THEN new # None /\ ~new.isExecuted /\ new.isEnabled
     ELSE new # None => new.isExecuted = schedule[s].isExecuted
  /\ schedule' = [schedule EXCEPT ![s] = new]
  /\ acted' = [acted EXCEPT ![s] = {}]
  /\ UNCHANGED <<running, rows, synced, handler, tick, unmarked>>

TimePasses(s) ==
  /\ schedule[s] # None
  /\ \/ schedule[s].over = "none" /\ schedule' = [schedule EXCEPT ![s].over = "start"]
     \/ schedule[s].over = "start" /\ schedule' = [schedule EXCEPT ![s].over = "end"]
  /\ UNCHANGED <<vars, tick, acted, unmarked>>

\* Other requests for the stream, and LiveKit.
Others ==
  /\ \/ \E c \in Clients \ Ticks :
          \/ StartReads(c, "stream") \/ StopReads(c, "stream")
          \/ EgressStarts(c) \/ EgressIsStored(c) \/ EgressStops(c) \/ StopIsStored(c)
     \/ \E e \in Egresses : EgressEnds(e)
  /\ UNCHANGED <<schedule, tick, acted, unmarked>>

SchedulerInit ==
  /\ Init
  /\ schedule = [s \in Schedules |->
       [over |-> "none", isEnabled |-> TRUE, isExecuted |-> FALSE]]
  /\ tick = [t \in Ticks |-> Resting]
  /\ acted = [s \in Schedules |-> {}]
  /\ unmarked = {}

SchedulerNext ==
  \/ \E t \in Ticks :
       \/ TickBegins(t) \/ TickTurnsToStops(t) \/ TickEnds(t)
       \/ \E s \in Schedules : TickCalls(t, s)
       \/ TickAwaits(t) \/ TickCallSucceeds(t) \/ TickCallFails(t) \/ TickMarks(t)
  \/ \E s \in Schedules :
       TimePasses(s) \/ \E new \in StreamSchedule \cup {None} : SetsSchedule(s, new)
  \/ Others

SchedulerSpec == SchedulerInit /\ [][SchedulerNext]_schedulerVars

-----------------------------------------------------------------------------
\* The types of the state; a tick is in a call of CloudEgress exactly when it awaits one.
SchedulerTypeOK ==
  /\ TypeOK
  /\ schedule \in [Schedules -> StreamSchedule \cup {None}]
  /\ tick \in [Ticks -> Ticking \cup {Resting}]
  /\ \A t \in Ticks : handler[t] # Idle <=> tick[t] # Resting /\ tick[t].step = "call"

\* As long as nobody sets it anew, a schedule starts one stream and stops one, whatever
\* ticks overlap and calls fail, unless a tick read it before the mark of another or the
\* mark itself failed.
SchedulesActOnce ==
  [][\A t \in Ticks :
       TickCallSucceeds(t) /\ tick[t].op \in acted[tick[t].call] =>
         tick[t].call \in tick[t].crossed \cup unmarked]_schedulerVars
=============================================================================
