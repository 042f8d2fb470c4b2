-------------------------------- MODULE Intercom --------------------------------
(***************************************************************************)
(* The commands of one production's intercom and their templates:          *)
(*   src/intercom/intercom.service.ts               templates, commands    *)
(*   src/websockets/gateways/intercom.gateway.ts    sending, acknowledging *)
(*                                                                         *)
(* A production without templates is given the defaults by the first who   *)
(* lists them, one row after the other.  A command of a group is a row for *)
(* each target; clients report its delivery and answer it.                 *)
(***************************************************************************)
EXTENDS Naturals, FiniteSets

CONSTANTS
  Names,          \* names of templates
  Defaults,       \* the names of the default templates
  Readers,        \* listings of the templates that may be in progress at once
  Crew,           \* user ids
  Commands,       \* ids of commands; none is used twice
  MaxTemplates,   \* bound on rows of one name
  MaxIntercom     \* bound on requests

ASSUME IntercomAssumption ==
  /\ Defaults \subseteq Names /\ IsFiniteSet(Names)
  /\ MaxTemplates \in Nat /\ MaxIntercom \in Nat

VARIABLES
  template,         \* how many templates have each name
  seeding,          \* the default names each listing has yet to create
  command,          \* the status of each command's row
  received,         \* commands whose command.received was emitted
  answers,          \* who has answered each command
  limited,          \* users whose last command is within RATE_LIMIT_MS
  sending,          \* commands of a group that are being created
  seededBy,         \* history: what may have added or removed templates besides one seeding
  intercomRequests  \* requests so far

intercomVars ==
  <<template, seeding, command, received, answers, limited, sending, seededBy,
    intercomRequests>>

CommandStatus == {"new", "SENT", "DELIVERED"}

IntercomRequest ==
  intercomRequests < MaxIntercom /\ intercomRequests' = intercomRequests + 1

TemplatesUnchanged == UNCHANGED <<template, seeding, seededBy>>
CommandsUnchanged == UNCHANGED <<command, received, answers, limited, sending>>

NoTemplates == \A n \in Names : template[n] = 0

Seeders == {r \in Readers : seeding[r] # {}}

-----------------------------------------------------------------------------
\* Mutant: every listing seeds the defaults.
GetTemplates_Always(r) ==
  /\ IntercomRequest
  /\ seeding[r] = {}
  /\ seeding' = [seeding EXCEPT ![r] = Defaults]
  /\ seededBy' = seededBy \cup IF Seeders # {} THEN {"two readers"} ELSE {}
  /\ UNCHANGED template
  /\ CommandsUnchanged

\* getTemplates: whoever finds none seeds the defaults.
GetTemplates(r) ==
  /\ IntercomRequest
  /\ seeding[r] = {} /\ NoTemplates
  /\ seeding' = [seeding EXCEPT ![r] = Defaults]
  /\ seededBy' = seededBy \cup IF Seeders # {} THEN {"two readers"} ELSE {}
  /\ UNCHANGED template
  /\ CommandsUnchanged

\* seedDefaultTemplates creates them one by one; that the order is fixed is left out.
SeedsDefault(r, n) ==
  /\ n \in seeding[r] /\ template[n] < MaxTemplates
  /\ template' = [template EXCEPT ![n] = @ + 1]
  /\ seeding' = [seeding EXCEPT ![r] = @ \ {n}]
  /\ UNCHANGED <<seededBy, intercomRequests>>
  /\ CommandsUnchanged

\* A create throws, or the process dies: the rest is never seeded, for there are templates.
SeedingFails(r) ==
  /\ seeding[r] # {}
  /\ seeding' = [seeding EXCEPT ![r] = {}]
  /\ seededBy' = seededBy \cup {"failure"}
  /\ UNCHANGED <<template, intercomRequests>>
  /\ CommandsUnchanged

CreateTemplate(n) ==
  /\ IntercomRequest
  /\ template[n] < MaxTemplates
  /\ template' = [template EXCEPT ![n] = @ + 1]
  /\ seededBy' = seededBy \cup {"by hand"}
  /\ UNCHANGED seeding
  /\ CommandsUnchanged

\* updateTemplate, of the name.
UpdateTemplate(n, m) ==
  /\ IntercomRequest
  /\ n # m /\ template[n] > 0 /\ template[m] < MaxTemplates
  /\ template' = [template EXCEPT ![n] = @ - 1, ![m] = @ + 1]
  /\ seededBy' = seededBy \cup {"by hand"}
  /\ UNCHANGED seeding
  /\ CommandsUnchanged

DeleteTemplate(n) ==
  /\ IntercomRequest
  /\ template[n] > 0
  /\ template' = [template EXCEPT ![n] = @ - 1]
  /\ seededBy' = seededBy \cup {"by hand"}
  /\ UNCHANGED seeding
  /\ CommandsUnchanged

-----------------------------------------------------------------------------
\* command.send and command.broadcast have one command.group_send several: a row of
\* each is to be created, all at once.
CommandIsSentBy(u, cs) ==
  /\ IntercomRequest
  /\ u \notin limited /\ limited' = limited \cup {u}
  /\ cs # {} /\ \A c \in cs : command[c] = "new" /\ c \notin sending
  /\ sending' = sending \cup cs
  /\ UNCHANGED <<command, received, answers>>
  /\ TemplatesUnchanged

\* sendCommand: the row is created, and the command goes to the room.
SendCommand(c) ==
  /\ c \in sending
  /\ command' = [command EXCEPT ![c] = "SENT"]
  /\ received' = received \cup {c}
  /\ sending' = sending \ {c}
  /\ UNCHANGED <<answers, limited, intercomRequests>>
  /\ TemplatesUnchanged

\* The create throws: the sender is told of an error, whatever became of the rest of a group.
SendFails(c) ==
  /\ c \in sending
  /\ sending' = sending \ {c}
  /\ UNCHANGED <<command, received, answers, limited, intercomRequests>>
  /\ TemplatesUnchanged

\* RATE_LIMIT_MS have passed, or the process has restarted.
RatePasses(u) ==
  /\ u \in limited /\ limited' = limited \ {u}
  /\ UNCHANGED <<command, received, answers, sending, intercomRequests>>
  /\ TemplatesUnchanged

\* command.delivered, of any client in the room, and as often as it likes.
HandleCommandDelivered(c) ==
  /\ c \in received /\ command[c] = "SENT"
  /\ command' = [command EXCEPT ![c] = "DELIVERED"]
  /\ UNCHANGED <<received, answers, limited, sending, intercomRequests>>
  /\ TemplatesUnchanged

\* command.ack creates a response and leaves the status.
HandleCommandAck(u, c) ==
  /\ c \in received
  /\ u \notin answers[c]
  /\ answers' = [answers EXCEPT ![c] = @ \cup {u}]
  /\ UNCHANGED <<command, received, limited, sending, intercomRequests>>
  /\ TemplatesUnchanged

IntercomInit ==
  /\ template = [n \in Names |-> 0]
  /\ seeding = [r \in Readers |-> {}]
  /\ command = [c \in Commands |-> "new"]
  /\ received = {}
  /\ answers = [c \in Commands |-> {}]
  /\ limited = {} /\ sending = {}
  /\ seededBy = {}
  /\ intercomRequests = 0

IntercomNext ==
  \/ \E r \in Readers :
       \/ GetTemplates(r) \/ SeedingFails(r)
       \/ \E n \in Defaults : SeedsDefault(r, n)
  \/ \E n, m \in Names : UpdateTemplate(n, m)
  \/ \E n \in Names : CreateTemplate(n) \/ DeleteTemplate(n)
  \/ \E u \in Crew :
       \/ \E cs \in SUBSET Commands : CommandIsSentBy(u, cs)
       \/ RatePasses(u)
       \/ \E c \in Commands : HandleCommandAck(u, c)
  \/ \E c \in Commands : SendCommand(c) \/ SendFails(c) \/ HandleCommandDelivered(c)

IntercomSpec == IntercomInit /\ [][IntercomNext]_intercomVars

-----------------------------------------------------------------------------
(***************************************************************************)
(* Properties                                                              *)
(***************************************************************************)

\* The types of the state; what was answered or delivered was received.
IntercomTypeOK ==
  /\ template \in [Names -> 0 .. MaxTemplates]
  /\ seeding \in [Readers -> SUBSET Defaults]
  /\ command \in [Commands -> CommandStatus]
  /\ limited \subseteq Crew
  /\ seededBy \subseteq {"two readers", "failure", "by hand"}
  /\ \A c \in Commands : command[c] # "new" \/ answers[c] # {} => c \in received

\* The templates of a production are each default once, when one has listed them and nobody is
\* still seeding, unless two listings found none at once, a seeding failed half way, or they
\* were edited.
TemplatesAreSeeded ==
  seededBy = {} /\ ~NoTemplates =>
    \A n \in Names :
      template[n] + Cardinality({r \in Seeders : n \in seeding[r]})
        = IF n \in Defaults THEN 1 ELSE 0
=============================================================================
