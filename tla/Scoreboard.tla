------------------------------- MODULE Scoreboard -------------------------------
(***************************************************************************)
(* The overlays of one production (src/overlays/overlays.service.ts) and   *)
(* the match whose score they show (src/sports/sports.service.ts).         *)
(*                                                                         *)
(* The two write each other: a new score is written into the layers of the *)
(* active overlay, and every overlay that is activated or written makes    *)
(* the match read its score from the active one.  Each direction reads and *)
(* then writes.                                                            *)
(***************************************************************************)
EXTENDS Naturals, FiniteSets

CONSTANTS
  Overlays,         \* rows of overlayTemplate; an id is not used twice
  Scores,           \* what the layers and the match can say; 0 is in them
  Updates,          \* requests to toggle an overlay or to update the match, in progress at once
  Seeds,            \* runs of seedFromOverlay in progress at once
  NoOverlay,        \* null: no row, nothing read
  MaxScoreChanges,  \* bound on requests
  MaxScoreFailures  \* bound on requests that fail

ASSUME ScoreAssumption ==
  /\ 0 \in Scores
  /\ NoOverlay \notin Scores \cup Overlays
  /\ MaxScoreChanges \in Nat /\ MaxScoreFailures \in Nat

VARIABLES
  overlay,         \* the row of each overlay: whether it is active, and the score in its layers
  match,           \* matches: the score of the production, or NoOverlay
  isRunning,       \* match.isRunning
  clock,           \* timers: the production has an interval
  update,          \* the requests in progress
  seed,            \* the runs of seedFromOverlay in progress
  scoreFlaws,      \* history: what let the match and the overlay part
  scoreChanges, scoreFailures

scoreVars ==
  <<overlay, match, isRunning, clock, update, seed, scoreFlaws, scoreChanges, scoreFailures>>

Row == [active : BOOLEAN, shown : Scores]
NoUpdate == [step |-> "idle"]
NoSeed == [step |-> "idle"]

Active == {o \in Overlays : overlay[o] # NoOverlay /\ overlay[o].active}
Updating == {u \in Updates : update[u] # NoUpdate}
Seeding == {s \in Seeds : seed[s] # NoSeed}

Flawed(flaws) == scoreFlaws' = scoreFlaws \cup flaws

\* Someone writes the overlays or the match while another has read them and not yet written.
Crossing(others) == IF others = {} THEN {} ELSE {"crossed"}

ScoreRequest == scoreChanges < MaxScoreChanges /\ scoreChanges' = scoreChanges + 1

\* seedFromOverlay asks for the active overlay.
SeedBegins == \E s \in Seeds \ Seeding : seed' = [seed EXCEPT ![s] = [step |-> "ask"]]

\* Mutant: the match does not follow the overlays.
Listens_No == UNCHANGED seed

\* The events overlay.activated and overlay.template_updated.
Listens == SeedBegins

\* getMatch: the first to ask for the match creates it, and seeds it.
GetMatch ==
  IF match # NoOverlay THEN UNCHANGED <<match, isRunning, seed>>
  ELSE match' = 0 /\ isRunning' = FALSE /\ SeedBegins

-----------------------------------------------------------------------------
Create(o, active, shown) ==
  /\ ScoreRequest
  /\ overlay[o] = NoOverlay
  /\ overlay' = [overlay EXCEPT ![o] = [active |-> active, shown |-> shown]]
  /\ Flawed(IF active THEN {"active by form"} ELSE {})
  /\ UNCHANGED <<match, isRunning, clock, update, seed, scoreFailures>>

\* A form may set isActive as well, and the other overlays are left as they are.
Update(o, active, shown) ==
  /\ ScoreRequest
  /\ overlay[o] # NoOverlay
  /\ overlay' = [overlay EXCEPT ![o] = [active |-> active, shown |-> shown]]
  /\ Flawed(Crossing(Updating \cup Seeding) \cup
       IF active /\ ~overlay[o].active THEN {"active by form"} ELSE {})
  /\ Listens
  /\ UNCHANGED <<match, isRunning, clock, update, scoreFailures>>

Remove(o) ==
  /\ ScoreRequest
  /\ overlay[o] # NoOverlay
  /\ overlay' = [overlay EXCEPT ![o] = NoOverlay]
  /\ UNCHANGED <<match, isRunning, clock, update, seed, scoreFlaws, scoreFailures>>

\* toggleActive off: one write, and only the list is announced.
Deactivate(o) ==
  /\ ScoreRequest
  /\ o \in Active
  /\ overlay' = [overlay EXCEPT ![o].active = FALSE]
  /\ UNCHANGED <<match, isRunning, clock, update, seed, scoreFlaws, scoreFailures>>

\* toggleActive on: the others are deactivated first.
Activate(u, o) ==
  /\ ScoreRequest
  /\ update[u] = NoUpdate
  /\ overlay[o] # NoOverlay
  /\ overlay' = [p \in Overlays |->
       IF overlay[p] = NoOverlay THEN NoOverlay ELSE [overlay[p] EXCEPT !.active = FALSE]]
  /\ update' = [update EXCEPT ![u] = [step |-> "activate", overlay |-> o]]
  /\ Flawed(Crossing(Updating \cup Seeding))
  /\ UNCHANGED <<match, isRunning, clock, seed, scoreFailures>>

\* The update of a row that is gone throws.
Activates(u) ==
  LET o == update[u].overlay
  IN /\ update[u].step = "activate"
     /\ update' = [update EXCEPT ![u] = NoUpdate]
     /\ IF overlay[o] = NoOverlay THEN UNCHANGED <<overlay, seed>>
        ELSE overlay' = [overlay EXCEPT ![o].active = TRUE] /\ Listens
     /\ UNCHANGED <<match, isRunning, clock, scoreFlaws, scoreChanges, scoreFailures>>

\* updateMatch: the match is changed at once, isRunning too if the form has it, and the score
\* goes to syncLayerContent.
UpdateMatch(u, score, running) ==
  /\ ScoreRequest
  /\ update[u] = NoUpdate
  /\ match' = score /\ isRunning' = running
  /\ IF match # NoOverlay THEN UNCHANGED seed ELSE SeedBegins
  /\ update' = [update EXCEPT ![u] = [step |-> "sync", score |-> score]]
  /\ Flawed(Crossing(Updating \cup Seeding) \cup
       IF match = NoOverlay THEN {"crossed"} ELSE {})
  /\ UNCHANGED <<overlay, clock, scoreFailures>>

SyncReads(u) ==
  /\ update[u].step = "sync"
  /\ IF Active = {} THEN update' = [update EXCEPT ![u] = NoUpdate]
     ELSE \E o \in Active :
            update' = [update EXCEPT ![u] = [step |-> "write", overlay |-> o,
                                             score |-> update[u].score]]
  /\ UNCHANGED <<overlay, match, isRunning, clock, seed, scoreFlaws, scoreChanges, scoreFailures>>

\* The layers that were read are written back, with the score in the one bound to it.
SyncWrites(u) ==
  LET o == update[u].overlay
  IN /\ update[u].step = "write"
     /\ update' = [update EXCEPT ![u] = NoUpdate]
     /\ IF overlay[o] = NoOverlay THEN UNCHANGED <<overlay, seed>>
        ELSE overlay' = [overlay EXCEPT ![o].shown = update[u].score] /\ Listens
     /\ UNCHANGED <<match, isRunning, clock, scoreFlaws, scoreChanges, scoreFailures>>

\* The match of a production is asked for.
Ask ==
  /\ ScoreRequest
  /\ match = NoOverlay /\ GetMatch
  /\ Flawed(Crossing(Updating))
  /\ UNCHANGED <<overlay, clock, update, scoreFailures>>

\* POST seed.
Seed ==
  /\ ScoreRequest
  /\ SeedBegins
  /\ Flawed(Crossing(Updating))
  /\ UNCHANGED <<overlay, match, isRunning, clock, update, scoreFailures>>

SeedReads(s) ==
  /\ seed[s].step = "ask"
  /\ IF Active = {} THEN seed' = [seed EXCEPT ![s] = NoSeed]
     ELSE \E o \in Active :
            seed' = [seed EXCEPT ![s] = [step |-> "apply", shown |-> overlay[o].shown]]
  /\ UNCHANGED <<overlay, match, isRunning, clock, update, scoreFlaws, scoreChanges, scoreFailures>>

\* The answer.  A match that is not there yet is created, and seeded once more.
SeedApplies(s) ==
  /\ seed[s].step = "apply"
  /\ match' = seed[s].shown
  /\ isRunning' = IF match = NoOverlay THEN FALSE ELSE isRunning
  /\ seed' = [seed EXCEPT ![s] = IF match = NoOverlay THEN [step |-> "ask"] ELSE NoSeed]
  /\ UNCHANGED <<overlay, clock, update, scoreFlaws, scoreChanges, scoreFailures>>

\* toggleTimer: the interval is cleared, and set again if the match now runs.
ToggleTimer ==
  /\ ScoreRequest
  /\ match # NoOverlay
  /\ isRunning' = ~isRunning
  /\ clock' = isRunning'
  /\ UNCHANGED <<overlay, match, update, seed, scoreFlaws, scoreFailures>>

-----------------------------------------------------------------------------
\* A query of a request or of a seed throws.
UpdateFails(u) ==
  /\ update[u] # NoUpdate
  /\ scoreFailures < MaxScoreFailures /\ scoreFailures' = scoreFailures + 1
  /\ update' = [update EXCEPT ![u] = NoUpdate]
  /\ Flawed({"failed"})
  /\ UNCHANGED <<overlay, match, isRunning, clock, seed, scoreChanges>>

SeedFails(s) ==
  /\ seed[s] # NoSeed
  /\ scoreFailures < MaxScoreFailures /\ scoreFailures' = scoreFailures + 1
  /\ seed' = [seed EXCEPT ![s] = NoSeed]
  /\ Flawed({"failed"})
  /\ UNCHANGED <<overlay, match, isRunning, clock, update, scoreChanges>>

\* A restart forgets the match, its clock and what is in progress.
ScoreRestarts ==
  /\ scoreFailures < MaxScoreFailures /\ scoreFailures' = scoreFailures + 1
  /\ match' = NoOverlay /\ isRunning' = FALSE /\ clock' = FALSE
  /\ update' = [u \in Updates |-> NoUpdate]
  /\ seed' = [s \in Seeds |-> NoSeed]
  /\ UNCHANGED <<overlay, scoreFlaws, scoreChanges>>

ScoreInit ==
  /\ overlay = [o \in Overlays |-> NoOverlay]
  /\ match = NoOverlay /\ isRunning = FALSE /\ clock = FALSE
  /\ update = [u \in Updates |-> NoUpdate]
  /\ seed = [s \in Seeds |-> NoSeed]
  /\ scoreFlaws = {} /\ scoreChanges = 0 /\ scoreFailures = 0

ScoreNext ==
  \/ \E o \in Overlays :
       \/ Remove(o) \/ Deactivate(o) \/ \E u \in Updates : Activate(u, o)
       \/ \E active \in BOOLEAN, shown \in Scores : Create(o, active, shown) \/ Update(o, active, shown)
  \/ \E u \in Updates :
       \/ \E score \in Scores, running \in BOOLEAN : UpdateMatch(u, score, running)
       \/ update[u] # NoUpdate /\ (Activates(u) \/ SyncReads(u) \/ SyncWrites(u))
       \/ UpdateFails(u)
  \/ \E s \in Seeds : (seed[s] # NoSeed /\ (SeedReads(s) \/ SeedApplies(s))) \/ SeedFails(s)
  \/ Ask \/ Seed \/ ToggleTimer \/ ScoreRestarts

ScoreSpec == ScoreInit /\ [][ScoreNext]_scoreVars

-----------------------------------------------------------------------------
(***************************************************************************)
(* Properties                                                              *)
(***************************************************************************)

\* The types of the state.
ScoreTypeOK ==
  /\ overlay \in [Overlays -> Row \cup {NoOverlay}]
  /\ match \in Scores \cup {NoOverlay}
  /\ isRunning \in BOOLEAN /\ clock \in BOOLEAN
  /\ scoreFlaws \subseteq {"crossed", "active by form", "failed"}

\* At most one overlay is active, and once nothing is on its way it shows the score of the
\* match, unless requests crossed, one failed, or an overlay was made active by a form.
ScoreIsShown ==
  scoreFlaws = {} =>
    /\ Cardinality(Active) <= 1
    /\ Updating \cup Seeding = {} /\ match # NoOverlay =>
         \A o \in Active : overlay[o].shown = match
=============================================================================
