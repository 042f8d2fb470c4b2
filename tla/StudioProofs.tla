------------------------------ MODULE StudioProofs ------------------------------
(***************************************************************************)
(* Proofs about what runs beside the engines, for any schedules, hubs,     *)
(* processes, guests, overlays and instances, component by component; then *)
(* the composition.  Each component's part gives the inductive invariant   *)
(* behind its property.                                                    *)
(***************************************************************************)
EXTENDS MCStudio, CloudEgressProofs, FiniteSetTheorems, SequenceTheorems, TLAPS

-----------------------------------------------------------------------------
(***************************************************************************)
(* The overlays and their match.                                           *)
(*                                                                         *)
(* That the active overlay shows the score at rest depends on what is on   *)
(* its way: a toggle has deactivated every overlay, an update of the match *)
(* has found the active one, and a seeding has read what is still shown.   *)
(***************************************************************************)
\* What a request and a seeding hold while they are in progress.
UpdateWork ==
  [step : {"activate"}, overlay : Overlays]
    \cup [step : {"sync"}, score : Scores]
    \cup [step : {"write"}, overlay : Overlays, score : Scores]

SeedWork == [step : {"ask"}] \cup [step : {"apply"}, shown : Scores]

ScoreStateTyped ==
  /\ ScoreTypeOK
  /\ update \in [Updates -> UpdateWork \cup {NoUpdate}]
  /\ seed \in [Seeds -> SeedWork \cup {NoSeed}]

\* Without flaws one request works on the overlays, and no seeding beside it.  What it is about
\* to activate is not beside an active overlay, what it is about to write is the active one if
\* any is; and what a seeding has read is still shown.
ScoreAgrees ==
  /\ \A o, p \in Active : o = p
  /\ \A u, v \in Updating : u = v
  /\ Updating = {} \/ Seeding = {}
  /\ \A u \in Updating : /\ update[u].step = "activate" => Active = {}
                         /\ update[u].step = "write" => Active \subseteq {update[u].overlay}
  /\ \A s \in Seeding : seed[s].step = "apply" =>
       \A o \in Active : overlay[o].shown = seed[s].shown
  /\ Updating \cup Seeding = {} /\ match # NoOverlay =>
       \A o \in Active : overlay[o].shown = match

ScoreIInv == ScoreStateTyped /\ (scoreFlaws = {} => ScoreAgrees)

LEMMA NothingIsNoWork == NoUpdate \notin UpdateWork /\ NoSeed \notin SeedWork
  BY DEF NoUpdate, NoSeed, UpdateWork, SeedWork

LEMMA UpdateWorkFields ==
  ASSUME NEW w \in UpdateWork
  PROVE  /\ w.step \in {"activate", "sync", "write"}
         /\ w.step \in {"activate", "write"} => w.overlay \in Overlays
         /\ w.step \in {"sync", "write"} => w.score \in Scores
  BY DEF UpdateWork

LEMMA SeedWorkFields ==
  ASSUME NEW w \in SeedWork
  PROVE  w.step \in {"ask", "apply"} /\ (w.step = "apply" => w.shown \in Scores)
  BY DEF SeedWork

LEMMA RowFields ==
  ASSUME NEW row \in Row
  PROVE  row.active \in BOOLEAN /\ row.shown \in Scores
  BY DEF Row

\* A seeding that begins has read nothing.
LEMMA SeedBeginsEffect ==
  ASSUME ScoreStateTyped, SeedBegins
  PROVE  /\ seed' \in [Seeds -> SeedWork \cup {NoSeed}] /\ Seeding' # {}
         /\ \A s \in Seeding' : seed'[s].step = "apply" => s \in Seeding /\ seed'[s] = seed[s]
<1> DEFINE new == [step |-> "ask"]
<1>1. PICK s \in Seeds : seed' = [seed EXCEPT ![s] = new]
  BY DEF SeedBegins
<1>2. new \in SeedWork /\ new.step = "ask"
  BY DEF SeedWork
<1> HIDE DEF new
<1>3. seed' \in [Seeds -> SeedWork \cup {NoSeed}] /\ seed'[s] = new
      /\ \A t \in Seeds \ {s} : seed'[t] = seed[t]
  BY <1>1, <1>2 DEF ScoreStateTyped
<1>4. s \in Seeding'
  BY <1>2, <1>3, NothingIsNoWork DEF Seeding
<1> QED  BY <1>2, <1>3, <1>4 DEF Seeding

LEMMA SeedSetEffect ==
  ASSUME ScoreStateTyped, NEW s \in Seeds, NEW new \in SeedWork \cup {NoSeed},
         seed' = [seed EXCEPT ![s] = new]
  PROVE  /\ seed' \in [Seeds -> SeedWork \cup {NoSeed}] /\ seed'[s] = new
         /\ \A t \in Seeds \ {s} : seed'[t] = seed[t]
         /\ Seeding' = (Seeding \ {s}) \cup IF new = NoSeed THEN {} ELSE {s}
  BY DEF ScoreStateTyped, Seeding

LEMMA UpdateSetEffect ==
  ASSUME ScoreStateTyped, NEW u \in Updates, NEW new \in UpdateWork \cup {NoUpdate},
         update' = [update EXCEPT ![u] = new]
  PROVE  /\ update' \in [Updates -> UpdateWork \cup {NoUpdate}] /\ update'[u] = new
         /\ \A v \in Updates \ {u} : update'[v] = update[v]
         /\ Updating' = (Updating \ {u}) \cup IF new = NoUpdate THEN {} ELSE {u}
  BY DEF ScoreStateTyped, Updating

\* No overlay becomes active or shows anything else, and no request begins.
LEMMA ScoreStays ==
  ASSUME ScoreAgrees,
         \A o \in Active' : o \in Active /\ overlay'[o].shown = overlay[o].shown,
         \A u \in Updating' : u \in Updating /\ update'[u] = update[u],
         \A s \in Seeding' : seed'[s].step = "apply" => s \in Seeding /\ seed'[s] = seed[s],
         Updating' = {} \/ Seeding' = {},
         Updating' \cup Seeding' = {} /\ match' # NoOverlay =>
           \A o \in Active' : overlay'[o].shown = match'
  PROVE  ScoreAgrees'
  BY DEF ScoreAgrees

\* The rows of the overlays are created, removed and deactivated beside everything else.
LEMMA OverlayStep ==
  ASSUME ScoreIInv, NEW o \in Overlays,
         \/ Remove(o) \/ Deactivate(o)
         \/ \E isActive \in BOOLEAN, shown \in Scores : Create(o, isActive, shown)
  PROVE  ScoreIInv'
<1>1. /\ ScoreStateTyped /\ scoreFlaws \subseteq scoreFlaws'
      /\ scoreFlaws' \subseteq {"crossed", "active by form", "failed"}
      /\ UNCHANGED <<match, isRunning, clock, update, seed>>
      /\ Updating' = Updating /\ Seeding' = Seeding
  BY DEF ScoreIInv, ScoreStateTyped, ScoreTypeOK, Remove, Deactivate, Create, Flawed, Updating, Seeding
<1>2. PICK new : overlay' = [overlay EXCEPT ![o] = new] /\ new \in Row \cup {NoOverlay}
                 /\ (scoreFlaws' = {} => new = NoOverlay \/ ~new.active)
  <2>1. CASE Remove(o)
    BY <2>1 DEF Remove
  <2>2. CASE Deactivate(o)
    <3> DEFINE row == [overlay[o] EXCEPT !.active = FALSE]
    <3>1. overlay[o] \in Row
      BY <1>1, <2>2 DEF Deactivate, Active, ScoreStateTyped, ScoreTypeOK
    <3>2. row \in Row /\ ~row.active
      BY <3>1 DEF Row
    <3>3. overlay' = [overlay EXCEPT ![o] = row]
      BY <2>2 DEF Deactivate
    <3> HIDE DEF row
    <3> QED  BY <3>2, <3>3
  <2>3. ASSUME NEW isActive \in BOOLEAN, NEW shown \in Scores, Create(o, isActive, shown)
        PROVE  \E new : overlay' = [overlay EXCEPT ![o] = new] /\ new \in Row \cup {NoOverlay}
                        /\ (scoreFlaws' = {} => new = NoOverlay \/ ~new.active)
    <3> DEFINE row == [active |-> isActive, shown |-> shown]
    <3>1. row \in Row /\ row.active = isActive /\ overlay' = [overlay EXCEPT ![o] = row]
      BY <2>3 DEF Create, Row
    <3>2. scoreFlaws' = {} => ~isActive
      BY <2>3 DEF Create, Flawed
    <3> HIDE DEF row
    <3> QED  BY <3>1, <3>2
  <2> QED  BY <2>1, <2>2, <2>3
<1>3. overlay' \in [Overlays -> Row \cup {NoOverlay}]
  BY <1>1, <1>2 DEF ScoreStateTyped, ScoreTypeOK
<1>4. ScoreStateTyped'
  BY <1>1, <1>3 DEF ScoreStateTyped, ScoreTypeOK
<1>5. ASSUME scoreFlaws' = {}  PROVE ScoreAgrees'
  <2>1. ScoreAgrees
    BY <1>1, <1>5 DEF ScoreIInv
  <2>2. \A p \in Active' : p \in Active /\ overlay'[p] = overlay[p]
    BY <1>1, <1>2, <1>5 DEF Active, ScoreStateTyped, ScoreTypeOK
  <2> QED  BY <1>1, <2>1, <2>2, ScoreStays DEF ScoreAgrees
<1> QED  BY <1>4, <1>5 DEF ScoreIInv

LEMMA UpdateStep ==
  ASSUME ScoreIInv, NEW o \in Overlays, NEW isActive \in BOOLEAN, NEW shown \in Scores,
         Update(o, isActive, shown)
  PROVE  ScoreIInv'
<1> DEFINE row == [active |-> isActive, shown |-> shown]
<1>1. /\ ScoreStateTyped /\ overlay[o] # NoOverlay
      /\ overlay' = [overlay EXCEPT ![o] = row] /\ SeedBegins
      /\ UNCHANGED <<match, isRunning, clock, update>>
      /\ row \in Row /\ row.active = isActive
  BY DEF ScoreIInv, Update, Listens, Row
<1>2. /\ scoreFlaws \subseteq scoreFlaws'
      /\ scoreFlaws' \subseteq {"crossed", "active by form", "failed"}
      /\ scoreFlaws' = {} => Updating \cup Seeding = {} /\ (isActive => overlay[o].active)
  BY <1>1 DEF Update, Flawed, Crossing, ScoreStateTyped, ScoreTypeOK
<1> HIDE DEF row
<1>3. /\ seed' \in [Seeds -> SeedWork \cup {NoSeed}] /\ Seeding' # {}
      /\ \A s \in Seeding' : seed'[s].step = "apply" => s \in Seeding /\ seed'[s] = seed[s]
  BY <1>1, SeedBeginsEffect
<1>4. /\ overlay' \in [Overlays -> Row \cup {NoOverlay}] /\ overlay'[o] = row
      /\ \A p \in Overlays \ {o} : overlay'[p] = overlay[p]
  BY <1>1 DEF ScoreStateTyped, ScoreTypeOK
<1>5. ScoreStateTyped'
  BY <1>1, <1>2, <1>3, <1>4 DEF ScoreStateTyped, ScoreTypeOK
<1>6. ASSUME scoreFlaws' = {}  PROVE ScoreAgrees'
  <2>1. ScoreAgrees /\ Updating' = {} /\ Seeding = {}
    BY <1>1, <1>2, <1>6 DEF ScoreIInv, Updating
  <2>2. Active' \subseteq Active
    BY <1>1, <1>2, <1>4, <1>6 DEF Active
  <2> QED  BY <1>3, <2>1, <2>2 DEF ScoreAgrees
<1> QED  BY <1>5, <1>6 DEF ScoreIInv

LEMMA ActivateStep ==
  ASSUME ScoreIInv, NEW u \in Updates, NEW o \in Overlays, Activate(u, o)
  PROVE  ScoreIInv'
<1> DEFINE new == [step |-> "activate", overlay |-> o]
<1>1. /\ ScoreStateTyped /\ update' = [update EXCEPT ![u] = new]
      /\ overlay' = [p \in Overlays |-> IF overlay[p] = NoOverlay THEN NoOverlay
                                        ELSE [overlay[p] EXCEPT !.active = FALSE]]
      /\ UNCHANGED <<match, isRunning, clock, seed>>
  BY DEF ScoreIInv, Activate
<1>2. /\ scoreFlaws \subseteq scoreFlaws'
      /\ scoreFlaws' \subseteq {"crossed", "active by form", "failed"}
      /\ scoreFlaws' = {} => Updating \cup Seeding = {}
  BY <1>1 DEF Activate, Flawed, Crossing, ScoreStateTyped, ScoreTypeOK
<1>3. new \in UpdateWork /\ new.step = "activate"
  BY DEF UpdateWork
<1> HIDE DEF new
<1>4. /\ update' \in [Updates -> UpdateWork \cup {NoUpdate}] /\ update'[u] = new
      /\ Updating' = Updating \cup {u}
  BY <1>1, <1>3, UpdateSetEffect, NothingIsNoWork
<1>5. /\ overlay' \in [Overlays -> Row \cup {NoOverlay}] /\ Active' = {}
  <2>1. \A p \in Overlays : overlay[p] # NoOverlay =>
          /\ [overlay[p] EXCEPT !.active = FALSE] \in Row
          /\ ~[overlay[p] EXCEPT !.active = FALSE].active
    BY <1>1 DEF ScoreStateTyped, ScoreTypeOK, Row
  <2>2. overlay' \in [Overlays -> Row \cup {NoOverlay}]
    BY <1>1, <2>1
  <2>3. ASSUME NEW p \in Active'  PROVE FALSE
    BY <1>1, <2>1, <2>3 DEF Active
  <2> QED  BY <2>2, <2>3
<1>6. ScoreStateTyped'
  BY <1>1, <1>2, <1>4, <1>5 DEF ScoreStateTyped, ScoreTypeOK
<1>7. ASSUME scoreFlaws' = {}  PROVE ScoreAgrees'
  <2>1. Updating' \subseteq {u} /\ Seeding' = {}
    BY <1>1, <1>2, <1>4, <1>7 DEF Seeding
  <2> QED  BY <1>5, <2>1 DEF ScoreAgrees
<1> QED  BY <1>6, <1>7 DEF ScoreIInv

\* What an update writes last: its row is shown, or its activation is done, or the row is gone.
LEMMA WritesStep ==
  ASSUME ScoreIInv, NEW u \in Updates, update[u] # NoUpdate, Activates(u) \/ SyncWrites(u)
  PROVE  ScoreIInv'
<1>1. /\ ScoreStateTyped /\ update' = [update EXCEPT ![u] = NoUpdate]
      /\ UNCHANGED <<match, isRunning, clock, scoreFlaws>> /\ update[u] \in UpdateWork
      /\ update[u].step \in {"activate", "write"}
  BY DEF ScoreIInv, ScoreStateTyped, Activates, SyncWrites
<1>2. PICK o \in Overlays : o = update[u].overlay
  BY <1>1, UpdateWorkFields
<1>3. /\ update' \in [Updates -> UpdateWork \cup {NoUpdate}] /\ Updating' = Updating \ {u}
      /\ u \in Updating
  BY <1>1, UpdateSetEffect DEF Updating
<1>4. ASSUME scoreFlaws = {}
      PROVE  /\ ScoreAgrees /\ Updating' = {} /\ Seeding = {} /\ Active \subseteq {o}
             /\ update[u].step = "activate" => Active = {}
  BY <1>1, <1>2, <1>3, <1>4 DEF ScoreIInv, ScoreAgrees
<1>5. CASE overlay[o] = NoOverlay
  <2>1. UNCHANGED <<overlay, seed>>
    BY <1>2, <1>5 DEF Activates, SyncWrites
  <2>2. Active' = Active /\ Seeding' = Seeding /\ o \notin Active
    BY <1>5, <2>1 DEF Active, Seeding
  <2>3. ScoreStateTyped'
    BY <1>1, <1>3, <2>1 DEF ScoreStateTyped, ScoreTypeOK
  <2>4. ASSUME scoreFlaws' = {}  PROVE ScoreAgrees'
    BY <1>1, <1>4, <2>2, <2>4 DEF ScoreAgrees
  <2> QED  BY <2>3, <2>4 DEF ScoreIInv
<1>6. CASE overlay[o] # NoOverlay
  <2>1. SeedBegins
    BY <1>2, <1>6 DEF Activates, SyncWrites, Listens
  <2>2. PICK row \in Row : overlay' = [overlay EXCEPT ![o] = row]
    <3>1. overlay[o] \in Row
      BY <1>1, <1>6 DEF ScoreStateTyped, ScoreTypeOK
    <3>2. CASE Activates(u)
      <4>1. [overlay[o] EXCEPT !.active = TRUE] \in Row
        BY <3>1 DEF Row
      <4> QED  BY <1>2, <1>6, <3>2, <4>1 DEF Activates
    <3>3. CASE SyncWrites(u)
      <4>1. update[u].score \in Scores
        BY <1>1, <3>3, UpdateWorkFields DEF SyncWrites
      <4>2. [overlay[o] EXCEPT !.shown = update[u].score] \in Row
        BY <3>1, <4>1 DEF Row
      <4> QED  BY <1>2, <1>6, <3>3, <4>2 DEF SyncWrites
    <3> QED  BY <3>2, <3>3
  <2>3. /\ overlay' \in [Overlays -> Row \cup {NoOverlay}]
        /\ \A p \in Overlays \ {o} : overlay'[p] = overlay[p]
    BY <1>1, <2>2 DEF ScoreStateTyped, ScoreTypeOK
  <2>4. /\ seed' \in [Seeds -> SeedWork \cup {NoSeed}] /\ Seeding' # {}
        /\ \A s \in Seeding' : seed'[s].step = "apply" => s \in Seeding /\ seed'[s] = seed[s]
    BY <1>1, <2>1, SeedBeginsEffect
  <2>5. ScoreStateTyped'
    BY <1>1, <1>3, <2>3, <2>4 DEF ScoreStateTyped, ScoreTypeOK
  <2>6. ASSUME scoreFlaws' = {}  PROVE ScoreAgrees'
    <3>1. Active' \subseteq {o}
      BY <1>1, <1>4, <2>3, <2>6 DEF Active
    <3> QED  BY <1>1, <1>4, <2>4, <2>6, <3>1 DEF ScoreAgrees
  <2> QED  BY <2>5, <2>6 DEF ScoreIInv
<1> QED  BY <1>5, <1>6

LEMMA UpdateMatchStep ==
  ASSUME ScoreIInv, NEW u \in Updates, NEW score \in Scores, NEW runs \in BOOLEAN,
         UpdateMatch(u, score, runs)
  PROVE  ScoreIInv'
<1> DEFINE new == [step |-> "sync", score |-> score]
<1>1. /\ ScoreStateTyped /\ update' = [update EXCEPT ![u] = new]
      /\ match' = score /\ isRunning' = runs /\ UNCHANGED <<overlay, clock>>
      /\ IF match # NoOverlay THEN UNCHANGED seed ELSE SeedBegins
  BY DEF ScoreIInv, UpdateMatch
<1>2. /\ scoreFlaws \subseteq scoreFlaws'
      /\ scoreFlaws' \subseteq {"crossed", "active by form", "failed"}
      /\ scoreFlaws' = {} => Updating \cup Seeding = {} /\ match # NoOverlay
  BY <1>1 DEF UpdateMatch, Flawed, Crossing, ScoreStateTyped, ScoreTypeOK
<1>3. new \in UpdateWork /\ new.step = "sync"
  BY DEF UpdateWork
<1> HIDE DEF new
<1>4. /\ update' \in [Updates -> UpdateWork \cup {NoUpdate}] /\ update'[u] = new
      /\ Updating' = Updating \cup {u}
  BY <1>1, <1>3, UpdateSetEffect, NothingIsNoWork
<1>5. seed' \in [Seeds -> SeedWork \cup {NoSeed}]
  BY <1>1, SeedBeginsEffect DEF ScoreStateTyped
<1>6. ScoreStateTyped'
  BY <1>1, <1>2, <1>4, <1>5 DEF ScoreStateTyped, ScoreTypeOK
<1>7. ASSUME scoreFlaws' = {}  PROVE ScoreAgrees'
  <2>1. /\ ScoreAgrees /\ Updating' = {u} /\ Seeding' = {} /\ Active' = Active
    BY <1>1, <1>2, <1>4, <1>7 DEF ScoreIInv, Seeding, Active
  <2> QED  BY <1>1, <1>3, <1>4, <2>1 DEF ScoreAgrees
<1> QED  BY <1>6, <1>7 DEF ScoreIInv

LEMMA SyncReadsStep ==
  ASSUME ScoreIInv, NEW u \in Updates, update[u] # NoUpdate, SyncReads(u)
  PROVE  ScoreIInv'
<1>1. /\ ScoreStateTyped /\ update[u] \in UpdateWork /\ u \in Updating
      /\ update[u].step = "sync"
      /\ UNCHANGED <<overlay, match, isRunning, clock, seed, scoreFlaws>>
      /\ Active' = Active /\ Seeding' = Seeding
  BY DEF ScoreIInv, ScoreStateTyped, SyncReads, Updating, Active, Seeding
<1>2. CASE Active = {}
  <2>1. update' = [update EXCEPT ![u] = NoUpdate]
    BY <1>2 DEF SyncReads
  <2>2. /\ update' \in [Updates -> UpdateWork \cup {NoUpdate}] /\ Updating' = Updating \ {u}
        /\ \A v \in Updates \ {u} : update'[v] = update[v]
    BY <1>1, <2>1, UpdateSetEffect
  <2>3. ScoreStateTyped'
    BY <1>1, <2>2 DEF ScoreStateTyped, ScoreTypeOK
  <2>4. ASSUME scoreFlaws' = {}  PROVE ScoreAgrees'
    BY <1>1, <1>2, <2>2, <2>4 DEF ScoreIInv, ScoreAgrees
  <2> QED  BY <2>3, <2>4 DEF ScoreIInv
<1>3. CASE Active # {}
  <2>1. PICK o \in Active :
          update' = [update EXCEPT ![u] = [step |-> "write", overlay |-> o,
                                           score |-> update[u].score]]
    BY <1>3 DEF SyncReads
  <2> DEFINE new == [step |-> "write", overlay |-> o, score |-> update[u].score]
  <2>2. update[u].score \in Scores /\ o \in Overlays
    BY <1>1, UpdateWorkFields DEF Active
  <2>3. new \in UpdateWork /\ new.step = "write" /\ new.overlay = o
    BY <2>2 DEF UpdateWork
  <2>4. update' = [update EXCEPT ![u] = new]
    BY <2>1
  <2> HIDE DEF new
  <2>5. /\ update' \in [Updates -> UpdateWork \cup {NoUpdate}] /\ update'[u] = new
        /\ Updating' = Updating \cup {u}
    BY <1>1, <2>3, <2>4, UpdateSetEffect, NothingIsNoWork
  <2>6. ScoreStateTyped'
    BY <1>1, <2>5 DEF ScoreStateTyped, ScoreTypeOK
  <2>7. ASSUME scoreFlaws' = {}  PROVE ScoreAgrees'
    <3>1. ScoreAgrees /\ Updating' = {u} /\ Seeding = {}
      BY <1>1, <2>5, <2>7 DEF ScoreIInv, ScoreAgrees
    <3> QED  BY <1>1, <2>3, <2>5, <3>1 DEF ScoreAgrees
  <2> QED  BY <2>6, <2>7 DEF ScoreIInv
<1> QED  BY <1>2, <1>3

\* The match is asked for, or seeded on request.
LEMMA AsksStep ==
  ASSUME ScoreIInv, Ask \/ Seed
  PROVE  ScoreIInv'
<1>1. /\ ScoreStateTyped /\ SeedBegins /\ UNCHANGED <<overlay, clock, update>>
      /\ match' \in Scores \cup {NoOverlay} /\ isRunning' \in BOOLEAN
      /\ Active' = Active /\ Updating' = Updating
  BY ScoreAssumption DEF ScoreIInv, ScoreStateTyped, ScoreTypeOK, Ask, Seed, GetMatch, Active, Updating
<1>2. /\ scoreFlaws \subseteq scoreFlaws'
      /\ scoreFlaws' \subseteq {"crossed", "active by form", "failed"}
      /\ scoreFlaws' = {} => Updating = {}
  BY <1>1 DEF Ask, Seed, Flawed, Crossing, ScoreStateTyped, ScoreTypeOK
<1>3. /\ seed' \in [Seeds -> SeedWork \cup {NoSeed}] /\ Seeding' # {}
      /\ \A s \in Seeding' : seed'[s].step = "apply" => s \in Seeding /\ seed'[s] = seed[s]
  BY <1>1, SeedBeginsEffect
<1>4. ScoreStateTyped'
  BY <1>1, <1>2, <1>3 DEF ScoreStateTyped, ScoreTypeOK
<1>5. ASSUME scoreFlaws' = {}  PROVE ScoreAgrees'
  <2>1. ScoreAgrees /\ Updating' = {}
    BY <1>1, <1>2, <1>5 DEF ScoreIInv
  <2> QED  BY <1>1, <1>3, <2>1, ScoreStays
<1> QED  BY <1>4, <1>5 DEF ScoreIInv

LEMMA SeedReadsStep ==
  ASSUME ScoreIInv, NEW s \in Seeds, seed[s] # NoSeed, SeedReads(s)
  PROVE  ScoreIInv'
<1>1. /\ ScoreStateTyped /\ s \in Seeding /\ seed[s].step = "ask"
      /\ UNCHANGED <<overlay, match, isRunning, clock, update, scoreFlaws>>
      /\ Active' = Active /\ Updating' = Updating
  BY DEF ScoreIInv, SeedReads, Seeding, Active, Updating
<1>2. CASE Active = {}
  <2>1. seed' = [seed EXCEPT ![s] = NoSeed]
    BY <1>2 DEF SeedReads
  <2>2. /\ seed' \in [Seeds -> SeedWork \cup {NoSeed}] /\ Seeding' = Seeding \ {s}
        /\ \A t \in Seeds \ {s} : seed'[t] = seed[t]
    BY <1>1, <2>1, SeedSetEffect
  <2>3. ScoreStateTyped'
    BY <1>1, <2>2 DEF ScoreStateTyped, ScoreTypeOK
  <2>4. ASSUME scoreFlaws' = {}  PROVE ScoreAgrees'
    BY <1>1, <1>2, <2>2, <2>4 DEF ScoreIInv, ScoreAgrees
  <2> QED  BY <2>3, <2>4 DEF ScoreIInv
<1>3. CASE Active # {}
  <2>1. PICK o \in Active :
          seed' = [seed EXCEPT ![s] = [step |-> "apply", shown |-> overlay[o].shown]]
    BY <1>3 DEF SeedReads
  <2> DEFINE new == [step |-> "apply", shown |-> overlay[o].shown]
  <2>2. overlay[o].shown \in Scores
    BY <1>1, RowFields DEF Active, ScoreStateTyped, ScoreTypeOK
  <2>3. new \in SeedWork /\ new.step = "apply" /\ new.shown = overlay[o].shown
    BY <2>2 DEF SeedWork
  <2>4. seed' = [seed EXCEPT ![s] = new]
    BY <2>1
  <2> HIDE DEF new
  <2>5. /\ seed' \in [Seeds -> SeedWork \cup {NoSeed}] /\ seed'[s] = new
        /\ Seeding' = Seeding \cup {s}
        /\ \A t \in Seeds \ {s} : seed'[t] = seed[t]
    BY <1>1, <2>3, <2>4, SeedSetEffect, NothingIsNoWork
  <2>6. ScoreStateTyped'
    BY <1>1, <2>5 DEF ScoreStateTyped, ScoreTypeOK
  <2>7. ASSUME scoreFlaws' = {}  PROVE ScoreAgrees'
    <3>1. ScoreAgrees /\ Updating' = {}
      BY <1>1, <2>7 DEF ScoreIInv, ScoreAgrees
    <3>2. \A p \in Active : p = o
      BY <2>1, <3>1 DEF ScoreAgrees
    <3>3. \A t \in Seeding' : seed'[t].step = "apply" =>
            \A p \in Active' : overlay'[p].shown = seed'[t].shown
      BY <1>1, <2>3, <2>5, <3>1, <3>2 DEF ScoreAgrees, Seeding
    <3>4. Updating' \cup Seeding' # {}
      BY <2>5
    <3> QED  BY <1>1, <3>1, <3>3, <3>4 DEF ScoreAgrees
  <2> QED  BY <2>6, <2>7 DEF ScoreIInv
<1> QED  BY <1>2, <1>3

LEMMA SeedAppliesStep ==
  ASSUME ScoreIInv, NEW s \in Seeds, seed[s] # NoSeed, SeedApplies(s)
  PROVE  ScoreIInv'
<1>1. /\ ScoreStateTyped /\ s \in Seeding /\ seed[s] \in SeedWork /\ seed[s].step = "apply"
      /\ UNCHANGED <<overlay, clock, update, scoreFlaws>>
      /\ match' = seed[s].shown /\ isRunning' \in BOOLEAN
      /\ Active' = Active /\ Updating' = Updating
  BY DEF ScoreIInv, ScoreStateTyped, ScoreTypeOK, SeedApplies, Seeding, Active, Updating
<1>2. match' \in Scores
  BY <1>1, SeedWorkFields
<1>3. PICK new \in SeedWork \cup {NoSeed} :
        seed' = [seed EXCEPT ![s] = new] /\ (new = NoSeed \/ new.step = "ask")
  <2> DEFINE again == [step |-> "ask"]
  <2>1. again \in SeedWork /\ again.step = "ask"
    BY DEF SeedWork
  <2>2. seed' = [seed EXCEPT ![s] = IF match = NoOverlay THEN again ELSE NoSeed]
    BY DEF SeedApplies
  <2> HIDE DEF again
  <2> QED  BY <2>1, <2>2
<1>4. /\ seed' \in [Seeds -> SeedWork \cup {NoSeed}] /\ seed'[s] = new
      /\ \A t \in Seeds \ {s} : seed'[t] = seed[t]
  BY <1>1, <1>3, SeedSetEffect
<1>5. ScoreStateTyped'
  BY <1>1, <1>2, <1>4 DEF ScoreStateTyped, ScoreTypeOK
<1>6. ASSUME scoreFlaws' = {}  PROVE ScoreAgrees'
  <2>1. ScoreAgrees /\ Updating' = {}
    BY <1>1, <1>6 DEF ScoreIInv, ScoreAgrees
  <2>2. \A o \in Active' : overlay'[o].shown = match'
    BY <1>1, <2>1 DEF ScoreAgrees
  <2>3. \A t \in Seeding' : seed'[t].step = "apply" => t \in Seeding /\ seed'[t] = seed[t]
    BY <1>3, <1>4 DEF Seeding
  <2> QED  BY <1>1, <2>1, <2>2, <2>3, ScoreStays
<1> QED  BY <1>5, <1>6 DEF ScoreIInv

LEMMA ScoreFailsStep ==
  ASSUME ScoreIInv,
         \/ \E u \in Updates : UpdateFails(u)
         \/ \E s \in Seeds : SeedFails(s)
  PROVE  ScoreIInv'
<1>1. /\ ScoreStateTyped /\ UNCHANGED <<overlay, match, isRunning, clock>>
      /\ scoreFlaws' = scoreFlaws \cup {"failed"}
  BY DEF ScoreIInv, UpdateFails, SeedFails, Flawed
<1>2. /\ update' \in [Updates -> UpdateWork \cup {NoUpdate}]
      /\ seed' \in [Seeds -> SeedWork \cup {NoSeed}]
  BY <1>1 DEF UpdateFails, SeedFails, ScoreStateTyped
<1> QED  BY <1>1, <1>2 DEF ScoreIInv, ScoreStateTyped, ScoreTypeOK

LEMMA ScoreRestartsStep ==
  ASSUME ScoreIInv, ScoreRestarts
  PROVE  ScoreIInv'
<1>1. /\ match' = NoOverlay /\ isRunning' = FALSE /\ clock' = FALSE
      /\ update' = [u \in Updates |-> NoUpdate] /\ seed' = [s \in Seeds |-> NoSeed]
      /\ UNCHANGED <<overlay, scoreFlaws>>
  BY DEF ScoreRestarts
<1>2. Updating' = {} /\ Seeding' = {} /\ Active' = Active
  BY <1>1 DEF Updating, Seeding, Active
<1>3. ScoreStateTyped'
  BY <1>1 DEF ScoreIInv, ScoreStateTyped, ScoreTypeOK
<1>4. scoreFlaws' = {} => ScoreAgrees'
  BY <1>1, <1>2 DEF ScoreIInv, ScoreAgrees
<1> QED  BY <1>3, <1>4 DEF ScoreIInv

\* The clock is toggled, or nothing happens.
LEMMA ClockStep ==
  ASSUME ScoreIInv, ToggleTimer \/ UNCHANGED scoreVars
  PROVE  ScoreIInv'
<1>1. /\ UNCHANGED <<overlay, match, update, seed, scoreFlaws>>
      /\ isRunning' \in BOOLEAN /\ clock' \in BOOLEAN
      /\ Active' = Active /\ Updating' = Updating /\ Seeding' = Seeding
  BY DEF ScoreIInv, ScoreStateTyped, ScoreTypeOK, ToggleTimer, scoreVars, Active, Updating, Seeding
<1> QED  BY <1>1 DEF ScoreIInv, ScoreStateTyped, ScoreTypeOK, ScoreAgrees

\* The inductive invariant of the overlays and their match.
THEOREM ScoreInvariance == ScoreSpec => []ScoreIInv
<1>1. ScoreInit => ScoreIInv
  BY DEF ScoreInit, ScoreIInv, ScoreStateTyped, ScoreTypeOK, ScoreAgrees, Active, Updating, Seeding
<1>2. ScoreIInv /\ [ScoreNext]_scoreVars => ScoreIInv'
  <2> SUFFICES ASSUME ScoreIInv, [ScoreNext]_scoreVars  PROVE ScoreIInv'
    OBVIOUS
  <2>1. ASSUME NEW o \in Overlays,
               \/ Remove(o) \/ Deactivate(o) \/ \E u \in Updates : Activate(u, o)
               \/ \E isActive \in BOOLEAN, shown \in Scores :
                    Create(o, isActive, shown) \/ Update(o, isActive, shown)
        PROVE  ScoreIInv'
    BY <2>1, OverlayStep, ActivateStep, UpdateStep
  <2>2. ASSUME NEW u \in Updates, NEW score \in Scores, NEW runs \in BOOLEAN,
               UpdateMatch(u, score, runs)
        PROVE  ScoreIInv'
    BY <2>2, UpdateMatchStep
  <2>3. ASSUME NEW u \in Updates, update[u] # NoUpdate,
               Activates(u) \/ SyncReads(u) \/ SyncWrites(u)
        PROVE  ScoreIInv'
    BY <2>3, WritesStep, SyncReadsStep
  <2>4. ASSUME NEW s \in Seeds, seed[s] # NoSeed, SeedReads(s) \/ SeedApplies(s)
        PROVE  ScoreIInv'
    BY <2>4, SeedReadsStep, SeedAppliesStep
  <2>5. CASE (\E u \in Updates : UpdateFails(u)) \/ \E s \in Seeds : SeedFails(s)
    BY <2>5, ScoreFailsStep
  <2>6. CASE Ask \/ Seed \/ ToggleTimer \/ ScoreRestarts \/ UNCHANGED scoreVars
    BY <2>6, AsksStep, ClockStep, ScoreRestartsStep
  <2> QED  BY <2>1, <2>2, <2>3, <2>4, <2>5, <2>6 DEF ScoreNext
<1> QED  BY <1>1, <1>2, PTL DEF ScoreSpec

\* The types of the overlays, the match and its clock.
THEOREM ScoreTyped == ScoreSpec => []ScoreTypeOK
<1>1. ScoreIInv => ScoreTypeOK
  BY DEF ScoreIInv, ScoreStateTyped
<1> QED  BY <1>1, ScoreInvariance, PTL

LEMMA AtMostOne ==
  ASSUME NEW S, \A x, y \in S : x = y
  PROVE  Cardinality(S) <= 1
<1>1. CASE S = {}
  BY <1>1, FS_EmptySet
<1>2. CASE S # {}
  <2>1. PICK x \in S : S = {x}
    BY <1>2
  <2> QED  BY <2>1, FS_Singleton
<1> QED  BY <1>1, <1>2

\* One overlay at most is active, and at rest it shows the score of the match, unless requests
\* crossed, one failed, or a form made an overlay active.
THEOREM MatchIsShown == ScoreSpec => []ScoreIsShown
<1>1. ScoreIInv => ScoreIsShown
  BY AtMostOne DEF ScoreIInv, ScoreAgrees, ScoreIsShown
<1> QED  BY <1>1, ScoreInvariance, PTL

-----------------------------------------------------------------------------
(***************************************************************************)
(* The slots of guests.                                                    *)
(*                                                                         *)
(* The slots agree between requests because a request that nobody overtook *)
(* saves and sends what it read as it still is.  While requests are at     *)
(* work, one that has switched the engine accounts for a slot on program   *)
(* that is not on air, one that has deleted a row for a slot that is not   *)
(* released, and one that owes the list for a list that is old.            *)
(***************************************************************************)
GuestSteps == {"write", "engine", "cut", "lookup", "read", "save", "list", "emit"}

\* Which step each operation can be at, and with which patch.
Consistent(w) ==
  /\ w.step = "write" => w.op \in {"create", "activate", "finalize"}
  /\ w.step = "engine" => w.op \in {"preview", "program"}
  /\ w.step = "cut" => w.op = "program"
  /\ w.step = "lookup" => w.op = "preview"
  /\ w.step \in {"read", "save"} => w.op \in {"finalize", "update", "preview", "program"}
  /\ w.op \in {"finalize", "program"} => w.patch.feed = NoSlot
  /\ w.op = "preview" => w.patch.status = "PREVIEW"
  /\ w.op = "update" => w.patch.status \in {NoSlot, "PROGRAM"}
  /\ w.op = "finalize" /\ w.step = "save" => w.read[w.guest] # NoSlot

\* What a request holds while it is in progress.
GuestWork ==
  {w \in [op : GuestOps, guest : Guests, patch : SlotPatch, overtaken : BOOLEAN, read : Envelopes,
          seen : [Guests -> {"none", "deleted"} \cup Invited],
          step : GuestSteps] : Consistent(w)}

GuestStateTyped ==
  /\ invitation \in [Guests -> {"none", "deleted"} \cup Invited]
  /\ envelope \in Envelopes
  /\ engineType \in {"VMIX", "OBS"}
  /\ preview \in Guests \cup {NoSlot} /\ onAir \in Guests \cup {NoSlot}
  /\ asked \in [Guests -> Feeds]
  /\ blemishes \subseteq {"overtaken", "by hand", "failed"}
  /\ guestRequest \in [GuestRequests -> GuestWork \cup {NoRequest}]

\* What a request that was not overtaken has seen is as it saw it.
RequestAgrees(r) ==
  LET q == guestRequest[r]
  IN q # NoRequest /\ ~q.overtaken =>
       /\ q.step = "save" => q.read = envelope
       /\ q.step = "emit" => q.seen = invitation
       /\ q.step = "cut" => preview = q.guest
       /\ q.op = "program" /\ q.step \in {"read", "save"} => onAir = q.guest
       /\ q.op = "program" /\ q.step \in {"engine", "cut", "read", "save"} =>
            invitation[q.guest] \in Invited

Feed(config) == IF config = NoSlot THEN "CONTROL" ELSE config.feed

OnProgram == {g \in Guests : envelope[g] # NoSlot /\ envelope[g].status = "PROGRAM"}

\* The requests that have switched the engine and not saved, those that have deleted the row of
\* g and not released its slot, and those that owe a list.
Doing == {r \in GuestRequests : guestRequest[r] # NoRequest}
Taking == {r \in Doing : guestRequest[r].op = "program" /\ guestRequest[r].step \in {"read", "save"}}
Releasing(g) ==
  {r \in Doing : /\ guestRequest[r].op = "finalize" /\ guestRequest[r].guest = g
                 /\ guestRequest[r].step \in {"read", "save"}}
Owing ==
  {r \in Doing : \/ guestRequest[r].step \in {"list", "emit"}
                 \/ guestRequest[r].op = "finalize" /\ guestRequest[r].step \in {"read", "save"}}

SlotsAgree ==
  /\ \A g \in Guests : asked[g] = Feed(envelope[g])
  /\ \A g \in OnProgram : onAir = g \/ Taking # {}
  /\ \A g \in OnProgram : invitation[g] \in Invited \/ Releasing(g) # {}
  /\ toldSlots = SlotList(invitation, envelope) \/ Owing # {}

GuestIInv ==
  /\ GuestStateTyped
  /\ \A r \in GuestRequests : RequestAgrees(r)
  /\ blemishes = {} => SlotsAgree

LEMMA NoRequestIsNoWork == NoRequest \notin GuestWork
  BY DEF NoRequest, GuestWork

LEMMA GuestWorkFields ==
  ASSUME NEW w \in GuestWork
  PROVE  /\ w.op \in GuestOps /\ w.guest \in Guests /\ w.patch \in SlotPatch
         /\ w.overtaken \in BOOLEAN /\ w.read \in Envelopes
         /\ w.seen \in [Guests -> {"none", "deleted"} \cup Invited]
         /\ w.step \in GuestSteps
         /\ w # NoRequest /\ Consistent(w)
  BY DEF GuestWork, NoRequest

\* A patch leaves the settings it does not name.
LEMMA PatchedEffect ==
  ASSUME NEW config \in SlotConfig \cup {NoSlot}, NEW patch \in SlotPatch
  PROVE  /\ Patched(config, patch) \in SlotConfig
         /\ Patched(config, patch) # NoSlot
         /\ Patched(config, patch).feed = IF patch.feed = NoSlot THEN Feed(config) ELSE patch.feed
         /\ patch.status = "PREVIEW" => Patched(config, patch).status # "PROGRAM"
         /\ patch.status = NoSlot /\ Patched(config, patch).status = "PROGRAM" =>
              config # NoSlot /\ config.status = "PROGRAM"
<1> DEFINE old == IF config = NoSlot THEN DefaultSlot ELSE config
           new == [status |-> IF patch.status = NoSlot THEN old.status ELSE patch.status,
                   feed   |-> IF patch.feed = NoSlot THEN old.feed ELSE patch.feed]
<1>1. /\ Patched(config, patch) = new
      /\ patch.status \in SlotStatus \cup {NoSlot} /\ patch.feed \in Feeds \cup {NoSlot}
  BY DEF Patched, SlotPatch
<1>2. old \in SlotConfig /\ old.feed = Feed(config) /\ old.status \in SlotStatus /\ old.feed \in Feeds
  BY DEF SlotConfig, DefaultSlot, SlotStatus, Feeds, Feed
<1>3. old.status = "PROGRAM" => config # NoSlot /\ config.status = "PROGRAM"
  BY DEF DefaultSlot
<1> HIDE DEF old
<1>4. new.status \in SlotStatus /\ new.feed \in Feeds /\ new \in SlotConfig
  BY <1>1, <1>2 DEF SlotConfig
<1>5. /\ new.feed = IF patch.feed = NoSlot THEN Feed(config) ELSE patch.feed
      /\ new.status = IF patch.status = NoSlot THEN old.status ELSE patch.status
  BY <1>2
<1> HIDE DEF new
<1>6. NoSlot \notin SlotConfig /\ NoSlot \notin SlotStatus
  BY NoSlotIsNothing
<1>7. patch.status = "PREVIEW" => patch.status # NoSlot
  BY <1>6 DEF SlotStatus
<1> QED  BY <1>1, <1>3, <1>4, <1>5, <1>6, <1>7

\* After a take its slot is on program and no other, and every slot has the feed it had.
LEMMA TakenEffect ==
  ASSUME NEW configs \in Envelopes, NEW g \in Guests
  PROVE  /\ Taken(configs, g) \in Envelopes
         /\ \A h \in Guests : Feed(Taken(configs, g)[h]) = Feed(configs[h])
         /\ \A h \in Guests \ {g} :
              Taken(configs, g)[h] # NoSlot => Taken(configs, g)[h].status # "PROGRAM"
<1> DEFINE program == [NoPatch EXCEPT !.status = "PROGRAM"]
<1>1. program \in SlotPatch /\ program.feed = NoSlot
  BY DEF NoPatch, SlotPatch, SlotStatus
<1>2. /\ Patched(configs[g], program) \in SlotConfig
      /\ Patched(configs[g], program) # NoSlot
      /\ Patched(configs[g], program).feed = Feed(configs[g])
  BY <1>1, PatchedEffect DEF Envelopes
<1>3. ASSUME NEW h \in Guests, configs[h] # NoSlot
      PROVE  /\ [configs[h] EXCEPT !.status = "FREE"] \in SlotConfig
             /\ [configs[h] EXCEPT !.status = "FREE"].status # "PROGRAM"
             /\ [configs[h] EXCEPT !.status = "FREE"].feed = configs[h].feed
  BY <1>3 DEF Envelopes, SlotConfig, SlotStatus
<1>4. NoSlot \notin SlotConfig
  BY NoSlotIsNothing
<1>5. ASSUME NEW h \in Guests
      PROVE  /\ Taken(configs, g)[h] \in SlotConfig \cup {NoSlot}
             /\ Feed(Taken(configs, g)[h]) = Feed(configs[h])
             /\ h # g /\ Taken(configs, g)[h] # NoSlot => Taken(configs, g)[h].status # "PROGRAM"
  <2>1. CASE h = g
    <3>1. Taken(configs, g)[h] = Patched(configs[g], program)
      BY <2>1 DEF Taken
    <3> QED  BY <1>2, <2>1, <3>1 DEF Feed
  <2>2. CASE h # g /\ configs[h] # NoSlot /\ configs[h].status = "PROGRAM"
    <3> DEFINE freed == [configs[h] EXCEPT !.status = "FREE"]
    <3>1. Taken(configs, g)[h] = freed
      BY <2>2 DEF Taken
    <3>2. freed \in SlotConfig /\ freed.status # "PROGRAM" /\ freed.feed = configs[h].feed
      BY <1>3, <2>2
    <3> HIDE DEF freed
    <3> QED  BY <1>4, <2>2, <3>1, <3>2 DEF Feed
  <2>3. CASE h # g /\ (configs[h] = NoSlot \/ configs[h].status # "PROGRAM")
    <3>1. Taken(configs, g)[h] = configs[h]
      BY <2>3 DEF Taken
    <3> QED  BY <2>3, <3>1 DEF Envelopes
  <2> QED  BY <2>1, <2>2, <2>3
<1> QED  BY <1>5 DEF Taken, Envelopes

\* A request that sets no more than its own work.
LEMMA SetsEffect ==
  ASSUME GuestStateTyped, NEW r \in GuestRequests, NEW mine \in GuestWork \cup {NoRequest},
         guestRequest' = [guestRequest EXCEPT ![r] = mine]
  PROVE  /\ guestRequest' \in [GuestRequests -> GuestWork \cup {NoRequest}]
         /\ guestRequest'[r] = mine
         /\ \A q \in GuestRequests \ {r} : guestRequest'[q] = guestRequest[q]
  BY DEF GuestStateTyped

\* A request that is overtaken goes on with what it holds.
LEMMA LaterIsWork ==
  ASSUME NEW w \in GuestWork
  PROVE  LET later == [w EXCEPT !.overtaken = TRUE]
         IN later \in GuestWork /\ later.overtaken /\ later.op = w.op /\ later.guest = w.guest
            /\ later.step = w.step
<1> DEFINE later == [w EXCEPT !.overtaken = TRUE]
<1>1. /\ later.overtaken /\ later.op = w.op /\ later.guest = w.guest /\ later.step = w.step
      /\ later.patch = w.patch /\ later.read = w.read
      /\ later \in [op : GuestOps, guest : Guests, patch : SlotPatch, overtaken : BOOLEAN,
                    read : Envelopes, seen : [Guests -> {"none", "deleted"} \cup Invited],
                    step : GuestSteps]
  BY DEF GuestWork
<1>2. Consistent(w)
  BY GuestWorkFields
<1> HIDE DEF later
<1>3. Consistent(later)
  BY <1>1, <1>2 DEF Consistent
<1>4. later \in GuestWork
  BY <1>1, <1>3 DEF GuestWork
<1> QED  BY <1>1, <1>4 DEF later

\* A request that overtakes: the others go on with what they hold.
LEMMA OvertakesEffect ==
  ASSUME GuestStateTyped, NEW r \in GuestRequests, NEW mine \in GuestWork, OvertakesAnd(r, mine)
  PROVE  /\ guestRequest' \in [GuestRequests -> GuestWork \cup {NoRequest}]
         /\ guestRequest'[r] = mine
         /\ \A q \in GuestRequests \ {r} :
              /\ guestRequest'[q] = NoRequest <=> guestRequest[q] = NoRequest
              /\ guestRequest[q] # NoRequest =>
                   /\ guestRequest'[q].overtaken
                   /\ guestRequest'[q].op = guestRequest[q].op
                   /\ guestRequest'[q].guest = guestRequest[q].guest
                   /\ guestRequest'[q].step = guestRequest[q].step
<1>1. ASSUME NEW q \in GuestRequests \ {r}, guestRequest[q] # NoRequest
      PROVE  /\ guestRequest'[q] \in GuestWork
             /\ guestRequest'[q].overtaken
             /\ guestRequest'[q].op = guestRequest[q].op
             /\ guestRequest'[q].guest = guestRequest[q].guest
             /\ guestRequest'[q].step = guestRequest[q].step
  <2>1. /\ guestRequest'[q] = [guestRequest[q] EXCEPT !.overtaken = TRUE]
        /\ guestRequest[q] \in GuestWork
    BY <1>1 DEF OvertakesAnd, GuestStateTyped
  <2> QED  BY <2>1, LaterIsWork
<1>2. \A q \in GuestRequests \ {r} : guestRequest[q] = NoRequest => guestRequest'[q] = NoRequest
  BY DEF OvertakesAnd
<1>3. \A q \in GuestRequests : guestRequest'[q] \in GuestWork \cup {NoRequest}
  BY <1>1, <1>2 DEF OvertakesAnd
<1>4. DOMAIN guestRequest' = GuestRequests /\ guestRequest'[r] = mine
  BY DEF OvertakesAnd
<1>5. guestRequest' \in [GuestRequests -> GuestWork \cup {NoRequest}]
  BY <1>3, <1>4 DEF OvertakesAnd
<1> QED  BY <1>1, <1>2, <1>4, <1>5, NoRequestIsNoWork

\* A request that commands the engine: only takes of others at these steps are overtaken.
LEMMA CrossesEffect ==
  ASSUME GuestStateTyped, NEW r \in GuestRequests, NEW mine \in GuestWork, NEW steps,
         steps \subseteq GuestSteps, CrossesAnd(r, mine, steps)
  PROVE  /\ guestRequest' \in [GuestRequests -> GuestWork \cup {NoRequest}]
         /\ guestRequest'[r] = mine
         /\ \A q \in GuestRequests \ {r} :
              /\ guestRequest'[q] = NoRequest <=> guestRequest[q] = NoRequest
              /\ guestRequest[q] # NoRequest =>
                   /\ guestRequest'[q].op = guestRequest[q].op
                   /\ guestRequest'[q].guest = guestRequest[q].guest
                   /\ guestRequest'[q].step = guestRequest[q].step
                   /\ guestRequest[q].step \in steps /\ guestRequest[q].op = "program" =>
                        guestRequest'[q].overtaken
                   /\ guestRequest'[q].overtaken \/ guestRequest'[q] = guestRequest[q]
<1>1. ASSUME NEW q \in GuestRequests \ {r}, guestRequest[q] # NoRequest
      PROVE  /\ guestRequest'[q] \in GuestWork
             /\ guestRequest'[q].op = guestRequest[q].op
             /\ guestRequest'[q].guest = guestRequest[q].guest
             /\ guestRequest'[q].step = guestRequest[q].step
             /\ guestRequest[q].step \in steps /\ guestRequest[q].op = "program" =>
                  guestRequest'[q].overtaken
             /\ guestRequest'[q].overtaken \/ guestRequest'[q] = guestRequest[q]
  <2>1. guestRequest[q] \in GuestWork
    BY <1>1 DEF GuestStateTyped
  <2>2. CASE guestRequest[q].step \in steps /\ guestRequest[q].op = "program"
    <3>1. guestRequest'[q] = [guestRequest[q] EXCEPT !.overtaken = TRUE]
      BY <1>1, <2>2 DEF CrossesAnd
    <3> QED  BY <2>1, <3>1, LaterIsWork
  <2>3. CASE ~(guestRequest[q].step \in steps /\ guestRequest[q].op = "program")
    <3>1. guestRequest'[q] = guestRequest[q]
      BY <1>1, <2>3 DEF CrossesAnd
    <3> QED  BY <2>1, <2>3, <3>1
  <2> QED  BY <2>2, <2>3
<1>2. ASSUME NEW q \in GuestRequests \ {r}, guestRequest[q] = NoRequest
      PROVE  guestRequest'[q] = NoRequest
  <2>1. NoRequest.step \notin steps
    BY DEF NoRequest, GuestSteps
  <2> QED  BY <1>2, <2>1 DEF CrossesAnd
<1>3. DOMAIN guestRequest' = GuestRequests /\ guestRequest'[r] = mine
  BY DEF CrossesAnd
<1>4. \A q \in GuestRequests : guestRequest'[q] \in GuestWork \cup {NoRequest}
  BY <1>1, <1>2, <1>3
<1>5. guestRequest' \in [GuestRequests -> GuestWork \cup {NoRequest}]
  BY <1>3, <1>4 DEF CrossesAnd
<1> QED  BY <1>1, <1>2, <1>3, <1>5, NoRequestIsNoWork

\* What the others are doing depends on their operation, guest and step only.
LEMMA OthersStay ==
  ASSUME NEW r \in GuestRequests,
         \A q \in GuestRequests \ {r} :
            /\ guestRequest'[q] = NoRequest <=> guestRequest[q] = NoRequest
            /\ guestRequest[q] # NoRequest => /\ guestRequest'[q].op = guestRequest[q].op
                                              /\ guestRequest'[q].guest = guestRequest[q].guest
                                              /\ guestRequest'[q].step = guestRequest[q].step
  PROVE  \A q \in GuestRequests \ {r} :
           /\ q \in Taking' <=> q \in Taking
           /\ q \in Owing' <=> q \in Owing
           /\ \A g \in Guests : q \in Releasing(g)' <=> q \in Releasing(g)
  BY DEF Taking, Owing, Releasing, Doing

\* A request that changes no more than its own work, and is still in what it was in.
LEMMA OwnStep ==
  ASSUME GuestIInv, NEW r \in GuestRequests, NEW mine \in GuestWork \cup {NoRequest},
         guestRequest' = [guestRequest EXCEPT ![r] = mine],
         UNCHANGED <<invitation, envelope, engineType, preview, onAir, toldSlots, asked>>,
         blemishes \subseteq blemishes',
         blemishes' \subseteq {"overtaken", "by hand", "failed"},
         RequestAgrees(r)',
         blemishes' = {} => /\ r \in Taking => r \in Taking'
                            /\ \A g \in OnProgram : r \in Releasing(g) => r \in Releasing(g)'
                            /\ r \in Owing => r \in Owing'
  PROVE  GuestIInv'
<1>1. GuestStateTyped
  BY DEF GuestIInv
<1>2. /\ guestRequest' \in [GuestRequests -> GuestWork \cup {NoRequest}]
      /\ guestRequest'[r] = mine
      /\ \A q \in GuestRequests \ {r} : guestRequest'[q] = guestRequest[q]
  BY <1>1, SetsEffect
<1>3. GuestStateTyped'
  BY <1>1, <1>2 DEF GuestStateTyped
<1>4. ASSUME NEW q \in GuestRequests  PROVE RequestAgrees(q)'
  BY <1>2 DEF GuestIInv, RequestAgrees
<1>5. ASSUME blemishes' = {}  PROVE SlotsAgree'
  <2>1. SlotsAgree
    BY <1>5 DEF GuestIInv
  <2>2. /\ Taking \subseteq Taking' /\ Owing \subseteq Owing'
        /\ \A g \in OnProgram : Releasing(g) \subseteq Releasing(g)'
    <3>1. \A q \in GuestRequests \ {r} :
            /\ q \in Taking' <=> q \in Taking
            /\ q \in Owing' <=> q \in Owing
            /\ \A g \in Guests : q \in Releasing(g)' <=> q \in Releasing(g)
      BY <1>2, OthersStay
    <3>2. /\ Taking \subseteq GuestRequests /\ Owing \subseteq GuestRequests
          /\ OnProgram \subseteq Guests
          /\ \A g \in Guests : Releasing(g) \subseteq GuestRequests
      BY DEF Taking, Owing, Releasing, Doing, OnProgram
    <3> QED  BY <1>5, <3>1, <3>2
  <2>3. OnProgram' = OnProgram
    BY DEF OnProgram
  <2>4. \A g \in Guests : asked'[g] = Feed(envelope'[g])
    BY <2>1 DEF SlotsAgree
  <2>5. \A g \in OnProgram' : onAir' = g \/ Taking' # {}
    BY <2>1, <2>2, <2>3 DEF SlotsAgree
  <2>6. \A g \in OnProgram' : invitation'[g] \in Invited \/ Releasing(g)' # {}
    BY <2>1, <2>2, <2>3 DEF SlotsAgree
  <2>7. toldSlots' = SlotList(invitation', envelope') \/ Owing' # {}
    BY <2>1, <2>2 DEF SlotsAgree
  <2> QED  BY <2>4, <2>5, <2>6, <2>7 DEF SlotsAgree
<1> QED  BY <1>3, <1>4, <1>5 DEF GuestIInv

\* A request that comes in is not yet in anything.
LEMMA ComesStep ==
  ASSUME GuestIInv, NEW r \in GuestRequests, NEW g \in Guests, NEW op \in GuestOps,
         NEW patch \in SlotPatch,
         op \in {"finalize", "program"} => patch.feed = NoSlot,
         op = "preview" => patch.status = "PREVIEW",
         op = "update" => patch.status \in {NoSlot, "PROGRAM"},
         GuestRequestComes(r, op, g, patch)
  PROVE  GuestIInv'
<1> DEFINE step == CASE op \in {"create", "activate", "finalize"} -> "write"
                     [] op = "preview" -> IF engineType = "VMIX" THEN "engine" ELSE "lookup"
                     [] op = "program" -> "engine"
                     [] op = "update" -> "read"
           mine == [op |-> op, guest |-> g, patch |-> patch, overtaken |-> FALSE,
                    read |-> [h \in Guests |-> NoSlot], seen |-> invitation, step |-> step]
<1>1. /\ guestRequest[r] = NoRequest
      /\ guestRequest' = [guestRequest EXCEPT ![r] = mine]
      /\ UNCHANGED <<invitation, envelope, engineType, preview, onAir, toldSlots, asked, blemishes>>
      /\ GuestStateTyped
      /\ op # "create" => invitation[g] \in Invited
  BY DEF GuestRequestComes, GuestIInv, engineVars
<1>2. /\ op \in {"create", "activate", "finalize"} => step = "write"
      /\ op = "preview" => step \in {"engine", "lookup"}
      /\ op = "program" => step = "engine"
      /\ op = "update" => step = "read"
      /\ step \in {"write", "engine", "lookup", "read"}
  BY DEF GuestOps
<1> HIDE DEF step
<1>3. /\ mine.op = op /\ mine.guest = g /\ mine.patch = patch /\ mine.step = step
      /\ mine.overtaken = FALSE
      /\ mine \in [op : GuestOps, guest : Guests, patch : SlotPatch, overtaken : BOOLEAN,
                   read : Envelopes, seen : [Guests -> {"none", "deleted"} \cup Invited],
                   step : GuestSteps]
  BY <1>1, <1>2 DEF GuestStateTyped, Envelopes, GuestSteps
<1> HIDE DEF mine
<1>4. Consistent(mine)
  BY <1>2, <1>3 DEF Consistent, GuestOps
<1>5. mine \in GuestWork
  BY <1>3, <1>4 DEF GuestWork
<1>6. guestRequest'[r] = mine
  BY <1>1, <1>5, SetsEffect
<1>7. RequestAgrees(r)'
  BY <1>1, <1>2, <1>3, <1>6 DEF RequestAgrees
<1>8. r \notin Taking /\ r \notin Owing /\ \A h \in OnProgram : r \notin Releasing(h)
  BY <1>1 DEF Taking, Owing, Releasing, Doing
<1>9. blemishes' \subseteq {"overtaken", "by hand", "failed"}
  BY <1>1 DEF GuestStateTyped
<1> QED  BY <1>1, <1>5, <1>7, <1>8, <1>9, OwnStep

LEMMA InvitationStep ==
  ASSUME GuestIInv, NEW r \in GuestRequests, WritesInvitation(r)
  PROVE  GuestIInv'
<1> DEFINE q == guestRequest[r]
<1>1. GuestStateTyped /\ q \in GuestWork /\ q.step = "write"
  <2>1. GuestStateTyped /\ q.step = "write"
    BY DEF GuestIInv, WritesInvitation
  <2>2. q # NoRequest
    BY <2>1 DEF NoRequest
  <2> QED  BY <2>1, <2>2 DEF GuestStateTyped
<1>2. q.op \in {"create", "activate", "finalize"} /\ q.guest \in Guests
  BY <1>1, GuestWorkFields DEF Consistent
<1>3. r \notin Taking /\ r \notin Owing /\ \A h \in OnProgram : r \notin Releasing(h)
  BY <1>1 DEF Taking, Owing, Releasing
<1>4. CASE invitation[q.guest] = "deleted"
  <2>1. /\ guestRequest' = [guestRequest EXCEPT ![r] = NoRequest]
        /\ UNCHANGED <<invitation, envelope, engineType, preview, onAir, toldSlots, asked, blemishes>>
    BY <1>4 DEF WritesInvitation, engineVars
  <2>2. RequestAgrees(r)'
    BY <1>1, <2>1, SetsEffect DEF RequestAgrees
  <2> QED  BY <1>1, <1>3, <2>1, <2>2, OwnStep DEF GuestStateTyped
<1>5. CASE invitation[q.guest] # "deleted"
  <2> DEFINE mine == [q EXCEPT !.step = IF q.op = "finalize" THEN "read" ELSE "list"]
             written == CASE q.op = "create" -> "PENDING"
                          [] q.op = "activate" -> "ACTIVE"
                          [] q.op = "finalize" -> "deleted"
  <2>1. /\ invitation' = [invitation EXCEPT ![q.guest] = written]
        /\ OvertakesAnd(r, mine)
        /\ UNCHANGED <<envelope, engineType, preview, onAir, toldSlots, asked, blemishes>>
    BY <1>5 DEF WritesInvitation, engineVars
  <2>2. written \in Invited \cup {"deleted"} /\ (q.op # "finalize" => written \in Invited)
    BY <1>2 DEF Invited
  <2> HIDE DEF written
  <2>3. /\ mine.op = q.op /\ mine.guest = q.guest /\ mine.patch = q.patch
        /\ mine.step = (IF q.op = "finalize" THEN "read" ELSE "list")
        /\ mine \in [op : GuestOps, guest : Guests, patch : SlotPatch, overtaken : BOOLEAN,
                     read : Envelopes, seen : [Guests -> {"none", "deleted"} \cup Invited],
                     step : GuestSteps]
    BY <1>1 DEF GuestWork, GuestSteps
  <2>4. Consistent(q)
    BY <1>1, GuestWorkFields
  <2> HIDE DEF mine
  <2>5. mine \in GuestWork
    BY <1>2, <2>3, <2>4 DEF Consistent, GuestWork
  <2>6. /\ guestRequest' \in [GuestRequests -> GuestWork \cup {NoRequest}]
        /\ guestRequest'[r] = mine
        /\ \A o \in GuestRequests \ {r} :
             /\ guestRequest'[o] = NoRequest <=> guestRequest[o] = NoRequest
             /\ guestRequest[o] # NoRequest =>
                  /\ guestRequest'[o].overtaken
                  /\ guestRequest'[o].op = guestRequest[o].op
                  /\ guestRequest'[o].guest = guestRequest[o].guest
                  /\ guestRequest'[o].step = guestRequest[o].step
    BY <1>1, <2>1, <2>5, OvertakesEffect
  <2>7. invitation' \in [Guests -> {"none", "deleted"} \cup Invited]
    BY <1>1, <2>1, <2>2 DEF GuestStateTyped
  <2>8. GuestStateTyped'
    BY <1>1, <2>1, <2>6, <2>7 DEF GuestStateTyped
  <2>9. ASSUME NEW o \in GuestRequests  PROVE RequestAgrees(o)'
    BY <1>2, <2>3, <2>6 DEF RequestAgrees
  <2>10. ASSUME blemishes' = {}  PROVE SlotsAgree'
    <3>1. SlotsAgree
      BY <2>1, <2>10 DEF GuestIInv
    <3>2. \A o \in GuestRequests \ {r} :
            /\ o \in Taking' <=> o \in Taking
            /\ o \in Owing' <=> o \in Owing
            /\ \A g \in Guests : o \in Releasing(g)' <=> o \in Releasing(g)
      BY <2>6, OthersStay
    <3>3. /\ r \in Owing'
          /\ \A g \in Guests : q.op = "finalize" /\ g = q.guest => r \in Releasing(g)'
      BY <2>3, <2>5, <2>6, NoRequestIsNoWork DEF Owing, Releasing, Doing
    <3>4. /\ Taking \subseteq GuestRequests \ {r}
          /\ \A g \in OnProgram : Releasing(g) \subseteq GuestRequests \ {r}
      BY <1>3 DEF Taking, Releasing, Doing
    <3>5. OnProgram' = OnProgram /\ OnProgram \subseteq Guests
      BY <2>1 DEF OnProgram
    <3>6. \A g \in Guests : asked'[g] = Feed(envelope'[g])
      BY <2>1, <3>1 DEF SlotsAgree
    <3>7. \A g \in OnProgram' : onAir' = g \/ Taking' # {}
      BY <2>1, <3>1, <3>2, <3>4, <3>5 DEF SlotsAgree
    <3>8. ASSUME NEW g \in OnProgram'
          PROVE  invitation'[g] \in Invited \/ Releasing(g)' # {}
      <4>1. CASE g = q.guest
        <5>1. invitation'[q.guest] = written
          BY <1>1, <1>2, <2>1 DEF GuestStateTyped
        <5>2. CASE q.op = "finalize"
          <6>1. r \in Releasing(g)'
            BY <3>3, <3>5, <4>1, <5>2
          <6> QED  BY <6>1
        <5>3. CASE q.op # "finalize"
          BY <2>2, <4>1, <5>1, <5>3
        <5> QED  BY <5>2, <5>3
      <4>2. CASE g # q.guest
        <5>1. invitation'[g] = invitation[g]
          BY <1>1, <2>1, <3>5, <4>2 DEF GuestStateTyped
        <5> QED  BY <3>1, <3>2, <3>4, <3>5, <5>1 DEF SlotsAgree
      <4> QED  BY <4>1, <4>2
    <3> QED  BY <3>3, <3>6, <3>7, <3>8 DEF SlotsAgree
  <2> QED  BY <2>8, <2>9, <2>10 DEF GuestIInv
<1> QED  BY <1>4, <1>5

\* A request at the engine, and what it holds when it goes on.
LEMMA AtEngine ==
  ASSUME GuestIInv, NEW r \in GuestRequests, NEW step \in {"cut", "lookup", "read"},
         guestRequest[r].step \in {"engine", "cut", "lookup"},
         step = "cut" => guestRequest[r].op = "program",
         step = "lookup" => guestRequest[r].op = "preview"
  PROVE  LET q == guestRequest[r]
             mine == [q EXCEPT !.step = step]
         IN /\ GuestStateTyped /\ q \in GuestWork /\ q # NoRequest /\ q.guest \in Guests
            /\ q.op \in {"preview", "program"}
            /\ q.step = "cut" => q.op = "program"
            /\ q.step = "lookup" => q.op = "preview"
            /\ r \notin Taking /\ r \notin Owing /\ \A h \in OnProgram : r \notin Releasing(h)
            /\ mine.op = q.op /\ mine.guest = q.guest /\ mine.step = step
            /\ mine.overtaken = q.overtaken /\ mine \in GuestWork /\ mine # NoRequest
            /\ q.overtaken \/ q.op = "preview" \/ invitation[q.guest] \in Invited
            /\ q.overtaken \/ q.step # "cut" \/ preview = q.guest
<1> DEFINE q == guestRequest[r]
           mine == [q EXCEPT !.step = step]
<1>1. GuestStateTyped /\ q \in GuestWork /\ q # NoRequest
  <2>1. GuestStateTyped /\ q # NoRequest
    BY DEF GuestIInv, NoRequest
  <2> QED  BY <2>1 DEF GuestStateTyped
<1>2. /\ q.guest \in Guests /\ q.op \in {"preview", "program"}
      /\ q.step = "cut" => q.op = "program"
      /\ q.step = "lookup" => q.op = "preview"
  BY <1>1, GuestWorkFields DEF Consistent
<1>3. r \notin Taking /\ r \notin Owing /\ \A h \in OnProgram : r \notin Releasing(h)
  BY <1>2 DEF Taking, Owing, Releasing
<1>4. /\ mine.op = q.op /\ mine.guest = q.guest /\ mine.step = step
      /\ mine.overtaken = q.overtaken /\ mine.patch = q.patch
      /\ mine \in [op : GuestOps, guest : Guests, patch : SlotPatch, overtaken : BOOLEAN,
                    read : Envelopes, seen : [Guests -> {"none", "deleted"} \cup Invited],
                    step : GuestSteps]
  BY <1>1 DEF GuestWork, GuestSteps
<1>5. Consistent(q)
  BY <1>1, GuestWorkFields
<1>6. /\ q.overtaken \/ q.op = "preview" \/ invitation[q.guest] \in Invited
      /\ q.overtaken \/ q.step # "cut" \/ preview = q.guest
  BY <1>1, <1>2 DEF GuestIInv, RequestAgrees
<1> HIDE DEF mine
<1>7. mine \in GuestWork
  BY <1>2, <1>4, <1>5 DEF Consistent, GuestWork
<1> QED  BY <1>1, <1>2, <1>3, <1>4, <1>6, <1>7, NoRequestIsNoWork DEF mine

\* The engine is commanded: what a take that nobody crossed has done to it is as it was.
LEMMA CommandStep ==
  ASSUME GuestIInv, NEW r \in GuestRequests, NEW mine \in GuestWork, NEW steps,
         steps \subseteq GuestSteps, CrossesAnd(r, mine, steps),
         UNCHANGED <<invitation, envelope, engineType, toldSlots, asked, blemishes>>,
         preview' \in Guests \cup {NoSlot}, onAir' \in Guests \cup {NoSlot},
         RequestAgrees(r)',
         r \notin Taking, r \notin Owing, \A h \in OnProgram : r \notin Releasing(h),
         preview' = preview \/ "cut" \in steps,
         onAir' = onAir \/ ({"read", "save"} \subseteq steps /\ r \in Taking')
  PROVE  GuestIInv'
<1>1. GuestStateTyped
  BY DEF GuestIInv
<1>2. /\ guestRequest' \in [GuestRequests -> GuestWork \cup {NoRequest}]
      /\ \A o \in GuestRequests \ {r} :
           /\ guestRequest'[o] = NoRequest <=> guestRequest[o] = NoRequest
           /\ guestRequest[o] # NoRequest =>
                /\ guestRequest'[o].op = guestRequest[o].op
                /\ guestRequest'[o].guest = guestRequest[o].guest
                /\ guestRequest'[o].step = guestRequest[o].step
                /\ guestRequest[o].step \in steps /\ guestRequest[o].op = "program" =>
                     guestRequest'[o].overtaken
                /\ guestRequest'[o].overtaken \/ guestRequest'[o] = guestRequest[o]
  BY <1>1, CrossesEffect
<1>3. GuestStateTyped'
  BY <1>1, <1>2 DEF GuestStateTyped
<1>4. ASSUME NEW o \in GuestRequests \ {r}  PROVE RequestAgrees(o)'
  <2> SUFFICES ASSUME guestRequest'[o] # NoRequest, ~guestRequest'[o].overtaken
               PROVE  RequestAgrees(o)'
    BY DEF RequestAgrees
  <2>1. /\ guestRequest[o] # NoRequest /\ guestRequest'[o] = guestRequest[o]
        /\ ~(guestRequest[o].step \in steps /\ guestRequest[o].op = "program")
    BY <1>2
  <2>2. RequestAgrees(o) /\ ~guestRequest[o].overtaken
    BY <2>1 DEF GuestIInv
  <2>3. guestRequest[o].step = "cut" => guestRequest[o].op = "program"
    BY <1>1, <2>1, GuestWorkFields DEF GuestStateTyped, Consistent
  <2>4. guestRequest[o].step = "cut" => preview' = guestRequest[o].guest
    BY <2>1, <2>2, <2>3 DEF RequestAgrees
  <2>5. guestRequest[o].op = "program" /\ guestRequest[o].step \in {"read", "save"} =>
          onAir' = guestRequest[o].guest
    BY <2>1, <2>2 DEF RequestAgrees
  <2> QED  BY <2>1, <2>2, <2>4, <2>5 DEF RequestAgrees
<1>5. ASSUME blemishes' = {}  PROVE SlotsAgree'
  <2>1. SlotsAgree
    BY <1>5 DEF GuestIInv
  <2>2. \A o \in GuestRequests \ {r} :
          /\ o \in Taking' <=> o \in Taking
          /\ o \in Owing' <=> o \in Owing
          /\ \A g \in Guests : o \in Releasing(g)' <=> o \in Releasing(g)
    BY <1>2, OthersStay
  <2>3. /\ Taking \subseteq GuestRequests \ {r} /\ Owing \subseteq GuestRequests \ {r}
        /\ \A g \in OnProgram : Releasing(g) \subseteq GuestRequests \ {r}
    BY DEF Taking, Owing, Releasing, Doing
  <2>4. OnProgram' = OnProgram /\ OnProgram \subseteq Guests
    BY DEF OnProgram
  <2>5. \A g \in Guests : asked'[g] = Feed(envelope'[g])
    BY <2>1 DEF SlotsAgree
  <2>6. \A g \in OnProgram' : onAir' = g \/ Taking' # {}
    <3>1. CASE onAir' = onAir
      BY <2>1, <2>2, <2>3, <2>4, <3>1 DEF SlotsAgree
    <3>2. CASE r \in Taking'
      BY <3>2
    <3> QED  BY <3>1, <3>2
  <2>7. \A g \in OnProgram' : invitation'[g] \in Invited \/ Releasing(g)' # {}
    BY <2>1, <2>2, <2>3, <2>4 DEF SlotsAgree
  <2>8. toldSlots' = SlotList(invitation', envelope') \/ Owing' # {}
    BY <2>1, <2>2, <2>3 DEF SlotsAgree
  <2> QED  BY <2>5, <2>6, <2>7, <2>8 DEF SlotsAgree
<1> QED  BY <1>3, <1>4, <1>5 DEF GuestIInv

LEMMA SelectsStep ==
  ASSUME GuestIInv, NEW r \in GuestRequests, SelectsInput(r)
  PROVE  GuestIInv'
<1> DEFINE q == guestRequest[r]
           step == IF q.op = "program" THEN "cut" ELSE "lookup"
           mine == [q EXCEPT !.step = step]
<1>1. /\ q.step = "engine" /\ preview' = q.guest /\ CrossesAnd(r, mine, {"cut"})
      /\ UNCHANGED <<invitation, envelope, engineType, onAir, toldSlots, asked, blemishes>>
  BY DEF SelectsInput
<1>2. GuestStateTyped /\ q \in GuestWork /\ q.op \in {"preview", "program"}
  <2>1. GuestStateTyped /\ q # NoRequest
    BY <1>1 DEF GuestIInv, NoRequest
  <2>2. q \in GuestWork
    BY <2>1 DEF GuestStateTyped
  <2> QED  BY <1>1, <2>1, <2>2, GuestWorkFields DEF Consistent
<1>3. /\ step \in {"cut", "lookup"}
      /\ step = "cut" => q.op = "program"
      /\ step = "lookup" => q.op = "preview"
  BY <1>2
<1> HIDE DEF step
<1>4. /\ q.guest \in Guests
      /\ r \notin Taking /\ r \notin Owing /\ \A h \in OnProgram : r \notin Releasing(h)
      /\ mine.op = q.op /\ mine.guest = q.guest /\ mine.step = step
      /\ mine.overtaken = q.overtaken /\ mine \in GuestWork
      /\ q.overtaken \/ q.op = "preview" \/ invitation[q.guest] \in Invited
  <2>1. step \in {"cut", "lookup", "read"} /\ q.step \in {"engine", "cut", "lookup"}
    BY <1>1, <1>3
  <2> QED  BY <1>3, <2>1, AtEngine
<1> HIDE DEF mine
<1>5. {"cut"} \subseteq GuestSteps
  BY DEF GuestSteps
<1>6. guestRequest'[r] = mine
  BY <1>1, <1>2, <1>4, <1>5, CrossesEffect
<1>7. RequestAgrees(r)'
  BY <1>1, <1>3, <1>4, <1>6 DEF RequestAgrees
<1>8. onAir' \in Guests \cup {NoSlot}
  BY <1>1, <1>2 DEF GuestStateTyped
<1> QED  BY <1>1, <1>4, <1>5, <1>7, <1>8, CommandStep

\* The take has switched the engine: by a cut or by a change of scene.
LEMMA TakesEffect ==
  ASSUME GuestIInv, NEW r \in GuestRequests, NEW steps, steps \subseteq GuestSteps,
         guestRequest[r].op = "program", guestRequest[r].step \in {"engine", "cut"},
         CrossesAnd(r, [guestRequest[r] EXCEPT !.step = "read"], steps),
         {"read", "save"} \subseteq steps, preview' = preview \/ "cut" \in steps,
         UNCHANGED <<invitation, envelope, engineType, toldSlots, asked, blemishes>>,
         preview' \in Guests \cup {NoSlot}, onAir' \in Guests \cup {NoSlot},
         guestRequest[r].overtaken \/ onAir' = guestRequest[r].guest
  PROVE  GuestIInv'
<1> DEFINE q == guestRequest[r]
           mine == [q EXCEPT !.step = "read"]
<1>1. /\ GuestStateTyped /\ q.op = "program"
      /\ r \notin Taking /\ r \notin Owing /\ \A h \in OnProgram : r \notin Releasing(h)
      /\ mine.op = q.op /\ mine.guest = q.guest /\ mine.step = "read"
      /\ mine.overtaken = q.overtaken /\ mine \in GuestWork /\ mine # NoRequest
      /\ q.overtaken \/ invitation[q.guest] \in Invited
  BY AtEngine
<1>2. CrossesAnd(r, mine, steps)
  OBVIOUS
<1> HIDE DEF mine
<1>3. guestRequest'[r] = mine
  BY <1>1, <1>2, CrossesEffect
<1>4. RequestAgrees(r)' /\ r \in Taking'
  BY <1>1, <1>3 DEF RequestAgrees, Taking, Doing
<1> QED  BY <1>1, <1>2, <1>4, CommandStep

LEMMA CutsStep ==
  ASSUME GuestIInv, NEW r \in GuestRequests, Cuts(r)
  PROVE  GuestIInv'
<1>1. /\ guestRequest[r].step = "cut" /\ onAir' = preview /\ preview' = onAir
      /\ CrossesAnd(r, [guestRequest[r] EXCEPT !.step = "read"], {"cut", "read", "save"})
      /\ UNCHANGED <<invitation, envelope, engineType, toldSlots, asked, blemishes>>
  BY DEF Cuts
<1>2. /\ GuestStateTyped /\ guestRequest[r].op = "program"
      /\ guestRequest[r].overtaken \/ preview = guestRequest[r].guest
  BY <1>1, AtEngine
<1>3. {"cut", "read", "save"} \subseteq GuestSteps
  BY DEF GuestSteps
<1>4. preview' \in Guests \cup {NoSlot} /\ onAir' \in Guests \cup {NoSlot}
  BY <1>1, <1>2 DEF GuestStateTyped
<1>5. guestRequest[r].overtaken \/ onAir' = guestRequest[r].guest
  BY <1>1, <1>2
<1> QED  BY <1>1, <1>2, <1>3, <1>4, <1>5, TakesEffect

LEMMA SceneStep ==
  ASSUME GuestIInv, NEW r \in GuestRequests, SwitchesScene(r)
  PROVE  GuestIInv'
<1>1. /\ guestRequest[r].step = "engine" /\ onAir' = guestRequest[r].guest /\ preview' = preview
      /\ CrossesAnd(r, [guestRequest[r] EXCEPT !.step = "read"], {"read", "save"})
      /\ UNCHANGED <<invitation, envelope, engineType, toldSlots, asked, blemishes>>
  BY DEF SwitchesScene
<1>2. GuestStateTyped /\ guestRequest[r].guest \in Guests
  BY <1>1, AtEngine
<1>3. guestRequest[r].op = "program"
  BY DEF SwitchesScene
<1>4. {"read", "save"} \subseteq GuestSteps
  BY DEF GuestSteps
<1>5. preview' \in Guests \cup {NoSlot} /\ onAir' \in Guests \cup {NoSlot}
  BY <1>1, <1>2 DEF GuestStateTyped
<1> QED  BY <1>1, <1>3, <1>4, <1>5, TakesEffect

LEMMA LooksUpStep ==
  ASSUME GuestIInv, NEW r \in GuestRequests, LooksUp(r)
  PROVE  GuestIInv'
<1> DEFINE q == guestRequest[r]
           mine == [q EXCEPT !.step = "read"]
           next == IF invitation[q.guest] \in Invited THEN mine ELSE NoRequest
<1>1. /\ q.step = "lookup" /\ guestRequest' = [guestRequest EXCEPT ![r] = next]
      /\ UNCHANGED <<invitation, envelope, engineType, preview, onAir, toldSlots, asked, blemishes>>
  BY DEF LooksUp, engineVars
<1>2. /\ GuestStateTyped /\ q.op = "preview"
      /\ r \notin Taking /\ r \notin Owing /\ \A h \in OnProgram : r \notin Releasing(h)
      /\ mine.op = q.op /\ mine.step = "read" /\ mine \in GuestWork
  BY <1>1, AtEngine
<1> HIDE DEF mine
<1>3. next \in GuestWork \cup {NoRequest} /\ (next # NoRequest => next = mine)
  BY <1>2
<1> HIDE DEF next
<1>4. guestRequest'[r] = next
  BY <1>1, <1>2, <1>3, SetsEffect
<1>5. RequestAgrees(r)'
  BY <1>2, <1>3, <1>4 DEF RequestAgrees
<1> QED  BY <1>1, <1>2, <1>3, <1>5, OwnStep DEF GuestStateTyped

LEMMA ReadsStep ==
  ASSUME GuestIInv, NEW r \in GuestRequests, ReadsEnvelope(r)
  PROVE  GuestIInv'
<1> DEFINE q == guestRequest[r]
           mine == [q EXCEPT !.read = envelope, !.overtaken = q.op = "program" /\ q.overtaken,
                             !.step = IF q.op = "finalize" /\ envelope[q.guest] = NoSlot
                                      THEN "list" ELSE "save"]
<1>1. /\ GuestStateTyped /\ q \in GuestWork /\ q.step = "read"
      /\ guestRequest' = [guestRequest EXCEPT ![r] = mine]
      /\ UNCHANGED <<invitation, envelope, engineType, preview, onAir, toldSlots, asked, blemishes>>
  <2>1. GuestStateTyped /\ q.step = "read"
    BY DEF GuestIInv, ReadsEnvelope
  <2>2. q # NoRequest
    BY <2>1 DEF NoRequest
  <2> QED  BY <2>1, <2>2 DEF GuestStateTyped, ReadsEnvelope, engineVars
<1>2. /\ q.op \in {"finalize", "update", "preview", "program"} /\ q.guest \in Guests
      /\ q.overtaken \in BOOLEAN /\ q # NoRequest /\ Consistent(q)
  BY <1>1, GuestWorkFields DEF Consistent
<1>3. RequestAgrees(r)
  BY DEF GuestIInv
<1>4. /\ mine.op = q.op /\ mine.guest = q.guest /\ mine.patch = q.patch /\ mine.read = envelope
      /\ mine.overtaken = (q.op = "program" /\ q.overtaken)
      /\ mine.step = (IF q.op = "finalize" /\ envelope[q.guest] = NoSlot THEN "list" ELSE "save")
      /\ mine \in [op : GuestOps, guest : Guests, patch : SlotPatch, overtaken : BOOLEAN,
                    read : Envelopes, seen : [Guests -> {"none", "deleted"} \cup Invited],
                    step : GuestSteps]
  BY <1>1, <1>2 DEF GuestWork, GuestStateTyped, GuestSteps
<1> HIDE DEF mine
<1>5. mine \in GuestWork /\ mine # NoRequest
  BY <1>2, <1>4, NoRequestIsNoWork DEF Consistent, GuestWork
<1>6. guestRequest'[r] = mine
  BY <1>1, <1>5, SetsEffect
<1>7. RequestAgrees(r)'
  BY <1>1, <1>2, <1>3, <1>4, <1>6 DEF RequestAgrees
<1>8. /\ r \in Taking => r \in Taking'
      /\ r \in Owing => r \in Owing'
  BY <1>1, <1>4, <1>5, <1>6 DEF Taking, Owing, Doing
<1>9. \A g \in OnProgram : r \in Releasing(g) => r \in Releasing(g)'
  BY <1>4, <1>5, <1>6 DEF OnProgram, Releasing, Doing
<1> QED  BY <1>1, <1>5, <1>7, <1>8, <1>9, OwnStep DEF GuestStateTyped

LEMMA ListsStep ==
  ASSUME GuestIInv, NEW r \in GuestRequests, ListsInvitations(r)
  PROVE  GuestIInv'
<1> DEFINE q == guestRequest[r]
           mine == [q EXCEPT !.seen = invitation, !.overtaken = FALSE, !.step = "emit"]
<1>1. /\ GuestStateTyped /\ q \in GuestWork /\ q.step = "list"
      /\ guestRequest' = [guestRequest EXCEPT ![r] = mine]
      /\ UNCHANGED <<invitation, envelope, engineType, preview, onAir, toldSlots, asked, blemishes>>
  <2>1. GuestStateTyped /\ q.step = "list"
    BY DEF GuestIInv, ListsInvitations
  <2>2. q # NoRequest
    BY <2>1 DEF NoRequest
  <2> QED  BY <2>1, <2>2 DEF GuestStateTyped, ListsInvitations, engineVars
<1>2. Consistent(q)
  BY <1>1, GuestWorkFields
<1>3. /\ mine.op = q.op /\ mine.guest = q.guest /\ mine.patch = q.patch
      /\ mine.seen = invitation /\ mine.step = "emit"
      /\ mine \in [op : GuestOps, guest : Guests, patch : SlotPatch, overtaken : BOOLEAN,
                    read : Envelopes, seen : [Guests -> {"none", "deleted"} \cup Invited],
                    step : GuestSteps]
  BY <1>1 DEF GuestWork, GuestStateTyped, GuestSteps
<1> HIDE DEF mine
<1>4. mine \in GuestWork /\ mine # NoRequest
  BY <1>2, <1>3, NoRequestIsNoWork DEF Consistent, GuestWork
<1>5. guestRequest'[r] = mine
  BY <1>1, <1>4, SetsEffect
<1>6. RequestAgrees(r)'
  BY <1>1, <1>3, <1>5 DEF RequestAgrees
<1>7. r \in Owing' /\ r \notin Taking /\ \A g \in OnProgram : r \notin Releasing(g)
  BY <1>1, <1>3, <1>4, <1>5 DEF Owing, Taking, Releasing, Doing
<1> QED  BY <1>1, <1>4, <1>6, <1>7, OwnStep DEF GuestStateTyped

LEMMA FailsStep ==
  ASSUME GuestIInv, NEW r \in GuestRequests, GuestRequestFails(r)
  PROVE  GuestIInv'
<1>1. /\ guestRequest' = [guestRequest EXCEPT ![r] = NoRequest]
      /\ UNCHANGED <<invitation, envelope, engineType, preview, onAir, toldSlots, asked>>
      /\ blemishes' = blemishes \cup {"failed"}
      /\ GuestStateTyped
  BY DEF GuestRequestFails, GuestIInv, engineVars
<1>2. RequestAgrees(r)'
  BY <1>1, SetsEffect DEF RequestAgrees
<1>3. blemishes' # {} /\ blemishes' \subseteq {"overtaken", "by hand", "failed"}
  BY <1>1 DEF GuestStateTyped
<1> QED  BY <1>1, <1>2, <1>3, OwnStep

\* The whole of the configuration is appended as the request read it, but for its slot: it is
\* what there was when nobody has overtaken the request.
LEMMA SavesStep ==
  ASSUME GuestIInv, NEW r \in GuestRequests, SavesEnvelope(r)
  PROVE  GuestIInv'
<1> DEFINE q == guestRequest[r]
           g == q.guest
           mine == [q EXCEPT !.step = "list"]
<1>1. /\ GuestStateTyped /\ q \in GuestWork /\ q.step = "save" /\ OvertakesAnd(r, mine)
      /\ UNCHANGED <<invitation, engineType, preview, onAir, toldSlots>>
      /\ q.op = "program" => envelope' = Taken(q.read, g)
      /\ q.op = "finalize" => envelope' = [q.read EXCEPT ![g].status = "FREE"]
      /\ q.op \in {"update", "preview"} =>
           envelope' = [q.read EXCEPT ![g] = Patched(q.read[g], q.patch)]
      /\ asked' = IF q.patch.feed = NoSlot THEN asked ELSE [asked EXCEPT ![g] = q.patch.feed]
      /\ blemishes \subseteq blemishes' /\ blemishes' \subseteq {"overtaken", "by hand", "failed"}
      /\ blemishes' = {} => ~q.overtaken /\ ~(q.op = "update" /\ q.patch.status = "PROGRAM")
  <2>1. GuestStateTyped /\ q.step = "save"
    BY DEF GuestIInv, SavesEnvelope
  <2>2. q # NoRequest
    BY <2>1 DEF NoRequest
  <2>3. /\ blemishes \subseteq blemishes' /\ blemishes' \subseteq {"overtaken", "by hand", "failed"}
        /\ blemishes' = {} => ~q.overtaken /\ ~(q.op = "update" /\ q.patch.status = "PROGRAM")
    BY <2>1 DEF SavesEnvelope, GuestStateTyped
  <2>4. /\ q.op = "program" => envelope' = Taken(q.read, g)
        /\ q.op = "finalize" => envelope' = [q.read EXCEPT ![g].status = "FREE"]
        /\ q.op \in {"update", "preview"} =>
             envelope' = [q.read EXCEPT ![g] = Patched(q.read[g], q.patch)]
    BY DEF SavesEnvelope
  <2>5. q \in GuestWork
    BY <2>1, <2>2 DEF GuestStateTyped
  <2> QED  BY <2>1, <2>3, <2>4, <2>5 DEF SavesEnvelope, engineVars
<1>2. /\ q.op \in {"finalize", "update", "preview", "program"} /\ g \in Guests
      /\ q.read \in Envelopes /\ q.patch \in SlotPatch /\ Consistent(q) /\ q # NoRequest
      /\ q.patch.feed \in Feeds \cup {NoSlot}
  BY <1>1, GuestWorkFields DEF Consistent, SlotPatch
<1>3. /\ q.op \in {"finalize", "program"} => q.patch.feed = NoSlot
      /\ q.op = "finalize" => q.read[g] # NoSlot
      /\ q.op = "preview" => q.patch.status = "PREVIEW"
      /\ q.op = "update" => q.patch.status \in {NoSlot, "PROGRAM"}
  BY <1>1, <1>2 DEF Consistent
<1>4. /\ mine.op = q.op /\ mine.guest = q.guest /\ mine.step = "list" /\ mine \in GuestWork
      /\ mine # NoRequest
  <2>1. /\ mine.op = q.op /\ mine.guest = q.guest /\ mine.step = "list" /\ mine.patch = q.patch
        /\ mine \in [op : GuestOps, guest : Guests, patch : SlotPatch, overtaken : BOOLEAN,
                      read : Envelopes, seen : [Guests -> {"none", "deleted"} \cup Invited],
                      step : GuestSteps]
    BY <1>1 DEF GuestWork, GuestSteps
  <2> HIDE DEF mine
  <2>2. mine \in GuestWork
    BY <1>2, <2>1 DEF Consistent, GuestWork
  <2> QED  BY <2>1, <2>2, NoRequestIsNoWork
<1> HIDE DEF mine
<1>5. /\ guestRequest' \in [GuestRequests -> GuestWork \cup {NoRequest}]
      /\ guestRequest'[r] = mine
      /\ \A o \in GuestRequests \ {r} :
           /\ guestRequest'[o] = NoRequest <=> guestRequest[o] = NoRequest
           /\ guestRequest[o] # NoRequest =>
                /\ guestRequest'[o].overtaken
                /\ guestRequest'[o].op = guestRequest[o].op
                /\ guestRequest'[o].guest = guestRequest[o].guest
                /\ guestRequest'[o].step = guestRequest[o].step
  BY <1>1, <1>4, OvertakesEffect
\* What the slot becomes, and what the others do.
<1>6. /\ envelope' \in Envelopes
      /\ \A h \in Guests : Feed(envelope'[h]) = IF h = g /\ q.patch.feed # NoSlot
                                                THEN q.patch.feed ELSE Feed(q.read[h])
      /\ q.op = "program" =>
           \A h \in Guests \ {g} : envelope'[h] # NoSlot => envelope'[h].status # "PROGRAM"
      /\ q.op # "program" /\ ~(q.op = "update" /\ q.patch.status = "PROGRAM") =>
           \A h \in Guests : envelope'[h] # NoSlot /\ envelope'[h].status = "PROGRAM" =>
             /\ q.read[h] # NoSlot /\ q.read[h].status = "PROGRAM"
             /\ q.op = "finalize" => h # g
  <2>1. CASE q.op = "program"
    <3>1. envelope' = Taken(q.read, g) /\ q.patch.feed = NoSlot
      BY <1>1, <1>3, <2>1
    <3>2. /\ envelope' \in Envelopes
          /\ \A h \in Guests : Feed(envelope'[h]) = Feed(q.read[h])
          /\ \A h \in Guests \ {g} : envelope'[h] # NoSlot => envelope'[h].status # "PROGRAM"
      BY <1>2, <3>1, TakenEffect
    <3> QED  BY <2>1, <3>1, <3>2
  <2>2. CASE q.op = "finalize"
    <3> DEFINE freed == [q.read[g] EXCEPT !.status = "FREE"]
    <3>1. /\ freed \in SlotConfig /\ freed.status # "PROGRAM" /\ freed.feed = q.read[g].feed
          /\ envelope' = [q.read EXCEPT ![g] = freed]
      <4>1. q.read[g] \in SlotConfig
        BY <1>2, <1>3, <2>2 DEF Envelopes
      <4>2. envelope' = [q.read EXCEPT ![g] = freed]
        BY <1>1, <2>2
      <4> QED  BY <4>1, <4>2 DEF SlotConfig, SlotStatus
    <3> HIDE DEF freed
    <3>2. freed # NoSlot
      BY <3>1, NoSlotIsNothing
    <3>3. envelope' \in Envelopes
      BY <1>2, <3>1 DEF Envelopes
    <3>4. envelope'[g] = freed /\ \A h \in Guests \ {g} : envelope'[h] = q.read[h]
      BY <1>2, <3>1 DEF Envelopes
    <3>5. Feed(envelope'[g]) = Feed(q.read[g])
      BY <1>3, <2>2, <3>1, <3>2, <3>4 DEF Feed
    <3> QED  BY <1>3, <2>2, <3>1, <3>3, <3>4, <3>5
  <2>3. CASE q.op \in {"update", "preview"}
    <3> DEFINE new == Patched(q.read[g], q.patch)
    <3>1. q.read[g] \in SlotConfig \cup {NoSlot}
      BY <1>2 DEF Envelopes
    <3>2. /\ new \in SlotConfig /\ new # NoSlot
          /\ new.feed = IF q.patch.feed = NoSlot THEN Feed(q.read[g]) ELSE q.patch.feed
          /\ q.patch.status = "PREVIEW" => new.status # "PROGRAM"
          /\ q.patch.status = NoSlot /\ new.status = "PROGRAM" =>
               q.read[g] # NoSlot /\ q.read[g].status = "PROGRAM"
      BY <1>2, <3>1, PatchedEffect
    <3> HIDE DEF new
    <3>3. envelope' = [q.read EXCEPT ![g] = new]
      BY <1>1, <2>3 DEF new
    <3>4. envelope' \in Envelopes
      BY <1>2, <3>2, <3>3 DEF Envelopes
    <3>5. envelope'[g] = new /\ \A h \in Guests \ {g} : envelope'[h] = q.read[h]
      BY <1>2, <3>3 DEF Envelopes
    <3>6. Feed(envelope'[g]) = new.feed
      BY <3>2, <3>5 DEF Feed
    <3> QED  BY <1>3, <2>3, <3>2, <3>4, <3>5, <3>6
  <2> QED  BY <1>2, <2>1, <2>2, <2>3
<1>7. asked' \in [Guests -> Feeds]
  BY <1>1, <1>2 DEF GuestStateTyped
<1>8. GuestStateTyped'
  BY <1>1, <1>5, <1>6, <1>7 DEF GuestStateTyped
<1>9. ASSUME NEW o \in GuestRequests  PROVE RequestAgrees(o)'
  BY <1>4, <1>5 DEF RequestAgrees
<1>10. ASSUME blemishes' = {}  PROVE SlotsAgree'
  <2>1. SlotsAgree /\ RequestAgrees(r)
    BY <1>1, <1>10 DEF GuestIInv
  <2>2. /\ q.read = envelope
        /\ q.op = "program" => onAir = g /\ invitation[g] \in Invited
        /\ ~(q.op = "update" /\ q.patch.status = "PROGRAM")
    BY <1>1, <1>2, <1>10, <2>1 DEF RequestAgrees
  <2>3. \A o \in GuestRequests \ {r} :
          /\ o \in Taking' <=> o \in Taking
          /\ o \in Owing' <=> o \in Owing
          /\ \A h \in Guests : o \in Releasing(h)' <=> o \in Releasing(h)
    BY <1>5, OthersStay
  <2>4. r \in Owing'
    BY <1>4, <1>5 DEF Owing, Doing
  <2>5. ASSUME NEW h \in Guests  PROVE asked'[h] = Feed(envelope'[h])
    <3>1. asked[h] = Feed(envelope[h])
      BY <2>1 DEF SlotsAgree
    <3>2. asked'[h] = IF h = g /\ q.patch.feed # NoSlot THEN q.patch.feed ELSE asked[h]
      BY <1>1 DEF GuestStateTyped
    <3> QED  BY <1>6, <2>2, <3>1, <3>2
  <2>6. ASSUME NEW h \in OnProgram'
        PROVE  /\ onAir' = h \/ Taking' # {}
               /\ invitation'[h] \in Invited \/ Releasing(h)' # {}
    <3>1. h \in Guests /\ envelope'[h] # NoSlot /\ envelope'[h].status = "PROGRAM"
      BY DEF OnProgram
    <3>2. CASE q.op = "program"
      BY <1>1, <1>6, <2>2, <3>1, <3>2
    <3>3. CASE q.op # "program"
      <4>1. h \in OnProgram /\ (q.op = "finalize" => h # g)
        BY <1>6, <2>2, <3>1, <3>3 DEF OnProgram
      <4>2. r \notin Taking /\ r \notin Releasing(h)
        BY <3>3, <4>1 DEF Taking, Releasing
      <4>3. Taking \subseteq Taking' /\ Releasing(h) \subseteq Releasing(h)'
        <5>1. Taking \subseteq GuestRequests /\ Releasing(h) \subseteq GuestRequests
          BY DEF Taking, Releasing, Doing
        <5> QED  BY <2>3, <3>1, <4>2, <5>1
      <4>4. /\ onAir = h \/ Taking # {}
            /\ invitation[h] \in Invited \/ Releasing(h) # {}
        BY <2>1, <4>1 DEF SlotsAgree
      <4> QED  BY <1>1, <4>3, <4>4
    <3> QED  BY <3>2, <3>3
  <2> QED  BY <2>4, <2>5, <2>6 DEF SlotsAgree
<1> QED  BY <1>8, <1>9, <1>10 DEF GuestIInv

LEMMA EmitsStep ==
  ASSUME GuestIInv, NEW r \in GuestRequests, EmitsSlots(r)
  PROVE  GuestIInv'
<1> DEFINE q == guestRequest[r]
<1>1. /\ GuestStateTyped /\ q \in GuestWork /\ q.step = "emit" /\ q # NoRequest
      /\ toldSlots' = SlotList(q.seen, envelope)
      /\ guestRequest' = [guestRequest EXCEPT ![r] = NoRequest]
      /\ UNCHANGED <<invitation, envelope, engineType, preview, onAir, asked>>
      /\ blemishes \subseteq blemishes' /\ blemishes' \subseteq {"overtaken", "by hand", "failed"}
      /\ blemishes' = {} => ~q.overtaken
  <2>1. GuestStateTyped /\ q.step = "emit"
    BY DEF GuestIInv, EmitsSlots
  <2>2. q # NoRequest
    BY <2>1 DEF NoRequest
  <2> QED  BY <2>1, <2>2 DEF GuestStateTyped, EmitsSlots, engineVars
<1>2. /\ guestRequest' \in [GuestRequests -> GuestWork \cup {NoRequest}]
      /\ guestRequest'[r] = NoRequest
      /\ \A o \in GuestRequests \ {r} : guestRequest'[o] = guestRequest[o]
  BY <1>1, SetsEffect
<1>3. GuestStateTyped'
  BY <1>1, <1>2 DEF GuestStateTyped
<1>4. ASSUME NEW o \in GuestRequests  PROVE RequestAgrees(o)'
  BY <1>1, <1>2 DEF GuestIInv, RequestAgrees
<1>5. ASSUME blemishes' = {}  PROVE SlotsAgree'
  <2>1. SlotsAgree /\ RequestAgrees(r)
    BY <1>1, <1>5 DEF GuestIInv
  <2>2. toldSlots' = SlotList(invitation', envelope')
    BY <1>1, <1>5, <2>1 DEF RequestAgrees
  <2>3. \A o \in GuestRequests \ {r} :
          /\ o \in Taking' <=> o \in Taking
          /\ o \in Owing' <=> o \in Owing
          /\ \A g \in Guests : o \in Releasing(g)' <=> o \in Releasing(g)
    BY <1>2, OthersStay
  <2>4. /\ Taking \subseteq GuestRequests \ {r}
        /\ \A g \in Guests : Releasing(g) \subseteq GuestRequests \ {r}
    BY <1>1 DEF Taking, Releasing, Doing
  <2>5. OnProgram' = OnProgram /\ OnProgram \subseteq Guests
    BY <1>1 DEF OnProgram
  <2>6. \A g \in Guests : asked'[g] = Feed(envelope'[g])
    BY <1>1, <2>1 DEF SlotsAgree
  <2>7. \A g \in OnProgram' : onAir' = g \/ Taking' # {}
    BY <1>1, <2>1, <2>3, <2>4, <2>5 DEF SlotsAgree
  <2>8. \A g \in OnProgram' : invitation'[g] \in Invited \/ Releasing(g)' # {}
    BY <1>1, <2>1, <2>3, <2>4, <2>5 DEF SlotsAgree
  <2> QED  BY <2>2, <2>6, <2>7, <2>8 DEF SlotsAgree
<1> QED  BY <1>3, <1>4, <1>5 DEF GuestIInv

\* What is kept between requests and inside of them, in every reachable state.
THEOREM GuestInvariance == GuestSpec => []GuestIInv
<1>1. GuestInit => GuestIInv
  <2> SUFFICES ASSUME GuestInit  PROVE GuestIInv
    OBVIOUS
  <2>1. GuestStateTyped
    BY DEF GuestInit, GuestStateTyped, Envelopes, Feeds
  <2>2. \A r \in GuestRequests : RequestAgrees(r)
    BY DEF GuestInit, RequestAgrees
  <2>3. SlotsAgree
    <3>1. OnProgram = {}
      BY DEF GuestInit, OnProgram
    <3>2. \A g \in Guests : asked[g] = Feed(envelope[g])
      BY DEF GuestInit, Feed
    <3>3. toldSlots = SlotList(invitation, envelope)
      BY DEF GuestInit, SlotList, Invited
    <3> QED  BY <3>1, <3>2, <3>3 DEF SlotsAgree
  <2> QED  BY <2>1, <2>2, <2>3 DEF GuestIInv
<1>2. GuestIInv /\ [GuestNext]_guestVars => GuestIInv'
  <2> SUFFICES ASSUME GuestIInv, [GuestNext]_guestVars  PROVE GuestIInv'
    OBVIOUS
  <2>1. NoPatch \in SlotPatch /\ NoPatch.feed = NoSlot
    BY DEF NoPatch, SlotPatch
  <2>2. ASSUME NEW r \in GuestRequests, NEW g \in Guests,
               \/ CreateInvitation(r, g) \/ ActivateGuest(r, g) \/ FinalizeGuest(r, g)
               \/ TakeGuestProgram(r, g)
        PROVE  GuestIInv'
    <3>1. \E op \in {"create", "activate", "finalize", "program"} :
            GuestRequestComes(r, op, g, NoPatch)
      BY <2>2 DEF CreateInvitation, ActivateGuest, FinalizeGuest, TakeGuestProgram
    <3> QED  BY <2>1, <3>1, ComesStep DEF GuestOps
  <2>3. ASSUME NEW r \in GuestRequests, NEW g \in Guests, UpdateGuestSlot(r, g)
        PROVE  GuestIInv'
    <3>1. PICK patch \in Patches : GuestRequestComes(r, "update", g, patch)
      BY <2>3 DEF UpdateGuestSlot
    <3>2. patch \in SlotPatch /\ patch.status \in {NoSlot, "PROGRAM"}
      BY DEF Patches, NoPatch, SlotPatch, SlotStatus, Feeds
    <3> QED  BY <3>1, <3>2, ComesStep DEF GuestOps
  <2>4. ASSUME NEW r \in GuestRequests, NEW g \in Guests, TakeGuestPreview(r, g)
        PROVE  GuestIInv'
    <3> DEFINE patch == [NoPatch EXCEPT !.status = "PREVIEW"]
    <3>1. patch \in SlotPatch /\ patch.status = "PREVIEW"
      BY DEF NoPatch, SlotPatch, SlotStatus
    <3>2. GuestRequestComes(r, "preview", g, patch)
      BY <2>4 DEF TakeGuestPreview
    <3> HIDE DEF patch
    <3> QED  BY <3>1, <3>2, ComesStep DEF GuestOps
  <2>5. CASE UNCHANGED guestVars
    <3>1. /\ OnProgram' = OnProgram /\ Taking' = Taking /\ Owing' = Owing
          /\ \A g \in Guests : Releasing(g)' = Releasing(g)
      BY <2>5 DEF guestVars, OnProgram, engineVars, Taking, Releasing, Owing, Doing
    <3>2. OnProgram \subseteq Guests
      BY DEF OnProgram
    <3>3. SlotsAgree => SlotsAgree'
      BY <2>5, <3>1, <3>2 DEF guestVars, engineVars, SlotsAgree
    <3>4. GuestStateTyped' /\ \A r \in GuestRequests : RequestAgrees(r)'
      BY <2>5 DEF guestVars, GuestIInv, engineVars, GuestStateTyped, RequestAgrees
    <3> QED  BY <2>5, <3>3, <3>4 DEF guestVars, GuestIInv
  <2>6. CASE GuestNext
    BY <2>2, <2>3, <2>4, <2>6, InvitationStep, SelectsStep, CutsStep, SceneStep, LooksUpStep, ReadsStep,
       SavesStep, ListsStep, EmitsStep, FailsStep DEF GuestNext
  <2> QED  BY <2>5, <2>6
<1> QED  BY <1>1, <1>2, PTL DEF GuestSpec

\* The types of the invitations, of the configuration and of what the requests have read.
THEOREM GuestTyped == GuestSpec => []GuestTypeOK
<1>1. GuestIInv => GuestTypeOK
  <2> SUFFICES ASSUME GuestIInv  PROVE GuestTypeOK
    OBVIOUS
  <2>1. GuestStateTyped
    BY DEF GuestIInv
  <2>2. ASSUME NEW r \in GuestRequests, guestRequest[r] # NoRequest
        PROVE  /\ guestRequest[r].read \in Envelopes
               /\ guestRequest[r].patch \in SlotPatch
               /\ guestRequest[r].step = "save" /\ guestRequest[r].op = "finalize" =>
                    guestRequest[r].read[guestRequest[r].guest] # NoSlot
    BY <2>1, <2>2, GuestWorkFields DEF GuestStateTyped, Consistent
  <2> QED  BY <2>1, <2>2 DEF GuestStateTyped, GuestTypeOK
<1> QED  BY <1>1, GuestInvariance, PTL

\* As long as nothing was overtaken, marked by hand or failed, every slot has the feed it was
\* given last, who is on program is on air and invited, and the list announced last is as it is.
THEOREM SlotsAgreeAtRest == GuestSpec => []SlotsAreKept
<1>1. GuestIInv => SlotsAreKept
  <2> SUFFICES ASSUME GuestIInv, blemishes = {}
               PROVE  /\ \A g \in Guests :
                           asked[g] = IF envelope[g] = NoSlot THEN "CONTROL" ELSE envelope[g].feed
                      /\ \A g \in Guests :
                           envelope[g] # NoSlot /\ envelope[g].status = "PROGRAM" =>
                             /\ onAir = g \/ Busy({"program"})
                             /\ invitation[g] \in Invited \/ Busy({"finalize"})
                      /\ ~Busy(GuestOps) => toldSlots = SlotList(invitation, envelope)
    BY DEF SlotsAreKept
  <2>1. GuestStateTyped /\ SlotsAgree
    BY DEF GuestIInv
  <2>2. /\ Taking # {} => Busy({"program"})
        /\ \A g \in Guests : Releasing(g) # {} => Busy({"finalize"})
    BY DEF Taking, Releasing, Doing, Busy
  <2>3. Owing # {} => Busy(GuestOps)
    <3> SUFFICES ASSUME NEW r \in Owing  PROVE Busy(GuestOps)
      OBVIOUS
    <3>1. r \in GuestRequests /\ guestRequest[r] # NoRequest
      BY DEF Owing, Doing
    <3> QED  BY <2>1, <3>1, GuestWorkFields DEF GuestStateTyped, Busy
  <2> QED  BY <2>1, <2>2, <2>3 DEF SlotsAgree, OnProgram, Feed
<1> QED  BY <1>1, GuestInvariance, PTL

-----------------------------------------------------------------------------
(***************************************************************************)
(* The fan-out hubs.                                                       *)
(*                                                                         *)
(* An id is given to a process only when no hub holds it, so what a hub    *)
(* holds and is alive was spawned for it; and what comes back against the  *)
(* will of its hub is known by being revived.                              *)
(***************************************************************************)
\* A process that a hub holds was spawned for it.
HeldByOwnHub == \A h \in Hubs : \A f \in hubs[h] : Live(f) => process[f].hub = h

HubIInv == HubTypeOK /\ SendersAreHeld /\ HeldByOwnHub

LEMMA DeadIsNoFfmpeg == Dead \notin Ffmpeg
  BY DEF Dead, Ffmpeg

LEMMA FfmpegFields ==
  ASSUME NEW w \in Ffmpeg
  PROVE  /\ w.hub \in Hubs /\ w.to \in SUBSET Targets /\ w.told \in BOOLEAN
         /\ w.revived \in BOOLEAN /\ w.fits \in BOOLEAN
         /\ w.sends \in {"copy", "preset", "regions"} /\ w # Dead
  BY DEF Ffmpeg, Dead

\* A preset is given the sources it composes, when no regions come with it.
LEMMA PresetsFit ==
  ASSUME NEW layout \in Layout, layout.regions = <<>>
  PROVE  Fits(layout)
<1>1. layout.preset \in Preset
  BY DEF Layout
<1>2. CASE layout.preset = "studio"
  <2>1. Inputs(layout) = 3
    BY <1>2 DEF Inputs
  <2>2. Composed(layout) = 0 .. 2
    BY <1>2, <2>1 DEF Composed
  <2> QED  BY <2>1, <2>2 DEF Fits
<1>3. CASE layout.preset \in {"pip", "split-h", "split-v"}
  <2>1. Inputs(layout) = 2 /\ Composed(layout) = 0 .. 1
    BY <1>3 DEF Inputs, Composed
  <2> QED  BY <2>1 DEF Fits
<1>4. CASE layout.preset = "triple-h"
  <2>1. Inputs(layout) = 3 /\ Composed(layout) = 0 .. 2
    BY <1>4 DEF Inputs, Composed
  <2> QED  BY <2>1 DEF Fits
<1>5. CASE layout.preset = "grid-4"
  <2>1. Inputs(layout) = 4 /\ Composed(layout) = 0 .. 3
    BY <1>5 DEF Inputs, Composed
  <2> QED  BY <2>1 DEF Fits
<1>6. CASE layout.preset = "custom"
  <2>1. Composed(layout) = {layout.regions[n] : n \in DOMAIN layout.regions}
    BY <1>6 DEF Composed
  <2>2. DOMAIN layout.regions = {}
    OBVIOUS
  <2> QED  BY <2>1, <2>2 DEF Fits
<1> QED  BY <1>1, <1>2, <1>3, <1>4, <1>5, <1>6 DEF Preset

\* Processes are told to end, and are otherwise as they were.
LEMMA ToldEffect ==
  ASSUME process \in [Processes -> Ffmpeg \cup {Dead}], NEW ps
  PROVE  /\ Told(ps) \in [Processes -> Ffmpeg \cup {Dead}]
         /\ \A f \in Processes :
              /\ Told(ps)[f] # Dead <=> Live(f)
              /\ Live(f) =>
                   /\ Told(ps)[f].hub = process[f].hub /\ Told(ps)[f].to = process[f].to
                   /\ Told(ps)[f].sends = process[f].sends /\ Told(ps)[f].fits = process[f].fits
                   /\ Told(ps)[f].revived = process[f].revived
                   /\ Told(ps)[f].told = (process[f].told \/ f \in ps)
<1>1. ASSUME NEW f \in Processes
      PROVE  /\ Told(ps)[f] \in Ffmpeg \cup {Dead}
             /\ Told(ps)[f] # Dead <=> Live(f)
             /\ Live(f) =>
                  /\ Told(ps)[f].hub = process[f].hub /\ Told(ps)[f].to = process[f].to
                  /\ Told(ps)[f].sends = process[f].sends /\ Told(ps)[f].fits = process[f].fits
                  /\ Told(ps)[f].revived = process[f].revived
                  /\ Told(ps)[f].told = (process[f].told \/ f \in ps)
  <2>1. CASE f \in ps /\ Live(f)
    <3> DEFINE told == [process[f] EXCEPT !.told = TRUE]
    <3>1. Told(ps)[f] = told /\ process[f] \in Ffmpeg
      BY <2>1 DEF Told, Live
    <3>2. /\ told.hub = process[f].hub /\ told.to = process[f].to /\ told.sends = process[f].sends
          /\ told.fits = process[f].fits /\ told.revived = process[f].revived /\ told.told = TRUE
          /\ told \in Ffmpeg
      BY <3>1 DEF Ffmpeg
    <3> HIDE DEF told
    <3> QED  BY <2>1, <3>1, <3>2, DeadIsNoFfmpeg
  <2>2. CASE ~(f \in ps /\ Live(f))
    <3>1. Told(ps)[f] = process[f]
      BY <2>2 DEF Told
    <3>2. Live(f) => process[f].told \in BOOLEAN
      BY FfmpegFields DEF Live
    <3> QED  BY <2>2, <3>1, <3>2 DEF Live
  <2> QED  BY <2>1, <2>2
<1> QED  BY <1>1 DEF Told

\* A hub that is started holds what it spawned, and what it replaces is told to end.
LEMMA SpawnsStep ==
  ASSUME HubIInv, NEW h \in Hubs, NEW started, NEW sends \in {"copy", "preset", "regions"},
         NEW fits \in BOOLEAN,
         DOMAIN started \subseteq {f \in Processes : Free(f)},
         \A f \in DOMAIN started : started[f] \in SUBSET Targets,
         \A f, g \in DOMAIN started : f # g => started[f] \cap started[g] = {},
         sends # "regions" => fits,
         HubRequest, Spawns(h, started, sends, fits)
  PROVE  HubIInv'
<1> DEFINE new(f) == [hub |-> h, to |-> started[f], sends |-> sends, fits |-> fits,
                      told |-> FALSE, revived |-> FALSE]
           fs == DOMAIN started
<1>1. /\ HubTypeOK /\ SendersAreHeld /\ HeldByOwnHub
      /\ active' = active \cup {h} /\ hubs' = [hubs EXCEPT ![h] = fs]
      /\ process' = [f \in Processes |-> IF f \in fs THEN new(f) ELSE Told(hubs[h])[f]]
  BY DEF HubIInv, Spawns, Replaced
<1>2. \A f \in fs : /\ f \in Processes /\ ~Live(f) /\ \A k \in Hubs : f \notin hubs[k]
                    /\ started[f] \in SUBSET Targets
  BY DEF Free
<1>3. ASSUME NEW f \in fs
      PROVE  /\ process'[f] \in Ffmpeg /\ process'[f].hub = h /\ process'[f].to = started[f]
             /\ process'[f].sends = sends /\ process'[f].fits = fits
  <2>1. process'[f] = new(f)
    BY <1>1, <1>2
  <2>2. /\ new(f) \in Ffmpeg /\ new(f).hub = h /\ new(f).to = started[f]
        /\ new(f).sends = sends /\ new(f).fits = fits
    BY <1>2 DEF Ffmpeg
  <2> HIDE DEF new
  <2> QED  BY <2>1, <2>2
<1> HIDE DEF new
<1>4. process \in [Processes -> Ffmpeg \cup {Dead}] /\ hubs \in [Hubs -> SUBSET Processes]
  BY <1>1 DEF HubTypeOK
<1>5. ASSUME NEW f \in Processes \ fs
      PROVE  /\ process'[f] \in Ffmpeg \cup {Dead}
             /\ process'[f] # Dead <=> Live(f)
             /\ Live(f) =>
                  /\ process'[f].hub = process[f].hub /\ process'[f].to = process[f].to
                  /\ process'[f].sends = process[f].sends /\ process'[f].fits = process[f].fits
                  /\ process'[f].revived = process[f].revived
                  /\ process'[f].told = (process[f].told \/ f \in hubs[h])
  <2>1. process'[f] = Told(hubs[h])[f]
    BY <1>1
  <2> QED  BY <1>4, <2>1, ToldEffect
<1>6. HubTypeOK'
  <2>1. process' \in [Processes -> Ffmpeg \cup {Dead}]
    <3>1. \A f \in Processes : process'[f] \in Ffmpeg \cup {Dead}
      BY <1>3, <1>5
    <3> QED  BY <1>1, <3>1
  <2>2. hubs' \in [Hubs -> SUBSET Processes] /\ fs \in SUBSET Processes
    BY <1>1, <1>2, <1>4
  <2>3. hubRequests' \in 0 .. MaxHubRequests
    BY <1>1, HubAssumption DEF HubRequest, HubTypeOK
  <2> QED  BY <1>1, <2>1, <2>2, <2>3 DEF HubTypeOK
<1>7. hubs'[h] = fs /\ \A k \in Hubs \ {h} : hubs'[k] = hubs[k]
  BY <1>1, <1>4
<1>8. SendersAreHeld'
  <2>1. ASSUME NEW f \in Processes, Live(f)'
        PROVE  /\ process'[f].told \/ f \in hubs'[process'[f].hub]
               /\ process'[f].sends # "regions" => process'[f].fits
    <3>1. CASE f \in fs
      BY <1>3, <1>7, <3>1
    <3>2. CASE f \notin fs
      <4>1. Live(f) /\ process[f] \in Ffmpeg
        BY <1>4, <1>5, <2>1, <3>2 DEF Live
      <4>2. process[f].hub \in Hubs
        BY <4>1, FfmpegFields
      <4>3. /\ process[f].told \/ f \in hubs[process[f].hub]
            /\ process[f].sends # "regions" => process[f].fits
        BY <1>1, <4>1 DEF SendersAreHeld
      <4> QED  BY <1>5, <1>7, <3>2, <4>1, <4>2, <4>3
    <3> QED  BY <3>1, <3>2
  <2>2. ASSUME NEW k \in Hubs, NEW f \in hubs'[k], NEW g \in hubs'[k],
               Live(f)', Live(g)', f # g, process'[f].to \cap process'[g].to # {}
        PROVE  process'[f].revived \/ process'[g].revived
    <3>1. CASE k = h
      BY <1>3, <1>7, <2>2, <3>1
    <3>2. CASE k # h
      <4>1. f \in hubs[k] \ fs /\ g \in hubs[k] \ fs /\ f \in Processes /\ g \in Processes
        BY <1>2, <1>4, <1>7, <2>2, <3>2
      <4>2. Live(f) /\ Live(g) /\ process[f].to \cap process[g].to # {}
        BY <1>5, <2>2, <4>1 DEF Live
      <4>3. process[f].revived \/ process[g].revived
        BY <1>1, <2>2, <4>1, <4>2 DEF SendersAreHeld
      <4> QED  BY <1>5, <4>1, <4>2, <4>3
    <3> QED  BY <3>1, <3>2
  <2> QED  BY <2>1, <2>2 DEF SendersAreHeld
<1>9. HeldByOwnHub'
  <2> SUFFICES ASSUME NEW k \in Hubs, NEW f \in hubs'[k], Live(f)'
               PROVE  process'[f].hub = k
    BY DEF HeldByOwnHub
  <2>1. CASE k = h
    BY <1>3, <1>7, <2>1
  <2>2. CASE k # h
    <3>1. f \in hubs[k] \ fs /\ f \in Processes
      BY <1>2, <1>4, <1>7, <2>2
    <3>2. Live(f)
      BY <1>5, <3>1 DEF Live
    <3> QED  BY <1>1, <1>5, <3>1, <3>2 DEF HeldByOwnHub
  <2> QED  BY <2>1, <2>2
<1> QED  BY <1>6, <1>8, <1>9 DEF HubIInv

LEMMA StopHubStep ==
  ASSUME HubIInv, NEW h \in Hubs, StopHub(h)
  PROVE  HubIInv'
<1>1. /\ HubTypeOK /\ SendersAreHeld /\ HeldByOwnHub
      /\ active' = active \ {h} /\ hubs' = [hubs EXCEPT ![h] = {}]
      /\ process' = Told(hubs[h])
      /\ process \in [Processes -> Ffmpeg \cup {Dead}] /\ hubs \in [Hubs -> SUBSET Processes]
  BY DEF HubIInv, StopHub, HubTypeOK
<1>2. process' \in [Processes -> Ffmpeg \cup {Dead}]
  BY <1>1, ToldEffect
<1>3. ASSUME NEW f \in Processes
      PROVE  /\ process'[f] # Dead <=> Live(f)
             /\ Live(f) =>
                  /\ process'[f].hub = process[f].hub /\ process'[f].to = process[f].to
                  /\ process'[f].sends = process[f].sends /\ process'[f].fits = process[f].fits
                  /\ process'[f].revived = process[f].revived
                  /\ process'[f].told = (process[f].told \/ f \in hubs[h])
  BY <1>1, ToldEffect
<1>4. hubs'[h] = {} /\ \A k \in Hubs \ {h} : hubs'[k] = hubs[k]
  BY <1>1
<1>5. HubTypeOK'
  <2>1. hubRequests' \in 0 .. MaxHubRequests
    BY <1>1, HubAssumption DEF StopHub, HubRequest, HubTypeOK
  <2> QED  BY <1>1, <1>2, <1>4, <2>1 DEF HubTypeOK
<1>6. SendersAreHeld'
  <2>1. ASSUME NEW f \in Processes, Live(f)'
        PROVE  /\ process'[f].told \/ f \in hubs'[process'[f].hub]
               /\ process'[f].sends # "regions" => process'[f].fits
    <3>1. Live(f) /\ process[f] \in Ffmpeg
      BY <1>1, <1>3, <2>1 DEF Live
    <3>2. process[f].hub \in Hubs
      BY <3>1, FfmpegFields
    <3>3. /\ process[f].told \/ f \in hubs[process[f].hub]
          /\ process[f].sends # "regions" => process[f].fits
      BY <1>1, <3>1 DEF SendersAreHeld
    <3>4. /\ process'[f].hub = process[f].hub /\ process'[f].sends = process[f].sends
          /\ process'[f].fits = process[f].fits
          /\ process'[f].told = (process[f].told \/ f \in hubs[h])
      BY <1>3, <3>1
    <3>5. CASE process[f].hub = h
      BY <3>3, <3>4, <3>5
    <3>6. CASE process[f].hub # h
      <4>1. hubs'[process[f].hub] = hubs[process[f].hub]
        BY <1>4, <3>2, <3>6
      <4> QED  BY <3>3, <3>4, <4>1
    <3> QED  BY <3>5, <3>6
  <2>2. ASSUME NEW k \in Hubs, NEW f \in hubs'[k], NEW g \in hubs'[k],
               Live(f)', Live(g)', f # g, process'[f].to \cap process'[g].to # {}
        PROVE  process'[f].revived \/ process'[g].revived
    <3>1. f \in hubs[k] /\ g \in hubs[k] /\ f \in Processes /\ g \in Processes
      BY <1>1, <1>4, <2>2
    <3>2. Live(f) /\ Live(g) /\ process[f].to \cap process[g].to # {}
      BY <1>3, <2>2, <3>1 DEF Live
    <3>3. process[f].revived \/ process[g].revived
      BY <1>1, <2>2, <3>1, <3>2 DEF SendersAreHeld
    <3> QED  BY <1>3, <3>1, <3>2, <3>3
  <2> QED  BY <2>1, <2>2 DEF SendersAreHeld
<1>7. HeldByOwnHub'
  <2> SUFFICES ASSUME NEW k \in Hubs, NEW f \in hubs'[k], Live(f)'
               PROVE  process'[f].hub = k
    BY DEF HeldByOwnHub
  <2>1. f \in hubs[k] /\ f \in Processes
    BY <1>1, <1>4
  <2>2. Live(f)
    BY <1>3, <2>1 DEF Live
  <2> QED  BY <1>1, <1>3, <2>1, <2>2 DEF HeldByOwnHub
<1> QED  BY <1>5, <1>6, <1>7 DEF HubIInv

\* A process that is gone is sent nothing, and its hub may hold it as before.
LEMMA DiesStep ==
  ASSUME HubIInv, NEW f \in Processes, process' = [process EXCEPT ![f] = Dead],
         UNCHANGED <<active, hubs, hubRequests>>
  PROVE  HubIInv'
<1>1. HubTypeOK /\ SendersAreHeld /\ HeldByOwnHub
  BY DEF HubIInv
<1>2. /\ process' \in [Processes -> Ffmpeg \cup {Dead}]
      /\ \A g \in Processes : Live(g)' => Live(g) /\ process'[g] = process[g]
  BY <1>1 DEF HubTypeOK, Live
<1>3. HubTypeOK'
  BY <1>1, <1>2 DEF HubTypeOK
<1>4. \A h \in Hubs : hubs[h] \subseteq Processes
  BY <1>1 DEF HubTypeOK
<1>5. SendersAreHeld'
  <2>1. ASSUME NEW g \in Processes, Live(g)'
        PROVE  /\ process'[g].told \/ g \in hubs'[process'[g].hub]
               /\ process'[g].sends # "regions" => process'[g].fits
    BY <1>1, <1>2, <2>1 DEF SendersAreHeld
  <2>2. ASSUME NEW k \in Hubs, NEW g \in hubs'[k], NEW o \in hubs'[k],
               Live(g)', Live(o)', g # o, process'[g].to \cap process'[o].to # {}
        PROVE  process'[g].revived \/ process'[o].revived
    <3>1. /\ g \in hubs[k] /\ o \in hubs[k] /\ Live(g) /\ Live(o)
          /\ process'[g] = process[g] /\ process'[o] = process[o]
      BY <1>2, <1>4, <2>2
    <3> QED  BY <1>1, <2>2, <3>1 DEF SendersAreHeld
  <2> QED  BY <2>1, <2>2 DEF SendersAreHeld
<1>6. HeldByOwnHub'
  BY <1>1, <1>2, <1>4 DEF HeldByOwnHub
<1> QED  BY <1>3, <1>5, <1>6 DEF HubIInv

\* What restarts is held by the hub it sends for, and counts as revived when that hub did not
\* hold what ended.
LEMMA RespawnsStep ==
  ASSUME HubIInv, NEW f \in Processes, NEW g \in Processes, Live(f), Free(g),
         process[f].sends = "copy", process[f].hub \in active, Respawns(f, g),
         UNCHANGED <<active, hubRequests>>
  PROVE  HubIInv'
<1> DEFINE h == process[f].hub
           new == [process[f] EXCEPT !.told = FALSE, !.revived = @ \/ f \notin hubs[h]]
<1>1. /\ HubTypeOK /\ SendersAreHeld /\ HeldByOwnHub
      /\ process' = [process EXCEPT ![f] = Dead, ![g] = new]
      /\ hubs' = [hubs EXCEPT ![h] = (@ \ {f}) \cup {g}]
  BY DEF HubIInv, Respawns
<1>2. /\ process \in [Processes -> Ffmpeg \cup {Dead}] /\ hubs \in [Hubs -> SUBSET Processes]
      /\ process[f] \in Ffmpeg /\ h \in Hubs /\ h \in active
  <2>1. process \in [Processes -> Ffmpeg \cup {Dead}] /\ hubs \in [Hubs -> SUBSET Processes]
    BY <1>1 DEF HubTypeOK
  <2>2. process[f] \in Ffmpeg
    BY <2>1 DEF Live
  <2> QED  BY <2>1, <2>2, FfmpegFields
<1>3. ~Live(g) /\ f # g /\ \A k \in Hubs : g \notin hubs[k]
  BY DEF Free
<1>4. /\ new \in Ffmpeg /\ new.hub = h /\ new.to = process[f].to /\ new.sends = "copy"
      /\ new.fits = process[f].fits
      /\ new.revived = (process[f].revived \/ f \notin hubs[h])
  BY <1>2 DEF Ffmpeg
<1> HIDE DEF new
<1>5. /\ process'[g] = new /\ process'[f] = Dead
      /\ \A o \in Processes \ {f, g} : process'[o] = process[o]
      /\ process' \in [Processes -> Ffmpeg \cup {Dead}]
  BY <1>1, <1>2, <1>3, <1>4
<1> HIDE DEF h
<1>6. /\ hubs'[h] = (hubs[h] \ {f}) \cup {g} /\ \A k \in Hubs \ {h} : hubs'[k] = hubs[k]
      /\ hubs' \in [Hubs -> SUBSET Processes]
  BY <1>1, <1>2
<1>7. HubTypeOK'
  <2>1. \A k \in Hubs \ active' : hubs'[k] = {}
    BY <1>1, <1>2, <1>6 DEF HubTypeOK
  <2> QED  BY <1>1, <1>5, <1>6, <2>1 DEF HubTypeOK
<1>8. SendersAreHeld'
  <2>1. ASSUME NEW o \in Processes, Live(o)'
        PROVE  /\ process'[o].told \/ o \in hubs'[process'[o].hub]
               /\ process'[o].sends # "regions" => process'[o].fits
    <3>1. CASE o = g
      <4>1. process[f].fits
        BY <1>1, <1>2, DeadIsNoFfmpeg DEF SendersAreHeld, Live
      <4> QED  BY <1>4, <1>5, <1>6, <3>1, <4>1
    <3>2. CASE o # g
      <4>1. o # f /\ process'[o] = process[o] /\ Live(o) /\ process[o] \in Ffmpeg
        BY <1>2, <1>5, <2>1, <3>2 DEF Live
      <4>2. process[o].hub \in Hubs
        BY <4>1, FfmpegFields
      <4>3. /\ process[o].told \/ o \in hubs[process[o].hub]
            /\ process[o].sends # "regions" => process[o].fits
        BY <1>1, <4>1 DEF SendersAreHeld
      <4>4. o \in hubs[process[o].hub] => o \in hubs'[process[o].hub]
        BY <1>6, <4>1, <4>2
      <4> QED  BY <4>1, <4>3, <4>4
    <3> QED  BY <3>1, <3>2
  <2>2. ASSUME NEW k \in Hubs, NEW o \in hubs'[k], NEW p \in hubs'[k],
               Live(o)', Live(p)', o # p, process'[o].to \cap process'[p].to # {}
        PROVE  process'[o].revived \/ process'[p].revived
    <3>1. o \in Processes \ {f} /\ p \in Processes \ {f}
      BY <1>5, <1>6, <2>2 DEF Live
    \* The one that restarts against any other that its hub holds.
    <3>2. ASSUME NEW q \in Processes \ {f, g}, q \in hubs'[h], Live(q)',
                 process'[q].to \cap process'[g].to # {}
          PROVE  process'[q].revived \/ process'[g].revived
      <4>1. q \in hubs[h] /\ process'[q] = process[q] /\ Live(q)
        BY <1>5, <1>6, <3>2 DEF Live
      <4>2. CASE f \in hubs[h]
        <5>1. process[q].to \cap process[f].to # {}
          BY <1>4, <1>5, <3>2, <4>1
        <5>2. process[q].revived \/ process[f].revived
          BY <1>1, <1>2, <4>1, <4>2, <5>1 DEF SendersAreHeld
        <5> QED  BY <1>4, <1>5, <4>1, <5>2
      <4>3. CASE f \notin hubs[h]
        BY <1>4, <1>5, <4>3
      <4> QED  BY <4>2, <4>3
    <3>3. g \in hubs'[k] => k = h
      BY <1>3, <1>6
    <3>4. CASE o = g
      <4>1. process'[p].to \cap process'[g].to # {}
        BY <2>2, <3>4
      <4> QED  BY <2>2, <3>1, <3>2, <3>3, <3>4, <4>1
    <3>5. CASE p = g
      BY <2>2, <3>1, <3>2, <3>3, <3>5
    <3>6. CASE o # g /\ p # g
      <4>1. /\ o \in hubs[k] /\ p \in hubs[k] /\ Live(o) /\ Live(p)
            /\ process'[o] = process[o] /\ process'[p] = process[p]
        BY <1>5, <1>6, <2>2, <3>1, <3>6 DEF Live
      <4> QED  BY <1>1, <2>2, <4>1 DEF SendersAreHeld
    <3> QED  BY <3>4, <3>5, <3>6
  <2> QED  BY <2>1, <2>2 DEF SendersAreHeld
<1>9. HeldByOwnHub'
  <2> SUFFICES ASSUME NEW k \in Hubs, NEW o \in hubs'[k], Live(o)'
               PROVE  process'[o].hub = k
    BY DEF HeldByOwnHub
  <2>1. CASE o = g
    BY <1>3, <1>4, <1>5, <1>6, <2>1
  <2>2. CASE o # g
    <3>1. o \in hubs[k] /\ process'[o] = process[o] /\ Live(o)
      BY <1>2, <1>5, <1>6, <2>2 DEF Live
    <3> QED  BY <1>1, <3>1 DEF HeldByOwnHub
  <2> QED  BY <2>1, <2>2
<1> QED  BY <1>7, <1>8, <1>9 DEF HubIInv

\* What sends is held by its hub or told to end, whatever ends when.
THEOREM HubInvariance == HubSpec => []HubIInv
<1>1. HubInit => HubIInv
  <2> SUFFICES ASSUME HubInit  PROVE HubIInv
    OBVIOUS
  <2>1. \A f \in Processes : ~Live(f)
    BY DEF HubInit, Live
  <2>2. HubTypeOK
    BY HubAssumption DEF HubInit, HubTypeOK
  <2>3. SendersAreHeld
    BY <2>1 DEF HubInit, SendersAreHeld
  <2> QED  BY <2>2, <2>3 DEF HubInit, HeldByOwnHub, HubIInv
<1>2. HubIInv /\ [HubNext]_hubVars => HubIInv'
  <2> SUFFICES ASSUME HubIInv, [HubNext]_hubVars  PROVE HubIInv'
    OBVIOUS
  <2>1. ASSUME NEW h \in Hubs, NEW ts \in SUBSET Targets, StartHub(h, ts)  PROVE HubIInv'
    <3>0. PICK fs \in SUBSET {f \in Processes : Free(f)} :
            \E to \in [fs -> ts] : /\ \A f, g \in fs : to[f] = to[g] => f = g
                                  /\ Spawns(h, [f \in fs |-> {to[f]}], "copy", TRUE)
      BY <2>1 DEF StartHub
    <3>1. PICK to \in [fs -> ts] : /\ \A f, g \in fs : to[f] = to[g] => f = g
                                  /\ Spawns(h, [f \in fs |-> {to[f]}], "copy", TRUE)
      BY <3>0
    <3> DEFINE started == [f \in fs |-> {to[f]}]
    <3>2. /\ DOMAIN started \subseteq {f \in Processes : Free(f)}
          /\ \A f \in DOMAIN started : started[f] \in SUBSET Targets
          /\ \A f, g \in DOMAIN started : f # g => started[f] \cap started[g] = {}
      BY <3>1
    <3>3. Spawns(h, started, "copy", TRUE) /\ HubRequest
      BY <2>1, <3>1 DEF StartHub
    <3> HIDE DEF started
    <3> QED  BY <3>2, <3>3, SpawnsStep
  <2>2. ASSUME NEW h \in Hubs, NEW ts \in SUBSET Targets, NEW layout \in Layout,
               StartCompositeHub(h, ts, layout)
        PROVE  HubIInv'
    <3> DEFINE sends == IF layout.regions = <<>> THEN "preset" ELSE "regions"
               fits == Fits(layout)
    <3>1. PICK f \in Processes : Free(f) /\ Spawns(h, [g \in {f} |-> ts], sends, fits)
      BY <2>2 DEF StartCompositeHub
    <3> DEFINE started == [g \in {f} |-> ts]
    <3>2. /\ DOMAIN started \subseteq {g \in Processes : Free(g)}
          /\ \A g \in DOMAIN started : started[g] \in SUBSET Targets
          /\ \A g, o \in DOMAIN started : g # o => started[g] \cap started[o] = {}
      BY <3>1
    <3>3. Spawns(h, started, sends, fits) /\ HubRequest
      BY <2>2, <3>1 DEF StartCompositeHub
    <3>4. sends \in {"copy", "preset", "regions"} /\ (sends # "regions" => fits)
      BY PresetsFit
    <3>5. fits \in BOOLEAN
      BY DEF Fits
    <3> HIDE DEF started, sends, fits
    <3> QED  BY <3>2, <3>3, <3>4, <3>5, SpawnsStep
  <2>3. ASSUME NEW h \in Hubs, StopHub(h)  PROVE HubIInv'
    BY <2>3, StopHubStep
  <2>4. ASSUME NEW f \in Processes, ExitsBySignal(f) \/ SpawnFails(f)  PROVE HubIInv'
    BY <2>4, DiesStep DEF ExitsBySignal, SpawnFails
  <2>5. ASSUME NEW f \in Processes, Exits(f)  PROVE HubIInv'
    <3>1. CASE process[f].sends = "copy" /\ process[f].hub \in active
      <4>1. PICK g \in Processes : Free(g) /\ Respawns(f, g)
        BY <2>5, <3>1 DEF Exits
      <4> QED  BY <2>5, <3>1, <4>1, RespawnsStep DEF Exits
    <3>2. CASE ~(process[f].sends = "copy" /\ process[f].hub \in active)
      BY <2>5, <3>2, DiesStep DEF Exits
    <3> QED  BY <3>1, <3>2
  <2>6. CASE UNCHANGED hubVars
    BY <2>6 DEF hubVars, HubIInv, HubTypeOK, SendersAreHeld, HeldByOwnHub, Live
  <2>7. CASE HubNext
    BY <2>1, <2>2, <2>3, <2>4, <2>5, <2>7 DEF HubNext
  <2> QED  BY <2>6, <2>7
<1> QED  BY <1>1, <1>2, PTL DEF HubSpec

\* The types of the hubs and processes; what has no hub holds nothing.
THEOREM HubTyped == HubSpec => []HubTypeOK
<1>1. HubIInv => HubTypeOK
  BY DEF HubIInv
<1> QED  BY <1>1, HubInvariance, PTL

\* What sends is held by its hub or told to end, and sends where no other of its hub does but
\* what has come back; a preset is given the sources it composes.
THEOREM SendersHeld == HubSpec => []SendersAreHeld
<1>1. HubIInv => SendersAreHeld
  BY DEF HubIInv
<1> QED  BY <1>1, HubInvariance, PTL

-----------------------------------------------------------------------------
(***************************************************************************)
(* OBS connections that are up.                                            *)
(*                                                                         *)
(* The wire to an instance that hears OBS ends, for every source it        *)
(* informs of, with what OBS shows of it; so when it informs of it no      *)
(* more, what the instance holds of that source is what OBS shows, unless  *)
(* that was passed over.  The bootstrap is over with all its answers, as   *)
(* it asks every field once.                                               *)
(***************************************************************************)
Message == [kind : {"event", "answer", "list"}, of : Sources, value : Value]

\* A message that says what OBS shows of s, and one that answers the question for f.
Informs(m, s) ==
  m.of = s /\ (m.kind = "event" \/ (m.kind = "answer" /\ m.value # Unknown))
Replies(m, f) == m.kind = "answer" /\ FieldOf(m.of) = f

\* Nothing on the wire informs of s; the last that does brings v; f is answered at most once.
Silent(w, s) == \A n \in 1 .. Len(w) : ~Informs(w[n], s)
EndsIn(w, s, v) ==
  \A n \in 1 .. Len(w) :
    Informs(w[n], s) /\ (\A k \in n + 1 .. Len(w) : ~Informs(w[k], s)) => w[n].value = v
Replied(w, f) == \E n \in 1 .. Len(w) : Replies(w[n], f)
Once(w, f) == \A n, k \in 1 .. Len(w) : Replies(w[n], f) /\ Replies(w[k], f) => n = k

\* The bootstrap asks for every field once, for the audio after the others, and hears of no
\* list; later only the list of scenes is asked.
AsksOnce(o) ==
  /\ \A n \in 1 .. Len(o.wire) : o.wire[n].kind # "list"
  /\ \A f \in Fields :
       /\ Once(o.wire, f)
       /\ f \in o.asked => ~Replied(o.wire, f)
       /\ f \in o.asked \/ Replied(o.wire, f) => o.answers[f] = NoObject
  /\ "audio" \in o.asked \/ Replied(o.wire, "audio") \/ o.answers["audio"] # NoObject =>
       \A f \in Fields \ {"audio"} : o.answers[f] # NoObject

AsksList(o) == o.asked \subseteq {"scene"} /\ \A f \in Fields \ {"scene"} : ~Replied(o.wire, f)

\* What is held of a field, which is a reading of a source of that field unless it is late.
Mirrored(o, f) == IF o.phase = "running" THEN o.lastState[f] ELSE o.answers[f]

Known(o) ==
  \A f \in Fields \ o.late : Mirrored(o, f) \in Reading /\ FieldOf(Mirrored(o, f).of) = f

\* What is on its way ends with what OBS shows of s, and when nothing is, what is held is that.
Follows(o, s, v) ==
  /\ EndsIn(o.wire, s, v)
  /\ Silent(o.wire, s) /\ FieldOf(s) \notin o.late /\ Mirrored(o, FieldOf(s)).of = s =>
       Mirrored(o, FieldOf(s)).value = v

\* An instance that hears OBS; and any, that is in the store or is not.
Hears(o, values) ==
  /\ o.phase = "bootstrap" => AsksOnce(o)
  /\ o.phase = "running" => AsksList(o) /\ o.stats /\ o.screenshot # "off"
  /\ Known(o)
  /\ \A s \in Sources : Follows(o, s, values[s])

Sound(o, isStored, values) ==
  /\ o.wire # <<>> \/ o.asked # {} => isStored /\ o.isConnected
  /\ o.torn = "no" <=> isStored
  /\ o.torn = "quiet" => o.phase = "running" /\ ~o.stats /\ o.screenshot = "off"
  /\ isStored /\ o.isConnected => Hears(o, values)

RuntimeStateTyped ==
  /\ changes \in 0 .. MaxChanges /\ shows \in [Sources -> 0 .. MaxChanges]
  /\ stored \in Objects \cup {NoObject}
  /\ instance \in [Objects -> Instance \cup {Unused}]
  /\ rejected \in 0 .. MaxRejected

RuntimeIInv ==
  /\ RuntimeStateTyped
  /\ stored # NoObject => Used(stored)
  /\ \A i \in Objects : Used(i) => Sound(instance[i], i = stored, shows)

LEMMA UnusedIsNoInstance == Unused \notin Instance
  BY DEF Unused, Instance

LEMMA InstanceFields ==
  ASSUME NEW o \in Instance
  PROVE  /\ o.phase \in {"bootstrap", "running"} /\ o.isConnected \in BOOLEAN
         /\ o.asked \in SUBSET Fields /\ o.wire \in Seq(Message)
         /\ o.answers \in [Fields -> Reading \cup {NoObject}]
         /\ o.lastState \in [Fields -> Reading \cup {NoObject}]
         /\ o.late \in SUBSET Fields /\ o.screenshot \in {"off", "armed", "polling"}
         /\ o.stats \in BOOLEAN /\ o.torn \in {"no", "quiet", "busy"} /\ o # Unused
  BY DEF Instance, Message, Unused

LEMMA Values ==
  /\ MaxChanges \in Nat /\ Unknown \in Value /\ NoObject \notin Reading
  /\ \A v \in 0 .. MaxChanges : v \in Value /\ v # Unknown
  BY RuntimeAssumption DEF Unknown, Value

LEMMA MessageFields ==
  ASSUME NEW m \in Message
  PROVE  /\ m.kind \in {"event", "answer", "list"} /\ m.of \in Sources /\ m.value \in Value
         /\ FieldOf(m.of) \in Fields
  BY DEF Message, FieldOf, Sources, Fields

\* The audio has the master inputs for sources, and every other field itself.
LEMMA SourceFields ==
  /\ \A s \in Sources : FieldOf(s) \in Fields /\ (s \in MasterInputs <=> FieldOf(s) = "audio")
  /\ \A f \in Fields : Asked(f) \in Sources /\ FieldOf(Asked(f)) = f
  /\ \A s \in Sources : FieldOf(s) = "scene" <=> s = "scene"
  /\ \A s \in MasterInputs : s \in Sources
  /\ "scene" \in Sources /\ "output" \in Sources /\ "scene" \in Fields /\ "audio" \in Fields
  BY RuntimeAssumption DEF Sources, Fields, FieldOf, Asked

\* A message more on the wire: what it informs of ends with it.
LEMMA AppendEffect ==
  ASSUME NEW w \in Seq(Message), NEW m \in Message
  PROVE  /\ Append(w, m) \in Seq(Message)
         /\ \A s, v : Informs(m, s) /\ m.value = v => EndsIn(Append(w, m), s, v)
         /\ \A s : Informs(m, s) => ~Silent(Append(w, m), s)
         /\ \A s, v : ~Informs(m, s) /\ EndsIn(w, s, v) => EndsIn(Append(w, m), s, v)
         /\ \A s : Silent(Append(w, m), s) => Silent(w, s)
         /\ \A f : Replied(Append(w, m), f) => Replied(w, f) \/ Replies(m, f)
         /\ \A f : Once(w, f) /\ (Replies(m, f) => ~Replied(w, f)) => Once(Append(w, m), f)
<1> DEFINE x == Append(w, m)
<1>1. /\ x \in Seq(Message) /\ Len(x) = Len(w) + 1 /\ Len(w) \in Nat
      /\ x[Len(w) + 1] = m /\ \A n \in 1 .. Len(w) : x[n] = w[n]
  OBVIOUS
<1> HIDE DEF x
<1>2. 1 .. Len(x) = 1 .. Len(w) \cup {Len(w) + 1} /\ Len(w) + 1 \notin 1 .. Len(w)
  BY <1>1
<1>3. \A s : Informs(m, s) => ~Silent(x, s)
  BY <1>1, <1>2 DEF Silent
<1>4. ASSUME NEW s, NEW v, Informs(m, s), m.value = v  PROVE EndsIn(x, s, v)
  <2> SUFFICES ASSUME NEW n \in 1 .. Len(x), \A k \in n + 1 .. Len(x) : ~Informs(x[k], s)
               PROVE  x[n].value = v
    BY DEF EndsIn
  <2>1. CASE n = Len(w) + 1
    BY <1>1, <1>4, <2>1
  <2>2. CASE n \in 1 .. Len(w)
    <3>1. Len(w) + 1 \in n + 1 .. Len(x)
      BY <1>1, <2>2
    <3> QED  BY <1>1, <1>4, <3>1
  <2> QED  BY <1>2, <2>1, <2>2
<1>5. ASSUME NEW s, NEW v, ~Informs(m, s), EndsIn(w, s, v)  PROVE EndsIn(x, s, v)
  <2> SUFFICES ASSUME NEW n \in 1 .. Len(x), Informs(x[n], s),
                      \A k \in n + 1 .. Len(x) : ~Informs(x[k], s)
               PROVE  x[n].value = v
    BY DEF EndsIn
  <2>1. n \in 1 .. Len(w)
    BY <1>1, <1>2, <1>5
  <2>2. \A k \in n + 1 .. Len(w) : k \in n + 1 .. Len(x) /\ x[k] = w[k]
    BY <1>1, <2>1
  <2>3. \A k \in n + 1 .. Len(w) : ~Informs(w[k], s)
    BY <2>2
  <2> QED  BY <1>1, <1>5, <2>1, <2>3 DEF EndsIn
<1>6. \A s : Silent(x, s) => Silent(w, s)
  BY <1>1, <1>2 DEF Silent
<1>7. \A f : Replied(x, f) => Replied(w, f) \/ Replies(m, f)
  BY <1>1, <1>2 DEF Replied
<1>8. ASSUME NEW f, Once(w, f), Replies(m, f) => ~Replied(w, f)  PROVE Once(x, f)
  <2> SUFFICES ASSUME NEW n \in 1 .. Len(x), NEW k \in 1 .. Len(x),
                      Replies(x[n], f), Replies(x[k], f)
               PROVE  n = k
    BY DEF Once
  <2>1. /\ n = Len(w) + 1 \/ (n \in 1 .. Len(w) /\ x[n] = w[n])
        /\ k = Len(w) + 1 \/ (k \in 1 .. Len(w) /\ x[k] = w[k])
    BY <1>1, <1>2
  <2>2. CASE n = Len(w) + 1 /\ k = Len(w) + 1
    BY <2>2
  <2>3. CASE n = Len(w) + 1 /\ k \in 1 .. Len(w) /\ x[k] = w[k]
    BY <1>1, <1>2, <1>8, <2>3 DEF Replied
  <2>4. CASE k = Len(w) + 1 /\ n \in 1 .. Len(w) /\ x[n] = w[n]
    BY <1>1, <1>2, <1>8, <2>4 DEF Replied
  <2>5. CASE n \in 1 .. Len(w) /\ x[n] = w[n] /\ k \in 1 .. Len(w) /\ x[k] = w[k]
    BY <1>8, <2>5 DEF Once
  <2> QED  BY <2>1, <2>2, <2>3, <2>4, <2>5
<1> QED  BY <1>1, <1>3, <1>4, <1>5, <1>6, <1>7, <1>8 DEF x

\* The first message is handled: what is last stays last, unless there is no other.
LEMMA TailEffect ==
  ASSUME NEW w \in Seq(Message), w # <<>>
  PROVE  /\ Head(w) \in Message /\ Tail(w) \in Seq(Message)
         /\ \A s, v : EndsIn(w, s, v) => EndsIn(Tail(w), s, v)
         /\ \A s, v : EndsIn(w, s, v) /\ Informs(Head(w), s) /\ Silent(Tail(w), s) =>
                      Head(w).value = v
         /\ \A s : ~Informs(Head(w), s) /\ Silent(Tail(w), s) => Silent(w, s)
         /\ \A f : Replied(Tail(w), f) => Replied(w, f)
         /\ \A f : Replies(Head(w), f) => Replied(w, f)
         /\ \A f : Once(w, f) => Once(Tail(w), f) /\ (Replies(Head(w), f) => ~Replied(Tail(w), f))
         /\ \A n \in 1 .. Len(Tail(w)) : n + 1 \in 1 .. Len(w) /\ Tail(w)[n] = w[n + 1]
<1> DEFINE x == Tail(w)
<1>1. /\ x \in Seq(Message) /\ Len(w) = Len(x) + 1 /\ Len(x) \in Nat
      /\ Head(w) = w[1] /\ Head(w) \in Message /\ \A n \in 1 .. Len(x) : x[n] = w[n + 1]
  OBVIOUS
<1> HIDE DEF x
<1>2. /\ 1 \in 1 .. Len(w)
      /\ \A n \in 1 .. Len(x) : n + 1 \in 1 .. Len(w)
      /\ \A k \in 2 .. Len(w) : k - 1 \in 1 .. Len(x) /\ w[k] = x[k - 1]
  BY <1>1
<1>3. ASSUME NEW s, NEW v, EndsIn(w, s, v)  PROVE EndsIn(x, s, v)
  <2> SUFFICES ASSUME NEW n \in 1 .. Len(x), Informs(x[n], s),
                      \A k \in n + 1 .. Len(x) : ~Informs(x[k], s)
               PROVE  x[n].value = v
    BY DEF EndsIn
  <2>1. \A k \in n + 2 .. Len(w) : k - 1 \in n + 1 .. Len(x) /\ w[k] = x[k - 1]
    BY <1>1, <1>2
  <2>2. \A k \in (n + 1) + 1 .. Len(w) : ~Informs(w[k], s)
    BY <2>1
  <2> QED  BY <1>1, <1>2, <1>3, <2>2 DEF EndsIn
<1>4. ASSUME NEW s, NEW v, EndsIn(w, s, v), Informs(w[1], s), Silent(x, s)  PROVE w[1].value = v
  <2>1. \A k \in 1 + 1 .. Len(w) : ~Informs(w[k], s)
    BY <1>2, <1>4 DEF Silent
  <2> QED  BY <1>2, <1>4, <2>1 DEF EndsIn
<1>5. ASSUME NEW s, ~Informs(w[1], s), Silent(x, s)  PROVE Silent(w, s)
  <2>1. \A k \in 1 .. Len(w) : k = 1 \/ k \in 2 .. Len(w)
    BY <1>1
  <2> QED  BY <1>2, <1>5, <2>1 DEF Silent
<1>6. \A f : Replied(x, f) => Replied(w, f)
  BY <1>1, <1>2 DEF Replied
<1>7. \A f : Replies(w[1], f) => Replied(w, f)
  BY <1>2 DEF Replied
<1>8. ASSUME NEW f, Once(w, f)  PROVE Once(x, f) /\ (Replies(w[1], f) => ~Replied(x, f))
  <2>1. Once(x, f)
    <3> SUFFICES ASSUME NEW n \in 1 .. Len(x), NEW k \in 1 .. Len(x),
                        Replies(x[n], f), Replies(x[k], f)
                 PROVE  n = k
      BY DEF Once
    <3>1. /\ n + 1 \in 1 .. Len(w) /\ Replies(w[n + 1], f)
          /\ k + 1 \in 1 .. Len(w) /\ Replies(w[k + 1], f)
      BY <1>1, <1>2
    <3>2. n + 1 = k + 1
      BY <1>8, <3>1 DEF Once
    <3> QED  BY <3>2
  <2>2. Replies(w[1], f) => ~Replied(x, f)
    <3> SUFFICES ASSUME Replies(w[1], f), NEW n \in 1 .. Len(x), Replies(x[n], f)  PROVE FALSE
      BY DEF Replied
    <3>1. n + 1 = 1
      BY <1>1, <1>2, <1>8 DEF Once
    <3> QED  BY <3>1
  <2> QED  BY <2>1, <2>2
<1> QED  BY <1>1, <1>2, <1>3, <1>4, <1>5, <1>6, <1>7, <1>8 DEF x

\* A step that changes one instance, and of OBS nothing.
LEMMA OneInstance ==
  ASSUME RuntimeIInv, NEW i \in Objects, NEW new \in Instance,
         Used(i), instance' = [instance EXCEPT ![i] = new],
         UNCHANGED <<changes, shows, stored>>, rejected' \in 0 .. MaxRejected,
         Sound(new, i = stored, shows)
  PROVE  RuntimeIInv'
<1>1. RuntimeStateTyped
  BY DEF RuntimeIInv
<1>2. /\ instance' \in [Objects -> Instance \cup {Unused}]
      /\ instance'[i] = new /\ \A o \in Objects \ {i} : instance'[o] = instance[o]
  BY <1>1 DEF RuntimeStateTyped
<1>3. RuntimeStateTyped'
  BY <1>1, <1>2 DEF RuntimeStateTyped
<1>4. stored' # NoObject => Used(stored)'
  BY <1>1, <1>2, UnusedIsNoInstance DEF RuntimeIInv, RuntimeStateTyped, Used
<1>5. ASSUME NEW o \in Objects, Used(o)'  PROVE Sound(instance'[o], o = stored', shows')
  <2>1. CASE o = i
    BY <1>2, <2>1
  <2>2. CASE o # i
    <3>1. Used(o) /\ instance'[o] = instance[o]
      BY <1>2, <1>5, <2>2 DEF Used
    <3> QED  BY <3>1 DEF RuntimeIInv
  <2> QED  BY <2>1, <2>2
<1> QED  BY <1>3, <1>4, <1>5 DEF RuntimeIInv

\* What an instance is like that is up, and what one that is not.
LEMMA UpIs ==
  ASSUME RuntimeIInv, NEW i \in Objects
  PROVE  /\ Used(i) => instance[i] \in Instance /\ Sound(instance[i], i = stored, shows)
         /\ Up(i) => Used(i) /\ i = stored /\ instance[i].isConnected /\ Hears(instance[i], shows)
         /\ Used(i) /\ ~Up(i) => instance[i].wire = <<>> /\ instance[i].asked = {}
         /\ Used(i) /\ ~Up(i) => ~(i = stored /\ instance[i].isConnected)
<1>1. RuntimeStateTyped /\ NoObject \notin Objects
  BY RuntimeAssumption DEF RuntimeIInv
<1>2. Used(i) => instance[i] \in Instance /\ Sound(instance[i], i = stored, shows)
  BY <1>1 DEF RuntimeIInv, RuntimeStateTyped, Used
<1>3. ASSUME Up(i)
      PROVE  Used(i) /\ i = stored /\ instance[i].isConnected /\ Hears(instance[i], shows)
  <2>1. i = stored /\ i # NoObject /\ instance[i].isConnected /\ Used(i)
    BY <1>3 DEF Up, RuntimeIInv
  <2> QED  BY <1>2, <2>1 DEF Sound
<1>4. ASSUME Used(i), ~Up(i)
      PROVE  /\ ~(i = stored /\ instance[i].isConnected)
             /\ instance[i].wire = <<>> /\ instance[i].asked = {}
  <2>1. ~(i = stored /\ instance[i].isConnected)
    BY <1>1, <1>4 DEF Up
  <2> QED  BY <1>2, <1>4, <2>1 DEF Sound
<1> QED  BY <1>2, <1>3, <1>4

LEMMA TeardownEffect ==
  ASSUME NEW o \in Instance, NEW isStored, NEW values, Sound(o, isStored, values)
  PROVE  TeardownInstance(o) \in Instance /\ Sound(TeardownInstance(o), FALSE, values)
<1> DEFINE shot == IF o.screenshot = "armed" THEN "off" ELSE o.screenshot
           torn == IF o.phase = "bootstrap" \/ o.screenshot = "polling" THEN "busy" ELSE "quiet"
           new == [NewInstance EXCEPT !.asked = {}, !.phase = o.phase,
                     !.isConnected = o.isConnected, !.screenshot = shot, !.torn = torn]
<1>1. TeardownInstance(o) = new
  BY DEF TeardownInstance
<1>2. /\ o.phase \in {"bootstrap", "running"} /\ o.isConnected \in BOOLEAN
      /\ shot \in {"off", "armed", "polling"} /\ torn \in {"quiet", "busy"}
      /\ torn = "quiet" => o.phase = "running" /\ shot = "off"
  BY InstanceFields
<1> HIDE DEF shot, torn
<1>3. NewInstance \in Instance
  BY Values DEF NewInstance, Instance
<1>4. new \in Instance
  BY <1>2, <1>3 DEF Instance
<1>5. /\ new.wire = <<>> /\ new.asked = {} /\ new.torn = torn /\ new.phase = o.phase
      /\ new.stats = FALSE /\ new.screenshot = shot
  BY DEF NewInstance
<1> HIDE DEF new
<1> QED  BY <1>1, <1>2, <1>4, <1>5 DEF Sound

LEMMA NewEffect ==
  ASSUME NEW values
  PROVE  NewInstance \in Instance /\ Sound(NewInstance, TRUE, values)
<1> DEFINE new == NewInstance
<1>1. new \in Instance
  BY Values DEF Instance, NewInstance
<1>2. /\ new.phase = "bootstrap" /\ new.isConnected = TRUE /\ new.asked = {"scene", "output"}
      /\ new.wire = <<>> /\ new.late = Fields /\ new.torn = "no"
      /\ \A f \in Fields : new.answers[f] = NoObject
  BY DEF NewInstance, Fields
<1> HIDE DEF new
<1>3. AsksOnce(new)
  <2>1. Len(new.wire) = 0 /\ \A f \in Fields : ~Replied(new.wire, f) /\ Once(new.wire, f)
    BY <1>2 DEF Replied, Once
  <2>2. "audio" \in Fields /\ "audio" \notin new.asked
    BY <1>2 DEF Fields
  <2> QED  BY <1>2, <2>1, <2>2 DEF AsksOnce
<1>4. Known(new) /\ \A s \in Sources : Follows(new, s, values[s])
  BY <1>2, SourceFields DEF Known, Follows, EndsIn
<1>5. Hears(new, values)
  BY <1>2, <1>3, <1>4 DEF Hears
<1> QED  BY <1>1, <1>2, <1>5 DEF Sound, new

\* One message more, or the first one handled: what is mirrored follows.
LEMMA AppendFollows ==
  ASSUME NEW o \in Instance, NEW m \in Message, NEW s, NEW v, NEW new,
         new.wire = Append(o.wire, m), new.late = o.late,
         Mirrored(new, FieldOf(s)) = Mirrored(o, FieldOf(s)),
         \/ Informs(m, s) /\ m.value = v
         \/ ~Informs(m, s) /\ Follows(o, s, v)
  PROVE  Follows(new, s, v)
<1>1. o.wire \in Seq(Message)
  BY InstanceFields
<1>2. CASE Informs(m, s) /\ m.value = v
  BY <1>1, <1>2, AppendEffect DEF Follows
<1>3. CASE ~Informs(m, s) /\ Follows(o, s, v)
  BY <1>1, <1>3, AppendEffect DEF Follows
<1> QED  BY <1>2, <1>3

LEMMA TailFollows ==
  ASSUME NEW o \in Instance, o.wire # <<>>, NEW s, NEW v, Follows(o, s, v), NEW new,
         new.wire = Tail(o.wire),
         \/ FieldOf(s) \in new.late \/ Mirrored(new, FieldOf(s)).of # s
         \/ Informs(Head(o.wire), s) /\ Mirrored(new, FieldOf(s)).value = Head(o.wire).value
         \/ /\ ~Informs(Head(o.wire), s)
            /\ FieldOf(s) \notin new.late =>
                 FieldOf(s) \notin o.late /\ Mirrored(new, FieldOf(s)) = Mirrored(o, FieldOf(s))
  PROVE  Follows(new, s, v)
<1> DEFINE held == Mirrored(new, FieldOf(s))
<1>1. o.wire \in Seq(Message)
  BY InstanceFields
<1>2. EndsIn(new.wire, s, v)
  BY <1>1, TailEffect DEF Follows
<1>3. ASSUME Silent(new.wire, s), FieldOf(s) \notin new.late, held.of = s  PROVE held.value = v
  <2>1. CASE Informs(Head(o.wire), s) /\ held.value = Head(o.wire).value
    BY <1>1, <1>3, <2>1, TailEffect DEF Follows
  <2>2. CASE /\ ~Informs(Head(o.wire), s)
             /\ FieldOf(s) \notin o.late /\ held = Mirrored(o, FieldOf(s))
    <3>1. Silent(o.wire, s)
      BY <1>1, <1>3, <2>2, TailEffect
    <3> QED  BY <1>3, <2>2, <3>1 DEF Follows
  <2> QED  BY <1>3, <2>1, <2>2
<1> QED  BY <1>2, <1>3 DEF Follows

LEMMA TailAsks ==
  ASSUME NEW o \in Instance, o.wire # <<>>, NEW new, new.wire = Tail(o.wire),
         new.asked = o.asked, new.answers = o.answers
  PROVE  (AsksOnce(o) => AsksOnce(new)) /\ (AsksList(o) => AsksList(new))
<1>1. o.wire \in Seq(Message)
  BY InstanceFields
<1>2. \A f \in Fields : /\ Replied(new.wire, f) => Replied(o.wire, f)
                        /\ Once(o.wire, f) => Once(new.wire, f)
  BY <1>1, TailEffect
<1>3. \A n \in 1 .. Len(new.wire) : n + 1 \in 1 .. Len(o.wire) /\ new.wire[n] = o.wire[n + 1]
  BY <1>1, TailEffect
<1>4. AsksList(o) => AsksList(new)
  BY <1>2 DEF AsksList
<1>5. ASSUME AsksOnce(o)  PROVE AsksOnce(new)
  <2>1. \A n \in 1 .. Len(new.wire) : new.wire[n].kind # "list"
    BY <1>3, <1>5 DEF AsksOnce
  <2>2. "audio" \in Fields
    BY DEF Fields
  <2> QED  BY <1>2, <1>5, <2>1, <2>2 DEF AsksOnce
<1> QED  BY <1>4, <1>5

\* An event is handled.
LEMMA EventHandled ==
  ASSUME NEW o \in Instance, NEW values \in [Sources -> 0 .. MaxChanges],
         Sound(o, TRUE, values), o.isConnected, o.wire # <<>>, Head(o.wire).kind = "event"
  PROVE  LET m == Head(o.wire)
             new == EventArrives([o EXCEPT !.wire = Tail(@)], m.of, m.value)
         IN new \in Instance /\ Sound(new, TRUE, values)
<1> DEFINE m == Head(o.wire)
           f == FieldOf(m.of)
           reading == [of |-> m.of, value |-> m.value]
           rest == [o EXCEPT !.wire = Tail(@)]
           new == EventArrives(rest, m.of, m.value)
<1>1. /\ o.wire \in Seq(Message) /\ o.late \in SUBSET Fields
      /\ o.lastState \in [Fields -> Reading \cup {NoObject}]
      /\ o.phase \in {"bootstrap", "running"}
  BY InstanceFields
<1>2. /\ m \in Message /\ Tail(o.wire) \in Seq(Message)
      /\ m.of \in Sources /\ m.value \in Value /\ m.kind = "event" /\ f \in Fields
  <2>1. m \in Message /\ Tail(o.wire) \in Seq(Message)
    BY <1>1
  <2> QED  BY <2>1, MessageFields
<1>3. /\ \A s \in Sources : Informs(m, s) <=> s = m.of
      /\ reading \in Reading /\ reading.of = m.of /\ reading.value = m.value
  BY <1>2 DEF Informs, Reading
<1> HIDE DEF m, reading, f
<1>4. /\ rest \in Instance /\ rest.wire = Tail(o.wire) /\ rest.phase = o.phase
      /\ rest.lastState = o.lastState /\ rest.late = o.late
      /\ rest.isConnected = o.isConnected /\ rest.asked = o.asked /\ rest.answers = o.answers
      /\ rest.screenshot = o.screenshot /\ rest.stats = o.stats /\ rest.torn = o.torn
  BY <1>2 DEF Instance, Message
<1> HIDE DEF rest
<1>5. /\ new \in Instance /\ new.phase = o.phase /\ new.isConnected = o.isConnected
      /\ new.asked = o.asked /\ new.wire = Tail(o.wire) /\ new.answers = o.answers
      /\ new.screenshot = o.screenshot /\ new.stats = o.stats /\ new.torn = o.torn
      /\ o.phase = "running" => /\ new.late = o.late \ {f}
                                /\ new.lastState = [o.lastState EXCEPT ![f] = reading]
      /\ o.phase = "bootstrap" => new.late = o.late \cup {f}
  <2>1. CASE o.phase = "running"
    <3> DEFINE lastState == [o.lastState EXCEPT ![f] = reading]
               late == o.late \ {f}
    <3>1. new = [rest EXCEPT !.lastState = lastState, !.late = late]
      BY <1>4, <2>1 DEF EventArrives, f, reading
    <3>2. lastState \in [Fields -> Reading \cup {NoObject}] /\ late \in SUBSET Fields
      BY <1>1, <1>2, <1>3
    <3> HIDE DEF lastState, late
    <3>3. /\ new \in Instance /\ new.phase = rest.phase /\ new.isConnected = rest.isConnected
          /\ new.asked = rest.asked /\ new.wire = rest.wire /\ new.answers = rest.answers
          /\ new.screenshot = rest.screenshot /\ new.stats = rest.stats /\ new.torn = rest.torn
          /\ new.late = late /\ new.lastState = lastState
      BY <1>4, <3>1, <3>2 DEF Instance
    <3> QED  BY <1>4, <2>1, <3>3 DEF lastState, late
  <2>2. CASE o.phase = "bootstrap"
    <3> DEFINE late == o.late \cup {f}
    <3>1. new = [rest EXCEPT !.late = late]
      BY <1>4, <2>2 DEF EventArrives, f
    <3>2. late \in SUBSET Fields
      BY <1>1, <1>2
    <3> HIDE DEF late
    <3>3. /\ new \in Instance /\ new.phase = rest.phase /\ new.isConnected = rest.isConnected
          /\ new.asked = rest.asked /\ new.wire = rest.wire /\ new.answers = rest.answers
          /\ new.screenshot = rest.screenshot /\ new.stats = rest.stats /\ new.torn = rest.torn
          /\ new.late = late
      BY <1>4, <3>1, <3>2 DEF Instance
    <3> QED  BY <1>4, <2>2, <3>3 DEF late
  <2> QED  BY <1>1, <2>1, <2>2
<1> HIDE DEF new
<1>6. Hears(o, values)
  BY DEF Sound
<1>7. Known(new)
  <2> SUFFICES ASSUME NEW h \in Fields \ new.late
               PROVE  Mirrored(new, h) \in Reading /\ FieldOf(Mirrored(new, h).of) = h
    BY DEF Known
  <2>1. CASE h = f
    <3>1. o.phase = "running"
      BY <1>1, <1>5, <2>1
    <3>2. Mirrored(new, h) = reading
      BY <1>1, <1>2, <1>5, <2>1, <3>1 DEF Mirrored
    <3> QED  BY <1>3, <2>1, <3>2 DEF f
  <2>2. CASE h # f
    <3>1. h \notin o.late /\ Mirrored(new, h) = Mirrored(o, h)
      BY <1>1, <1>2, <1>5, <2>2 DEF Mirrored
    <3> QED  BY <1>6, <3>1 DEF Hears, Known
  <2> QED  BY <2>1, <2>2
<1>8. \A s \in Sources : Follows(new, s, values[s])
  <2> SUFFICES ASSUME NEW s \in Sources  PROVE Follows(new, s, values[s])
    OBVIOUS
  <2>1. Follows(o, s, values[s]) /\ FieldOf(s) \in Fields
    BY <1>6, SourceFields DEF Hears
  <2>2. CASE o.phase = "bootstrap"
    <3>1. CASE FieldOf(s) = f
      <4>1. FieldOf(s) \in new.late
        BY <1>5, <2>2, <3>1
      <4> QED  BY <1>5, <2>1, <4>1, TailFollows
    <3>2. CASE FieldOf(s) # f
      <4>1. /\ FieldOf(s) \in new.late <=> FieldOf(s) \in o.late
            /\ Mirrored(new, FieldOf(s)) = Mirrored(o, FieldOf(s))
        BY <1>5, <2>2, <3>2 DEF Mirrored
      <4>2. ~Informs(m, s)
        BY <1>3, <3>2 DEF f
      <4> QED  BY <1>5, <2>1, <4>1, <4>2, TailFollows DEF m
    <3> QED  BY <3>1, <3>2
  <2>3. CASE o.phase = "running"
    <3>1. CASE FieldOf(s) = f
      <4>1. Mirrored(new, FieldOf(s)) = reading
        BY <1>1, <1>2, <1>5, <2>3, <3>1 DEF Mirrored
      <4>2. CASE s = m.of
        <5>1. Informs(m, s) /\ Mirrored(new, FieldOf(s)).value = m.value
          BY <1>3, <4>1, <4>2
        <5> QED  BY <1>5, <2>1, <5>1, TailFollows DEF m
      <4>3. CASE s # m.of
        <5>1. Mirrored(new, FieldOf(s)).of # s
          BY <1>3, <4>1, <4>3
        <5> QED  BY <1>5, <2>1, <5>1, TailFollows
      <4> QED  BY <4>2, <4>3
    <3>2. CASE FieldOf(s) # f
      <4>1. /\ FieldOf(s) \in new.late <=> FieldOf(s) \in o.late
            /\ Mirrored(new, FieldOf(s)) = Mirrored(o, FieldOf(s))
        BY <1>1, <1>2, <1>5, <2>1, <2>3, <3>2 DEF Mirrored
      <4>2. ~Informs(m, s)
        BY <1>3, <3>2 DEF f
      <4> QED  BY <1>5, <2>1, <4>1, <4>2, TailFollows DEF m
    <3> QED  BY <3>1, <3>2
  <2> QED  BY <1>1, <2>2, <2>3
<1>9. (AsksOnce(o) => AsksOnce(new)) /\ (AsksList(o) => AsksList(new))
  BY <1>5, TailAsks
<1>10. Hears(new, values)
  BY <1>5, <1>6, <1>7, <1>8, <1>9 DEF Hears
<1>11. Sound(new, TRUE, values)
  BY <1>5, <1>10 DEF Sound
<1> QED  BY <1>5, <1>11 DEF new, rest, m

\* The list of scenes is asked again.
LEMMA ListHandled ==
  ASSUME NEW o \in Instance, NEW values \in [Sources -> 0 .. MaxChanges],
         Sound(o, TRUE, values), o.isConnected, o.wire # <<>>, Head(o.wire).kind = "list"
  PROVE  LET rest == [o EXCEPT !.wire = Tail(@)]
             new == [rest EXCEPT !.asked = @ \cup {"scene"}]
         IN new \in Instance /\ Sound(new, TRUE, values)
<1> DEFINE m == Head(o.wire)
           rest == [o EXCEPT !.wire = Tail(@)]
           new == [rest EXCEPT !.asked = @ \cup {"scene"}]
<1>1. /\ o.wire \in Seq(Message) /\ o.asked \in SUBSET Fields
      /\ o.phase \in {"bootstrap", "running"}
  BY InstanceFields
<1>2. m \in Message /\ Tail(o.wire) \in Seq(Message) /\ m = o.wire[1] /\ 1 \in 1 .. Len(o.wire)
  BY <1>1
<1>3. \A s \in Sources : ~Informs(m, s)
  BY DEF Informs
<1>4. o.asked \cup {"scene"} \in SUBSET Fields
  BY <1>1 DEF Fields
<1>5. /\ new \in Instance /\ new.phase = o.phase /\ new.isConnected = o.isConnected
      /\ new.asked = o.asked \cup {"scene"} /\ new.wire = Tail(o.wire)
      /\ new.answers = o.answers /\ new.lastState = o.lastState /\ new.late = o.late
      /\ new.screenshot = o.screenshot /\ new.stats = o.stats /\ new.torn = o.torn
  BY <1>2, <1>4 DEF Instance, Message
<1> HIDE DEF new
<1>6. Hears(o, values)
  BY DEF Sound
<1>7. o.phase = "running"
  BY <1>1, <1>2, <1>6 DEF Hears, AsksOnce
<1>8. /\ Known(new)
      /\ \A s \in Sources : Follows(new, s, values[s])
  <2>1. \A f \in Fields : Mirrored(new, f) = Mirrored(o, f)
    BY <1>5 DEF Mirrored
  <2>2. Known(new)
    BY <1>5, <1>6, <2>1 DEF Hears, Known
  <2>3. ASSUME NEW s \in Sources  PROVE Follows(new, s, values[s])
    <3>1. Follows(o, s, values[s]) /\ Mirrored(new, FieldOf(s)) = Mirrored(o, FieldOf(s))
      BY <1>6, <2>1, SourceFields DEF Hears
    <3> QED  BY <1>3, <1>5, <3>1, TailFollows
  <2> QED  BY <2>2, <2>3
<1>9. AsksList(new)
  <2>1. AsksList(o)
    BY <1>6, <1>7 DEF Hears
  <2>2. \A f \in Fields : Replied(new.wire, f) => Replied(o.wire, f)
    BY <1>1, <1>5, TailEffect
  <2> QED  BY <1>5, <2>1, <2>2 DEF AsksList
<1>10. Hears(new, values)
  BY <1>5, <1>6, <1>7, <1>8, <1>9 DEF Hears
<1>11. Sound(new, TRUE, values)
  BY <1>5, <1>10 DEF Sound
<1> QED  BY <1>5, <1>11 DEF new

\* An answer of the bootstrap is handled; the audio is asked after the last of the others.
LEMMA AnswerHandled ==
  ASSUME NEW o \in Instance, NEW values \in [Sources -> 0 .. MaxChanges],
         Sound(o, TRUE, values), o.isConnected, o.wire # <<>>, Head(o.wire).kind = "answer",
         o.phase = "bootstrap"
  PROVE  LET m == Head(o.wire)
             new == AnswerArrives([o EXCEPT !.wire = Tail(@)], m.of, m.value)
         IN new \in Instance /\ Sound(new, TRUE, values)
<1> DEFINE m == Head(o.wire)
           field == FieldOf(m.of)
           reading == [of |-> m.of, value |-> m.value]
           rest == [o EXCEPT !.wire = Tail(@)]
           answers == [o.answers EXCEPT ![field] = reading]
           last == m.of \notin MasterInputs /\ \A g \in Fields \ {"audio"} : answers[g] # NoObject
           late == IF m.value = Unknown THEN o.late ELSE o.late \ {field}
           unanswered == IF last THEN {"audio"} ELSE o.asked
           new == AnswerArrives(rest, m.of, m.value)
<1>1. /\ o.wire \in Seq(Message) /\ o.late \in SUBSET Fields /\ o.asked \in SUBSET Fields
      /\ o.answers \in [Fields -> Reading \cup {NoObject}]
  BY InstanceFields
<1>2. /\ m \in Message /\ Tail(o.wire) \in Seq(Message)
      /\ m.of \in Sources /\ m.value \in Value /\ m.kind = "answer" /\ field \in Fields
  <2>1. m \in Message /\ Tail(o.wire) \in Seq(Message)
    BY <1>1
  <2> QED  BY <2>1, MessageFields
<1>3. /\ \A s \in Sources : Informs(m, s) <=> s = m.of /\ m.value # Unknown
      /\ \A f \in Fields : Replies(m, f) <=> f = field
      /\ reading \in Reading /\ reading.of = m.of /\ reading.value = m.value
      /\ reading # NoObject /\ FieldOf(reading.of) = field
      /\ m.of \notin MasterInputs <=> field # "audio"
  BY <1>2, Values, SourceFields DEF Informs, Replies, Reading
<1> HIDE DEF m, reading, field
<1>4. /\ rest \in Instance /\ rest.wire = Tail(o.wire) /\ rest.phase = o.phase
      /\ rest.lastState = o.lastState /\ rest.late = o.late
      /\ rest.isConnected = o.isConnected /\ rest.asked = o.asked /\ rest.answers = o.answers
      /\ rest.screenshot = o.screenshot /\ rest.stats = o.stats /\ rest.torn = o.torn
  BY <1>2 DEF Instance, Message
<1>5. new = [rest EXCEPT !.answers = answers, !.late = late, !.asked = unanswered]
  <2> HIDE DEF rest
  <2> QED  BY <1>4 DEF AnswerArrives, field, reading
<1> HIDE DEF rest
<1>6. /\ answers \in [Fields -> Reading \cup {NoObject}] /\ late \in SUBSET Fields
      /\ unanswered \in SUBSET Fields
      /\ answers[field] = reading
      /\ \A f \in Fields \ {field} : answers[f] = o.answers[f]
  BY <1>1, <1>2, <1>3 DEF Fields
<1> HIDE DEF answers, new, late, unanswered
<1>7. /\ new \in Instance /\ new.phase = "bootstrap" /\ new.isConnected = o.isConnected
      /\ new.asked = unanswered /\ new.wire = Tail(o.wire) /\ new.answers = answers
      /\ new.screenshot = o.screenshot /\ new.stats = o.stats /\ new.torn = o.torn
      /\ new.late = late
  BY <1>4, <1>5, <1>6 DEF Instance
<1>8. Hears(o, values) /\ AsksOnce(o)
  BY DEF Sound, Hears
<1>9. o.answers[field] = NoObject /\ field \notin o.asked
  <2>1. Replied(o.wire, field)
    BY <1>1, <1>2, <1>3, TailEffect DEF m
  <2> QED  BY <1>2, <1>8, <2>1 DEF AsksOnce
\* What is not late is held, so that no second answer of it can come.
<1>10. field \in o.late
  BY <1>2, <1>8, <1>9, Values DEF Hears, Known, Mirrored
<1>11. Known(new)
  <2> SUFFICES ASSUME NEW h \in Fields \ new.late
               PROVE  Mirrored(new, h) \in Reading /\ FieldOf(Mirrored(new, h).of) = h
    BY DEF Known
  <2>1. CASE h = field
    BY <1>3, <1>6, <1>7, <2>1 DEF Mirrored
  <2>2. CASE h # field
    <3>1. h \notin o.late /\ Mirrored(new, h) = Mirrored(o, h)
      BY <1>6, <1>7, <2>2 DEF Mirrored, late
    <3> QED  BY <1>8, <3>1 DEF Hears, Known
  <2> QED  BY <2>1, <2>2
<1>12. \A s \in Sources : Follows(new, s, values[s])
  <2> SUFFICES ASSUME NEW s \in Sources  PROVE Follows(new, s, values[s])
    OBVIOUS
  <2>1. Follows(o, s, values[s]) /\ FieldOf(s) \in Fields
    BY <1>8, SourceFields DEF Hears
  <2>2. CASE FieldOf(s) = field /\ m.value = Unknown
    <3>1. FieldOf(s) \in new.late
      BY <1>7, <1>10, <2>2 DEF late
    <3> QED  BY <1>7, <2>1, <3>1, TailFollows
  <2>3. CASE FieldOf(s) = field /\ m.value # Unknown /\ s = m.of
    <3>1. Informs(m, s) /\ Mirrored(new, FieldOf(s)).value = m.value
      BY <1>3, <1>6, <1>7, <2>3 DEF Mirrored
    <3> QED  BY <1>7, <2>1, <3>1, TailFollows DEF m
  <2>4. CASE FieldOf(s) = field /\ s # m.of
    <3>1. Mirrored(new, FieldOf(s)).of # s
      BY <1>3, <1>6, <1>7, <2>4 DEF Mirrored
    <3> QED  BY <1>7, <2>1, <3>1, TailFollows
  <2>5. CASE FieldOf(s) # field
    <3>1. ~Informs(m, s) /\ (FieldOf(s) \in new.late <=> FieldOf(s) \in o.late)
      BY <1>3, <1>7, <2>5 DEF late, field
    <3>2. Mirrored(new, FieldOf(s)) = Mirrored(o, FieldOf(s))
      BY <1>6, <1>7, <2>1, <2>5 DEF Mirrored
    <3> QED  BY <1>7, <2>1, <3>1, <3>2, TailFollows DEF m
  <2> QED  BY <2>2, <2>3, <2>4, <2>5
<1>13. AsksOnce(new)
  <2>1. \A f \in Fields : /\ Replied(new.wire, f) => Replied(o.wire, f) /\ f # field
                          /\ Once(new.wire, f)
    BY <1>1, <1>3, <1>7, <1>8, TailEffect DEF AsksOnce, m
  <2>2. \A n \in 1 .. Len(new.wire) : new.wire[n].kind # "list"
    <3>1. \A n \in 1 .. Len(new.wire) : n + 1 \in 1 .. Len(o.wire) /\ new.wire[n] = o.wire[n + 1]
      BY <1>1, <1>2, <1>7, TailEffect
    <3> QED  BY <1>8, <3>1 DEF AsksOnce
  <2>3. \A f \in Fields : f \in new.asked \/ Replied(new.wire, f) \/ f = field =>
          f \in o.asked \/ Replied(o.wire, f) \/ f = field \/ (last /\ f = "audio")
    BY <1>7, <2>1 DEF unanswered
  \* When the last of the others is answered, the audio has not been asked yet.
  <2>4. last => /\ ~Replied(o.wire, "audio") /\ o.answers["audio"] = NoObject
                /\ "audio" \notin o.asked
    BY <1>2, <1>3, <1>8, <1>9 DEF AsksOnce, Fields
  <2>5. ASSUME NEW f \in Fields
        PROVE  /\ f \in new.asked => ~Replied(new.wire, f)
               /\ f \in new.asked \/ Replied(new.wire, f) => new.answers[f] = NoObject
    <3>1. CASE last
      <4>1. f \in new.asked => f = "audio"
        BY <1>7, <3>1 DEF unanswered
      <4>2. ~Replied(new.wire, "audio")
        BY <2>1, <2>4, <3>1 DEF Fields
      <4>3. new.answers["audio"] = NoObject
        <5>1. "audio" \in Fields \ {field}
          BY <1>3, <3>1 DEF Fields
        <5> HIDE DEF last
        <5> QED  BY <1>6, <1>7, <2>4, <3>1, <5>1
      <4>4. Replied(new.wire, f) => new.answers[f] = NoObject
        BY <1>6, <1>7, <1>8, <2>1 DEF AsksOnce
      <4> QED  BY <4>1, <4>2, <4>3, <4>4
    <3>2. CASE ~last
      <4>1. new.asked = o.asked
        BY <1>7, <3>2 DEF unanswered
      <4>2. f \in o.asked => f # field
        BY <1>9
      <4> QED  BY <1>6, <1>7, <1>8, <2>1, <4>1, <4>2 DEF AsksOnce
    <3> QED  BY <3>1, <3>2
  <2>6. ASSUME "audio" \in new.asked \/ Replied(new.wire, "audio")
                 \/ new.answers["audio"] # NoObject,
               NEW f \in Fields \ {"audio"}
        PROVE  new.answers[f] # NoObject
    <3>1. CASE last
      BY <1>7, <3>1
    <3>2. CASE ~last
      <4>1. "audio" \in Fields /\ new.asked = o.asked
        BY <1>7, <3>2 DEF unanswered, Fields
      <4>2. "audio" \in o.asked \/ Replied(o.wire, "audio") \/ o.answers["audio"] # NoObject
        <5>1. CASE field = "audio"
          BY <1>1, <1>3, <4>1, <5>1, TailEffect DEF m
        <5>2. CASE field # "audio"
          BY <1>6, <1>7, <2>1, <2>6, <4>1, <5>2
        <5> QED  BY <5>1, <5>2
      <4>3. o.answers[f] # NoObject
        BY <1>8, <4>2 DEF AsksOnce
      <4> QED  BY <1>3, <1>6, <1>7, <4>3
    <3> QED  BY <3>1, <3>2
  <2> QED  BY <2>1, <2>2, <2>5, <2>6 DEF AsksOnce
<1>14. Hears(new, values)
  BY <1>7, <1>11, <1>12, <1>13 DEF Hears
<1>15. Sound(new, TRUE, values)
  BY <1>7, <1>14 DEF Sound
<1> QED  BY <1>7, <1>15 DEF new, rest, m

\* The list of scenes arrives, and the scene with it.
LEMMA SceneHandled ==
  ASSUME NEW o \in Instance, NEW values \in [Sources -> 0 .. MaxChanges],
         Sound(o, TRUE, values), o.isConnected, o.wire # <<>>, Head(o.wire).kind = "answer",
         o.phase = "running"
  PROVE  LET new == ListArrives([o EXCEPT !.wire = Tail(@)], Head(o.wire).value)
         IN new \in Instance /\ Sound(new, TRUE, values)
<1> DEFINE m == Head(o.wire)
           rest == [o EXCEPT !.wire = Tail(@)]
           reading == [of |-> "scene", value |-> m.value]
           lastState == IF m.value = Unknown THEN o.lastState
                        ELSE [o.lastState EXCEPT !["scene"] = reading]
           late == IF m.value = Unknown THEN o.late ELSE o.late \ {"scene"}
           new == ListArrives(rest, m.value)
<1>1. /\ o.wire \in Seq(Message) /\ o.late \in SUBSET Fields
      /\ o.lastState \in [Fields -> Reading \cup {NoObject}]
  BY InstanceFields
<1>2. /\ m \in Message /\ Tail(o.wire) \in Seq(Message)
      /\ m.of \in Sources /\ m.value \in Value /\ m.kind = "answer" /\ FieldOf(m.of) \in Fields
  <2>1. m \in Message /\ Tail(o.wire) \in Seq(Message)
    BY <1>1
  <2> QED  BY <2>1, MessageFields
<1>3. Hears(o, values) /\ AsksList(o)
  BY DEF Sound, Hears
<1>4. m.of = "scene"
  <2>1. Replied(o.wire, FieldOf(m.of))
    BY <1>1, <1>2, TailEffect DEF Replies
  <2>2. FieldOf(m.of) = "scene"
    BY <1>2, <1>3, <2>1 DEF AsksList
  <2> QED  BY <1>2, <2>2, SourceFields
<1>5. /\ \A s \in Sources : Informs(m, s) <=> s = "scene" /\ m.value # Unknown
      /\ reading \in Reading /\ reading.of = "scene" /\ reading.value = m.value
      /\ "scene" \in Fields /\ FieldOf("scene") = "scene"
      /\ \A s \in Sources : FieldOf(s) \in Fields /\ (FieldOf(s) = "scene" <=> s = "scene")
  BY <1>2, <1>4, SourceFields DEF Informs, Reading
<1> HIDE DEF m, reading
<1>6. /\ rest \in Instance /\ rest.wire = Tail(o.wire) /\ rest.phase = o.phase
      /\ rest.lastState = o.lastState /\ rest.late = o.late
      /\ rest.isConnected = o.isConnected /\ rest.asked = o.asked /\ rest.answers = o.answers
      /\ rest.screenshot = o.screenshot /\ rest.stats = o.stats /\ rest.torn = o.torn
  BY <1>2 DEF Instance, Message
<1> HIDE DEF rest
<1>7. lastState \in [Fields -> Reading \cup {NoObject}] /\ late \in SUBSET Fields
  BY <1>1, <1>2, <1>5
<1>8. /\ new \in Instance /\ new.phase = "running" /\ new.isConnected = o.isConnected
      /\ new.asked = o.asked /\ new.wire = Tail(o.wire) /\ new.answers = o.answers
      /\ new.screenshot = o.screenshot /\ new.stats = o.stats /\ new.torn = o.torn
      /\ new.late = late /\ new.lastState = lastState
  <2>1. CASE m.value = Unknown
    BY <1>6, <2>1 DEF ListArrives
  <2>2. CASE m.value # Unknown
    <3>1. new = [rest EXCEPT !.lastState = lastState, !.late = late]
      BY <1>6, <2>2 DEF ListArrives, reading
    <3> HIDE DEF lastState, late, new
    <3> QED  BY <1>6, <1>7, <3>1 DEF Instance
  <2> QED  BY <2>1, <2>2
<1> HIDE DEF new, lastState, late
<1>9. \A f \in Fields : f # "scene" \/ m.value = Unknown =>
        /\ f \in new.late <=> f \in o.late
        /\ Mirrored(new, f) = Mirrored(o, f)
  BY <1>1, <1>8 DEF Mirrored, lastState, late
<1>10. m.value # Unknown => Mirrored(new, "scene") = reading
  BY <1>1, <1>5, <1>8 DEF Mirrored, lastState
<1>11. Known(new)
  BY <1>3, <1>5, <1>9, <1>10 DEF Hears, Known
<1>12. ASSUME NEW s \in Sources  PROVE Follows(new, s, values[s])
  <2>1. Follows(o, s, values[s])
    BY <1>3 DEF Hears
  <2>2. CASE s = "scene" /\ m.value # Unknown
    <3>1. Informs(m, s) /\ Mirrored(new, FieldOf(s)).value = m.value
      BY <1>5, <1>10, <2>2
    <3> QED  BY <1>8, <2>1, <3>1, TailFollows DEF m
  <2>3. CASE ~(s = "scene" /\ m.value # Unknown)
    <3>1. /\ ~Informs(m, s) /\ (FieldOf(s) \in new.late <=> FieldOf(s) \in o.late)
          /\ Mirrored(new, FieldOf(s)) = Mirrored(o, FieldOf(s))
      BY <1>5, <1>9, <2>3
    <3> QED  BY <1>8, <2>1, <3>1, TailFollows DEF m
  <2> QED  BY <2>2, <2>3
<1>13. AsksList(new)
  BY <1>3, <1>8, TailAsks
<1>14. Hears(new, values)
  BY <1>3, <1>8, <1>11, <1>12, <1>13 DEF Hears
<1>15. Sound(new, TRUE, values)
  BY <1>8, <1>14 DEF Sound
<1> QED  BY <1>8, <1>15 DEF new, rest, m

LEMMA HandlesStep ==
  ASSUME RuntimeIInv, NEW i \in Objects, Handles(i)
  PROVE  RuntimeIInv'
<1> DEFINE o == instance[i]
           m == Head(o.wire)
           rest == [o EXCEPT !.wire = Tail(@)]
           new == CASE m.kind = "event" -> EventArrives(rest, m.of, m.value)
                    [] m.kind = "list" -> [rest EXCEPT !.asked = @ \cup {"scene"}]
                    [] m.kind = "answer" /\ rest.phase = "bootstrap" ->
                         AnswerArrives(rest, m.of, m.value)
                    [] OTHER -> ListArrives(rest, m.value)
<1>1. /\ Up(i) /\ o.wire # <<>> /\ instance' = [instance EXCEPT ![i] = new]
      /\ UNCHANGED <<changes, shows, stored, rejected>>
  BY DEF Handles
<1>2. /\ Used(i) /\ o \in Instance /\ i = stored /\ o.isConnected /\ Sound(o, i = stored, shows)
  BY <1>1, UpIs
<1>3. Sound(o, TRUE, shows)
  <2>1. (i = stored) = TRUE
    BY <1>2
  <2> QED  BY <1>2, <2>1
<1>4. /\ shows \in [Sources -> 0 .. MaxChanges] /\ rejected \in 0 .. MaxRejected
      /\ o.wire \in Seq(Message) /\ o.phase \in {"bootstrap", "running"}
  BY <1>2, InstanceFields DEF RuntimeIInv, RuntimeStateTyped
<1>5. m.kind \in {"event", "answer", "list"} /\ rest.phase = o.phase
  <2>1. m \in Message
    BY <1>1, <1>4
  <2>2. rest.phase = o.phase
    BY <1>2 DEF Instance
  <2> QED  BY <2>1, <2>2, MessageFields
<1> HIDE DEF o
<1>6. new \in Instance /\ Sound(new, TRUE, shows)
  <2>1. CASE m.kind = "event"
    <3>1. new = EventArrives(rest, m.of, m.value)
      BY <2>1
    <3> HIDE DEF new
    <3> QED  BY <1>1, <1>2, <1>3, <1>4, <2>1, <3>1, EventHandled
  <2>2. CASE m.kind = "list"
    <3>1. new = [rest EXCEPT !.asked = @ \cup {"scene"}]
      BY <2>2
    <3> HIDE DEF new
    <3> QED  BY <1>1, <1>2, <1>3, <1>4, <2>2, <3>1, ListHandled
  <2>3. CASE m.kind = "answer" /\ o.phase = "bootstrap"
    <3>1. new = AnswerArrives(rest, m.of, m.value)
      BY <1>5, <2>3
    <3> HIDE DEF new
    <3> QED  BY <1>1, <1>2, <1>3, <1>4, <2>3, <3>1, AnswerHandled
  <2>4. CASE m.kind = "answer" /\ o.phase = "running"
    <3>1. new = ListArrives(rest, m.value)
      BY <1>5, <2>4
    <3> HIDE DEF new
    <3> QED  BY <1>1, <1>2, <1>3, <1>4, <2>4, <3>1, SceneHandled
  <2> QED  BY <1>4, <1>5, <2>1, <2>2, <2>3, <2>4
<1> HIDE DEF new
<1>7. Sound(new, i = stored, shows)
  <2>1. (i = stored) = TRUE
    BY <1>2
  <2> QED  BY <1>6, <2>1
<1> QED  BY <1>1, <1>2, <1>4, <1>6, <1>7, OneInstance

\* A question is answered, by what OBS shows of a source of the field or by its refusal.
LEMMA AnsweredStep ==
  ASSUME RuntimeIInv, NEW i \in Objects, NEW f \in Fields, NEW s \in Sources, FieldOf(s) = f,
         NEW value \in {shows[s], Unknown}, Answered(i, f, s, value),
         rejected' \in 0 .. MaxRejected
  PROVE  RuntimeIInv'
<1> DEFINE o == instance[i]
           m == [kind |-> "answer", of |-> s, value |-> value]
           wire == Append(o.wire, m)
           unanswered == o.asked \ {f}
           new == [o EXCEPT !.wire = wire, !.asked = unanswered]
<1>0. /\ Up(i) /\ f \in o.asked /\ UNCHANGED <<changes, shows, stored>>
      /\ instance' = [Tell(i, "answer", s, value) EXCEPT ![i].asked = @ \ {f}]
  BY DEF Answered
<1>1. /\ Used(i) /\ o \in Instance /\ i = stored /\ o.isConnected /\ Sound(o, i = stored, shows)
      /\ Hears(o, shows) /\ RuntimeStateTyped
  BY <1>0, UpIs DEF RuntimeIInv
<1>2. /\ shows \in [Sources -> 0 .. MaxChanges] /\ o.wire \in Seq(Message)
      /\ o.asked \in SUBSET Fields /\ o.phase \in {"bootstrap", "running"}
  BY <1>1, InstanceFields DEF RuntimeStateTyped
<1>3. m \in Message /\ m.kind = "answer" /\ m.of = s /\ m.value = value
  BY <1>2, Values DEF Message
<1>4. instance' = [instance EXCEPT ![i] = new]
  <2>1. instance \in [Objects -> Instance \cup {Unused}]
    BY <1>1 DEF RuntimeStateTyped
  <2>2. Tell(i, "answer", s, value) = [instance EXCEPT ![i] = [o EXCEPT !.wire = wire]]
    BY DEF Tell
  <2> DEFINE told == [o EXCEPT !.wire = wire]
  <2>3. told.asked = o.asked /\ [told EXCEPT !.asked = unanswered] = new
    BY <1>1 DEF Instance
  <2> HIDE DEF told, new, wire
  <2>4. instance' = [[instance EXCEPT ![i] = told] EXCEPT ![i] = [told EXCEPT !.asked = @ \ {f}]]
    BY <1>0, <2>1, <2>2 DEF told
  <2> QED  BY <2>1, <2>3, <2>4
<1>5. /\ \A g \in Sources : Informs(m, g) <=> g = s /\ value # Unknown
      /\ \A g \in Fields : Replies(m, g) <=> g = f
  BY <1>3 DEF Informs, Replies
<1> HIDE DEF m
<1> HIDE DEF o
<1>6. wire \in Seq(Message) /\ unanswered \in SUBSET Fields /\ wire = Append(o.wire, m)
  BY <1>2, <1>3
<1> HIDE DEF wire, unanswered
<1>7. /\ new \in Instance /\ new.phase = o.phase /\ new.isConnected = o.isConnected
      /\ new.asked = unanswered /\ new.wire = wire /\ new.answers = o.answers
      /\ new.lastState = o.lastState /\ new.late = o.late
      /\ new.screenshot = o.screenshot /\ new.stats = o.stats /\ new.torn = o.torn
  BY <1>1, <1>6 DEF Instance, Message
<1> HIDE DEF new
<1>8. ASSUME NEW g \in Sources  PROVE Follows(new, g, shows[g])
  <2>1. Follows(o, g, shows[g]) /\ Mirrored(new, FieldOf(g)) = Mirrored(o, FieldOf(g))
    BY <1>1, <1>7 DEF Hears, Mirrored
  <2>2. Informs(m, g) => m.value = shows[g]
    BY <1>3, <1>5
  <2> QED  BY <1>1, <1>3, <1>6, <1>7, <2>1, <2>2, AppendFollows
<1>9. \A g \in Fields : Replied(wire, g) => Replied(o.wire, g) \/ g = f
  BY <1>2, <1>3, <1>5, <1>6, AppendEffect
<1>10. ASSUME AsksOnce(o)  PROVE AsksOnce(new)
  <2>1. \A g \in Fields : Once(wire, g)
    <3>1. ~Replied(o.wire, f) /\ \A g \in Fields : Once(o.wire, g)
      BY <1>0, <1>10 DEF AsksOnce
    <3> QED  BY <1>2, <1>3, <1>5, <1>6, <3>1, AppendEffect
  <2>2. \A n \in 1 .. Len(wire) : wire[n].kind # "list"
    <3>1. /\ \A n \in 1 .. Len(wire) : n \in 1 .. Len(o.wire) \/ n = Len(o.wire) + 1
          /\ wire[Len(o.wire) + 1] = m /\ \A n \in 1 .. Len(o.wire) : wire[n] = o.wire[n]
      BY <1>2, <1>3, <1>6
    <3> QED  BY <1>3, <1>10, <3>1 DEF AsksOnce
  <2>3. f \in o.asked /\ unanswered = o.asked \ {f}
    BY <1>0 DEF unanswered
  <2>4. "audio" \in Fields
    BY DEF Fields
  <2> QED  BY <1>7, <1>9, <1>10, <2>1, <2>2, <2>3, <2>4 DEF AsksOnce
<1>11. ASSUME AsksList(o)  PROVE AsksList(new)
  <2>1. f \in o.asked /\ unanswered = o.asked \ {f}
    BY <1>0 DEF unanswered
  <2> QED  BY <1>7, <1>9, <1>11, <2>1 DEF AsksList
<1>12. Known(new)
  BY <1>1, <1>7 DEF Hears, Known, Mirrored
<1>13. Hears(new, shows)
  BY <1>1, <1>7, <1>8, <1>10, <1>11, <1>12 DEF Hears
<1>14. Sound(new, i = stored, shows)
  BY <1>1, <1>7, <1>13 DEF Sound
<1> QED  BY <1>0, <1>1, <1>4, <1>7, <1>14, OneInstance

LEMMA ListChangesStep ==
  ASSUME RuntimeIInv, ListChanges
  PROVE  RuntimeIInv'
<1>1. PICK i \in Objects : /\ Up(i) /\ instance[i].phase = "running"
                           /\ instance' = Tell(i, "list", "scene", 0)
  BY DEF ListChanges
<1> DEFINE o == instance[i]
           m == [kind |-> "list", of |-> "scene", value |-> 0]
           wire == Append(o.wire, m)
           new == [o EXCEPT !.wire = wire]
<1>2. /\ Used(i) /\ o \in Instance /\ i = stored /\ o.isConnected /\ Sound(o, i = stored, shows)
      /\ Hears(o, shows) /\ RuntimeStateTyped /\ o.phase = "running"
      /\ instance' = [instance EXCEPT ![i] = new] /\ UNCHANGED <<changes, shows, stored, rejected>>
  BY <1>1, UpIs DEF RuntimeIInv, ListChanges, Tell
<1>3. o.wire \in Seq(Message) /\ rejected \in 0 .. MaxRejected
  BY <1>2, InstanceFields DEF RuntimeStateTyped
<1>4. m \in Message /\ m.kind = "list"
  BY Values, SourceFields DEF Message, Value, Unknown
<1>5. (\A s \in Sources : ~Informs(m, s)) /\ (\A f \in Fields : ~Replies(m, f))
  BY <1>4 DEF Informs, Replies
<1> HIDE DEF o, m
<1>6. wire \in Seq(Message) /\ wire = Append(o.wire, m)
  BY <1>3, <1>4
<1> HIDE DEF wire
<1>7. /\ new \in Instance /\ new.phase = "running" /\ new.isConnected = o.isConnected
      /\ new.asked = o.asked /\ new.wire = wire /\ new.answers = o.answers
      /\ new.lastState = o.lastState /\ new.late = o.late
      /\ new.screenshot = o.screenshot /\ new.stats = o.stats /\ new.torn = o.torn
  BY <1>2, <1>6 DEF Instance, Message
<1> HIDE DEF new
<1>8. ASSUME NEW s \in Sources  PROVE Follows(new, s, shows[s])
  <2>1. Follows(o, s, shows[s]) /\ Mirrored(new, FieldOf(s)) = Mirrored(o, FieldOf(s))
    BY <1>2, <1>7 DEF Hears, Mirrored
  <2> QED  BY <1>2, <1>4, <1>5, <1>6, <1>7, <2>1, AppendFollows
<1>9. AsksList(new)
  <2>1. \A f \in Fields : Replied(wire, f) => Replied(o.wire, f)
    BY <1>3, <1>4, <1>5, <1>6, AppendEffect
  <2> QED  BY <1>2, <1>7, <2>1 DEF AsksList, Hears
<1>10. Known(new)
  BY <1>2, <1>7 DEF Hears, Known, Mirrored
<1>11. Sound(new, i = stored, shows)
  BY <1>2, <1>7, <1>8, <1>9, <1>10 DEF Sound, Hears
<1> QED  BY <1>2, <1>3, <1>7, <1>11, OneInstance

\* The bootstrap ends: all was answered, or the instance does not hear OBS any more.
LEMMA BootstrapEndsStep ==
  ASSUME RuntimeIInv, NEW i \in Objects, BootstrapEnds(i)
  PROVE  RuntimeIInv'
<1> DEFINE o == instance[i]
           new == [o EXCEPT !.phase = "running", !.stats = TRUE, !.screenshot = "armed",
                            !.lastState = o.answers]
<1>1. /\ Used(i) /\ o.phase = "bootstrap" /\ o \in Instance /\ Sound(o, i = stored, shows)
      /\ ~Up(i) \/ \A f \in Fields : o.answers[f] # NoObject
      /\ instance' = [instance EXCEPT ![i] = new] /\ UNCHANGED <<changes, shows, stored, rejected>>
      /\ RuntimeStateTyped
  BY UpIs DEF BootstrapEnds, RuntimeIInv
<1>2. o.answers \in [Fields -> Reading \cup {NoObject}] /\ rejected \in 0 .. MaxRejected
  BY <1>1, InstanceFields DEF RuntimeStateTyped
<1>5. /\ new \in Instance /\ new.phase = "running" /\ new.isConnected = o.isConnected
      /\ new.asked = o.asked /\ new.wire = o.wire /\ new.late = o.late /\ new.lastState = o.answers
      /\ new.screenshot = "armed" /\ new.stats = TRUE /\ new.torn = o.torn
  BY <1>1, <1>2 DEF Instance
<1> HIDE DEF new
<1>6. CASE ~Up(i)
  <2>1. ~(i = stored /\ o.isConnected)
    BY <1>1, <1>6, UpIs
  <2> HIDE DEF o
  <2>2. Sound(new, i = stored, shows)
    BY <1>1, <1>5, <2>1 DEF Sound
  <2> QED  BY <1>1, <1>2, <1>5, <2>2, OneInstance DEF o
<1>7. CASE Up(i)
  <2>1. Hears(o, shows) /\ AsksOnce(o) /\ i = stored /\ o.isConnected
    BY <1>1, <1>7, UpIs DEF Hears
  <2>2. ASSUME NEW s \in Sources  PROVE Follows(new, s, shows[s])
    <3>1. Follows(o, s, shows[s]) /\ Mirrored(new, FieldOf(s)) = Mirrored(o, FieldOf(s))
      BY <1>1, <1>5, <2>1 DEF Hears, Mirrored
    <3> QED  BY <1>5, <3>1 DEF Follows
  <2>3. AsksList(new)
    BY <1>1, <1>5, <1>7, <2>1, InstanceFields DEF AsksOnce, AsksList
  <2>4. Known(new)
    BY <1>1, <1>5, <2>1 DEF Hears, Known, Mirrored
  <2> HIDE DEF o
  <2>5. Sound(new, i = stored, shows)
    BY <1>1, <1>5, <2>2, <2>3, <2>4 DEF Sound, Hears
  <2> QED  BY <1>1, <1>2, <1>5, <2>5, OneInstance DEF o
<1> QED  BY <1>6, <1>7

\* The loop of screenshots polls, and is armed again; it ends only without a connection.
LEMMA PollStep ==
  ASSUME RuntimeIInv, NEW i \in Objects, PollBegins(i) \/ PollEnds(i)
  PROVE  RuntimeIInv'
<1> DEFINE o == instance[i]
<1>1. PICK shot \in {"off", "armed", "polling"} :
        /\ instance' = [instance EXCEPT ![i].screenshot = shot]
        /\ o.isConnected => shot # "off"
        /\ Used(i) /\ o.screenshot # "off" /\ UNCHANGED <<changes, shows, stored, rejected>>
  <2>1. CASE PollBegins(i)
    <3> DEFINE shot == IF o.isConnected THEN "polling" ELSE "off"
    <3>1. /\ instance' = [instance EXCEPT ![i].screenshot = shot] /\ Used(i)
          /\ o.screenshot # "off" /\ UNCHANGED <<changes, shows, stored, rejected>>
      BY <2>1 DEF PollBegins
    <3> QED  BY <3>1
  <2>2. CASE PollEnds(i)
    <3> DEFINE shot == IF o.isConnected THEN "armed" ELSE "off"
    <3>1. /\ instance' = [instance EXCEPT ![i].screenshot = shot] /\ Used(i)
          /\ o.screenshot # "off" /\ UNCHANGED <<changes, shows, stored, rejected>>
      BY <2>2 DEF PollEnds
    <3> QED  BY <3>1
  <2> QED  BY <2>1, <2>2
<1> DEFINE new == [o EXCEPT !.screenshot = shot]
<1>2. /\ o \in Instance /\ Sound(o, i = stored, shows) /\ RuntimeStateTyped
      /\ instance' = [instance EXCEPT ![i] = new]
  BY <1>1, UpIs DEF RuntimeIInv
<1>3. /\ new \in Instance /\ new.phase = o.phase /\ new.isConnected = o.isConnected
      /\ new.asked = o.asked /\ new.wire = o.wire /\ new.answers = o.answers
      /\ new.lastState = o.lastState /\ new.late = o.late
      /\ new.screenshot = shot /\ new.stats = o.stats /\ new.torn = o.torn
  BY <1>2 DEF Instance
<1> HIDE DEF new
<1>4. ASSUME Hears(o, shows), o.isConnected  PROVE Hears(new, shows)
  <2>1. Known(new) /\ \A s \in Sources : Follows(new, s, shows[s])
    BY <1>3, <1>4 DEF Hears, Known, Follows, Mirrored
  <2>2. (AsksOnce(o) => AsksOnce(new)) /\ (AsksList(o) => AsksList(new))
    BY <1>3 DEF AsksOnce, AsksList
  <2> QED  BY <1>1, <1>3, <1>4, <2>1, <2>2 DEF Hears
<1>5. Sound(new, i = stored, shows)
  BY <1>1, <1>2, <1>3, <1>4 DEF Sound
<1> QED  BY <1>1, <1>2, <1>3, <1>5, OneInstance DEF RuntimeStateTyped

LEMMA ClosesStep ==
  ASSUME RuntimeIInv, Closes
  PROVE  RuntimeIInv'
<1>1. PICK i \in Objects :
        Up(i) /\ instance' = [instance EXCEPT ![i].isConnected = FALSE, ![i].asked = {},
                                              ![i].wire = <<>>]
  BY DEF Closes
<1> DEFINE o == instance[i]
           new == [o EXCEPT !.isConnected = FALSE, !.asked = {}, !.wire = <<>>]
<1>2. /\ Used(i) /\ o \in Instance /\ Sound(o, i = stored, shows) /\ RuntimeStateTyped
      /\ UNCHANGED <<changes, shows, stored, rejected>>
  BY <1>1, UpIs DEF RuntimeIInv, Closes
<1>3. instance' = [instance EXCEPT ![i] = new]
  <2>1. instance \in [Objects -> Instance \cup {Unused}]
    BY <1>2 DEF RuntimeStateTyped
  <2> QED  BY <1>1, <2>1
<1>4. /\ new \in Instance /\ new.phase = o.phase /\ new.isConnected = FALSE
      /\ new.asked = {} /\ new.wire = <<>>
      /\ new.screenshot = o.screenshot /\ new.stats = o.stats /\ new.torn = o.torn
  <2> DEFINE silence == <<>>
  <2>1. silence \in Seq(Message)
    OBVIOUS
  <2> HIDE DEF silence
  <2>2. [o EXCEPT !.isConnected = FALSE, !.asked = {}, !.wire = silence] \in Instance
    BY <1>2, <2>1 DEF Instance, Message
  <2>3. new \in Instance
    BY <2>2 DEF silence
  <2> QED  BY <1>2, <2>3 DEF Instance
<1> HIDE DEF new
<1>5. Sound(new, i = stored, shows)
  BY <1>2, <1>4 DEF Sound
<1> QED  BY <1>2, <1>3, <1>4, <1>5, OneInstance DEF RuntimeStateTyped

\* What is torn down is not the instance of the store.
LEMMA DisconnectsStep ==
  ASSUME RuntimeIInv, Disconnects
  PROVE  RuntimeIInv'
<1> DEFINE new == TeardownInstance(instance[stored])
<1>1. /\ RuntimeStateTyped /\ stored \in Objects /\ Used(stored) /\ stored' = NoObject
      /\ instance' = [instance EXCEPT ![stored] = new]
      /\ UNCHANGED <<changes, shows, rejected>> /\ NoObject \notin Objects
  BY RuntimeAssumption DEF Disconnects, RuntimeIInv, RuntimeStateTyped
<1>2. new \in Instance /\ Sound(new, FALSE, shows)
  BY <1>1, UpIs, TeardownEffect
<1> HIDE DEF new
<1>3. /\ instance' \in [Objects -> Instance \cup {Unused}]
      /\ instance'[stored] = new /\ \A o \in Objects \ {stored} : instance'[o] = instance[o]
  BY <1>1, <1>2 DEF RuntimeStateTyped
<1>4. ASSUME NEW o \in Objects, Used(o)'  PROVE Sound(instance'[o], o = stored', shows')
  <2>1. (o = stored') = FALSE
    BY <1>1
  <2>2. CASE o = stored
    BY <1>1, <1>2, <1>3, <2>1, <2>2
  <2>3. CASE o # stored
    <3>1. Used(o) /\ instance'[o] = instance[o] /\ (o = stored) = FALSE
      BY <1>3, <1>4, <2>3 DEF Used
    <3>2. Sound(instance[o], o = stored, shows)
      BY <3>1 DEF RuntimeIInv
    <3> QED  BY <1>1, <2>1, <3>1, <3>2
  <2> QED  BY <2>2, <2>3
<1> QED  BY <1>1, <1>3, <1>4 DEF RuntimeIInv, RuntimeStateTyped

LEMMA ConnectsStep ==
  ASSUME RuntimeIInv, NEW i \in Objects, Connects(i)
  PROVE  RuntimeIInv'
<1>1. /\ RuntimeStateTyped /\ ~Used(i) /\ stored' = i /\ UNCHANGED <<changes, shows, rejected>>
      /\ stored # NoObject => Used(stored)
      /\ stored # i /\ NoObject \notin Objects
      /\ instance' = [o \in Objects |-> CASE o = i -> NewInstance
                                          [] o = stored -> TeardownInstance(instance[o])
                                          [] OTHER -> instance[o]]
  BY RuntimeAssumption DEF Connects, RuntimeIInv
<1>2. /\ instance'[i] = NewInstance
      /\ stored \in Objects => instance'[stored] = TeardownInstance(instance[stored])
      /\ \A o \in Objects \ {i, stored} : instance'[o] = instance[o]
  BY <1>1
<1>3. NewInstance \in Instance /\ Sound(NewInstance, TRUE, shows)
  BY NewEffect
<1>4. ASSUME NEW o \in Objects
      PROVE  /\ instance'[o] \in Instance \cup {Unused}
             /\ Used(o)' => Sound(instance'[o], o = stored', shows')
  <2>1. CASE o = i
    <3>1. (o = stored') = TRUE
      BY <1>1, <2>1
    <3> QED  BY <1>1, <1>2, <1>3, <2>1, <3>1
  <2>2. CASE o = stored
    <3>1. (o = stored') = FALSE /\ Used(o)
      BY <1>1, <2>2
    <3>2. /\ TeardownInstance(instance[o]) \in Instance
          /\ Sound(TeardownInstance(instance[o]), FALSE, shows)
      BY <3>1, UpIs, TeardownEffect
    <3> QED  BY <1>1, <1>2, <2>2, <3>1, <3>2
  <2>3. CASE o \notin {i, stored}
    <3>1. instance'[o] = instance[o] /\ (o = stored') = FALSE /\ (o = stored) = FALSE
      BY <1>1, <1>2, <2>3
    <3>2. Used(o) => Sound(instance[o], o = stored, shows)
      BY DEF RuntimeIInv
    <3> QED  BY <1>1, <3>1, <3>2 DEF Used, RuntimeStateTyped
  <2> QED  BY <2>1, <2>2, <2>3
<1>5. instance' \in [Objects -> Instance \cup {Unused}]
  BY <1>1, <1>4
<1>6. Used(stored)'
  BY <1>1, <1>2, <1>3, UnusedIsNoInstance DEF Used
<1> QED  BY <1>1, <1>4, <1>5, <1>6 DEF RuntimeIInv, RuntimeStateTyped

\* OBS changes, and the instance that is up is told the value it changes to.
LEMMA ChangesStep ==
  ASSUME RuntimeIInv, NEW s \in Sources, Changes(s)
  PROVE  RuntimeIInv'
<1> DEFINE value == changes + 1
<1>1. /\ RuntimeStateTyped /\ shows' = [shows EXCEPT ![s] = value] /\ UNCHANGED <<stored, rejected>>
      /\ changes < MaxChanges /\ changes' = value
      /\ stored # NoObject => Used(stored)
      /\ IF \E i \in Objects : Up(i) THEN instance' = Tell(stored, "event", s, value)
         ELSE UNCHANGED instance
  BY DEF Changes, RuntimeIInv
<1>2. /\ value \in 0 .. MaxChanges /\ changes' \in 0 .. MaxChanges
      /\ shows' \in [Sources -> 0 .. MaxChanges]
  BY <1>1, RuntimeAssumption DEF RuntimeStateTyped
<1>3. shows'[s] = value /\ \A g \in Sources \ {s} : shows'[g] = shows[g]
  BY <1>1 DEF RuntimeStateTyped
<1> HIDE DEF value
\* An instance that does not hear OBS is not judged by what OBS shows.
<1>4. ASSUME NEW o \in Objects, Used(o), ~Up(o)
      PROVE  Sound(instance[o], o = stored, shows')
  <2>1. Sound(instance[o], o = stored, shows) /\ ~(o = stored /\ instance[o].isConnected)
    BY <1>4, UpIs
  <2> QED  BY <2>1 DEF Sound
<1>5. CASE ~\E i \in Objects : Up(i)
  BY <1>1, <1>2, <1>4, <1>5 DEF RuntimeIInv, RuntimeStateTyped, Used
<1>6. ASSUME NEW i \in Objects, Up(i)  PROVE RuntimeIInv'
  <2> DEFINE o == instance[i]
             m == [kind |-> "event", of |-> s, value |-> value]
             wire == Append(o.wire, m)
             new == [o EXCEPT !.wire = wire]
  <2>1. /\ Used(i) /\ o \in Instance /\ i = stored /\ o.isConnected /\ Sound(o, i = stored, shows)
        /\ Hears(o, shows) /\ o.wire \in Seq(Message) /\ o.phase \in {"bootstrap", "running"}
    <3>1. Used(i) /\ o \in Instance /\ i = stored /\ o.isConnected /\ Sound(o, i = stored, shows)
          /\ Hears(o, shows)
      BY <1>6, UpIs
    <3> HIDE DEF o
    <3> QED  BY <3>1, InstanceFields
  <2>2. instance' = [instance EXCEPT ![i] = new]
    BY <1>1, <1>6, <2>1 DEF Tell
  <2>3. m \in Message /\ m.kind = "event" /\ m.of = s /\ m.value = value
    BY <1>2, Values DEF Message
  <2>4. /\ \A g \in Sources : Informs(m, g) <=> g = s
        /\ \A g \in Fields : ~Replies(m, g)
    BY <2>3 DEF Informs, Replies
  <2> HIDE DEF o, m
  <2>5. wire \in Seq(Message) /\ wire = Append(o.wire, m)
    BY <2>1, <2>3
  <2> HIDE DEF wire
  <2>6. /\ new \in Instance /\ new.phase = o.phase /\ new.isConnected = o.isConnected
        /\ new.asked = o.asked /\ new.wire = wire /\ new.answers = o.answers
        /\ new.lastState = o.lastState /\ new.late = o.late
        /\ new.screenshot = o.screenshot /\ new.stats = o.stats /\ new.torn = o.torn
    BY <2>1, <2>5 DEF Instance, Message
  <2> HIDE DEF new
  <2>7. ASSUME NEW g \in Sources  PROVE Follows(new, g, shows'[g])
    <3>1. Follows(o, g, shows[g]) /\ Mirrored(new, FieldOf(g)) = Mirrored(o, FieldOf(g))
      BY <2>1, <2>6 DEF Hears, Mirrored
    <3>2. \/ Informs(m, g) /\ m.value = shows'[g]
          \/ ~Informs(m, g) /\ Follows(o, g, shows'[g])
      BY <1>3, <2>3, <2>4, <3>1
    <3> QED  BY <2>1, <2>3, <2>5, <2>6, <3>1, <3>2, AppendFollows
  <2>8. \A g \in Fields : Replied(wire, g) => Replied(o.wire, g)
    BY <2>1, <2>3, <2>4, <2>5, AppendEffect
  <2>9. ASSUME AsksOnce(o)  PROVE AsksOnce(new)
    <3>1. \A g \in Fields : Once(wire, g)
      <4>1. \A g \in Fields : Once(o.wire, g)
        BY <2>9 DEF AsksOnce
      <4> QED  BY <2>1, <2>3, <2>4, <2>5, <4>1, AppendEffect
    <3>2. \A n \in 1 .. Len(wire) : wire[n].kind # "list"
      <4>1. /\ \A n \in 1 .. Len(wire) : n \in 1 .. Len(o.wire) \/ n = Len(o.wire) + 1
            /\ wire[Len(o.wire) + 1] = m /\ \A n \in 1 .. Len(o.wire) : wire[n] = o.wire[n]
        BY <2>1, <2>3, <2>5
      <4> QED  BY <2>3, <2>9, <4>1 DEF AsksOnce
    <3>3. "audio" \in Fields
      BY DEF Fields
    <3> QED  BY <2>6, <2>8, <2>9, <3>1, <3>2, <3>3 DEF AsksOnce
  <2>10. AsksList(o) => AsksList(new)
    BY <2>6, <2>8 DEF AsksList
  <2>11. Hears(new, shows')
    <3>1. Known(new)
      BY <2>1, <2>6 DEF Hears, Known, Mirrored
    <3> QED  BY <2>1, <2>6, <2>7, <2>9, <2>10, <3>1 DEF Hears
  <2>12. Sound(new, i = stored, shows')
    BY <2>1, <2>6, <2>11 DEF Sound
  <2>13. /\ instance' \in [Objects -> Instance \cup {Unused}]
         /\ instance'[i] = new /\ \A p \in Objects \ {i} : instance'[p] = instance[p]
    BY <1>1, <2>2, <2>6 DEF RuntimeStateTyped
  <2>14. ASSUME NEW p \in Objects, Used(p)'  PROVE Sound(instance'[p], p = stored', shows')
    <3>1. CASE p = i
      BY <1>1, <2>12, <2>13, <3>1
    <3>2. CASE p # i
      <4>1. Used(p) /\ instance'[p] = instance[p] /\ ~Up(p)
        BY <2>1, <2>13, <2>14, <3>2 DEF Used, Up
      <4> QED  BY <1>1, <1>4, <4>1
    <3> QED  BY <3>1, <3>2
  <2>15. Used(stored)'
    BY <1>1, <2>1, <2>6, <2>13, UnusedIsNoInstance DEF Used
  <2> QED  BY <1>1, <1>2, <2>13, <2>14, <2>15 DEF RuntimeIInv, RuntimeStateTyped
<1> QED  BY <1>5, <1>6

\* What an instance that hears OBS mirrors follows it, and one that was torn down is at rest.
THEOREM RuntimeInvariance == RuntimeSpec => []RuntimeIInv
<1>1. RuntimeInit => RuntimeIInv
  BY RuntimeAssumption DEF RuntimeInit, RuntimeIInv, RuntimeStateTyped, Used
<1>2. RuntimeIInv /\ [RuntimeNext]_runtimeVars => RuntimeIInv'
  <2> SUFFICES ASSUME RuntimeIInv, [RuntimeNext]_runtimeVars  PROVE RuntimeIInv'
    OBVIOUS
  <2>1. RuntimeStateTyped
    BY DEF RuntimeIInv
  <2>2. ASSUME NEW i \in Objects, NEW f \in Fields, Answers(i, f)  PROVE RuntimeIInv'
    <3>1. rejected' \in 0 .. MaxRejected
      BY <2>1, <2>2 DEF Answers, RuntimeStateTyped
    <3> QED  BY <2>2, <3>1, AnsweredStep, SourceFields DEF Answers
  <2>3. ASSUME NEW i \in Objects, NEW f \in Fields, Rejects(i, f)  PROVE RuntimeIInv'
    <3>1. rejected' \in 0 .. MaxRejected
      BY <2>1, <2>3, RuntimeAssumption DEF Rejects, RuntimeStateTyped
    <3>2. CASE Answered(i, f, Asked(f), Unknown)
      BY <3>1, <3>2, AnsweredStep, SourceFields
    <3>3. ASSUME f = "audio", NEW s \in MasterInputs, Answered(i, f, s, shows[s])
          PROVE  RuntimeIInv'
      BY <3>1, <3>3, AnsweredStep, SourceFields
    <3> QED  BY <2>3, <3>2, <3>3 DEF Rejects
  <2>4. CASE ChangesScene \/ SwitchesOutput \/ SetsUp \/ SetsAudio
    BY <2>4, ChangesStep, SourceFields DEF ChangesScene, SwitchesOutput, SetsUp, SetsAudio, Commands
  <2>5. CASE UNCHANGED runtimeVars
    BY <2>5 DEF runtimeVars, RuntimeIInv, RuntimeStateTyped, Used
  <2>6. CASE RuntimeNext
    BY <2>2, <2>3, <2>4, <2>6, ConnectsStep, HandlesStep, BootstrapEndsStep, PollStep,
       DisconnectsStep, ClosesStep, ListChangesStep, ChangesStep DEF RuntimeNext
  <2> QED  BY <2>5, <2>6
<1> QED  BY <1>1, <1>2, PTL DEF RuntimeSpec

\* The types of the instances; only the one of the store hears OBS.
THEOREM RuntimeTyped == RuntimeSpec => []RuntimeTypeOK
<1>1. RuntimeIInv => RuntimeTypeOK
  <2> SUFFICES ASSUME RuntimeIInv  PROVE RuntimeTypeOK
    OBVIOUS
  <2>1. ASSUME NEW i \in Objects, Used(i)
        PROVE  /\ instance[i].phase \in {"bootstrap", "running"}
               /\ instance[i].late \subseteq Fields
               /\ instance[i].lastState \in [Fields -> Reading \cup {NoObject}]
               /\ instance[i].wire # <<>> \/ instance[i].asked # {} => Up(i)
               /\ instance[i].torn = "no" <=> i = stored
    <3>1. instance[i] \in Instance /\ Sound(instance[i], i = stored, shows)
      BY <2>1, UpIs
    <3>2. ~Up(i) => instance[i].wire = <<>> /\ instance[i].asked = {}
      BY <2>1, UpIs
    <3> QED  BY <3>1, <3>2, InstanceFields DEF Sound
  <2> QED  BY <2>1 DEF RuntimeIInv, RuntimeStateTyped, RuntimeTypeOK
<1> QED  BY <1>1, RuntimeInvariance, PTL

\* When nothing is on its way, what clients are given is what OBS shows, but for what is late.
THEOREM MirrorFollows == RuntimeSpec => []MirrorIsCurrent
<1>1. RuntimeIInv => MirrorIsCurrent
  <2> SUFFICES ASSUME RuntimeIInv, NEW i \in Objects,
                      Up(i), instance[i].phase = "running", instance[i].wire = <<>>,
                      NEW f \in Fields \ instance[i].late
               PROVE  LET reading == instance[i].lastState[f]
                      IN /\ reading # NoObject /\ FieldOf(reading.of) = f
                         /\ reading.value = shows[reading.of]
    BY DEF MirrorIsCurrent
  <2> DEFINE reading == instance[i].lastState[f]
  <2>1. /\ Known(instance[i]) /\ Mirrored(instance[i], f) = reading
        /\ \A s \in Sources : Follows(instance[i], s, shows[s])
    BY UpIs DEF Hears, Mirrored
  <2>2. reading \in Reading /\ FieldOf(reading.of) = f
    BY <2>1 DEF Known
  <2> HIDE DEF reading
  <2>3. reading # NoObject /\ reading.of \in Sources
    BY <2>2, Values DEF Reading
  <2>4. Silent(instance[i].wire, reading.of)
    BY DEF Silent
  <2>5. reading.value = shows[reading.of]
    BY <2>1, <2>2, <2>3, <2>4 DEF Follows
  <2> QED  BY <2>2, <2>3, <2>5 DEF reading
<1> QED  BY <1>1, RuntimeInvariance, PTL

\* A connection that is up has its loops, and one torn down at rest has none.
THEOREM LoopsFollowConnection == RuntimeSpec => []PollingFollowsConnection
<1>1. RuntimeIInv => PollingFollowsConnection
  <2> SUFFICES ASSUME RuntimeIInv, NEW i \in Objects, Used(i)
               PROVE  /\ Up(i) /\ instance[i].phase = "running" =>
                           instance[i].stats /\ instance[i].screenshot # "off"
                      /\ instance[i].torn = "quiet" =>
                           ~instance[i].stats /\ instance[i].screenshot = "off"
    BY DEF PollingFollowsConnection
  <2>1. Sound(instance[i], i = stored, shows) /\ (Up(i) => Hears(instance[i], shows))
    BY UpIs
  <2> QED  BY <2>1 DEF Sound, Hears
<1> QED  BY <1>1, RuntimeInvariance, PTL

-----------------------------------------------------------------------------
(***************************************************************************)
(* The ticks of the stream scheduler.                                      *)
(*                                                                         *)
(* That a schedule is acted on once rests on where its call is known: in   *)
(* its row, in the tick that is about to mark it, or in the marks that     *)
(* failed; and every tick has crossed the calls made since it read.        *)
(***************************************************************************)
\* The ticks and all other requests are only about the stream.
StreamOnly == \A c \in Clients : handler[c] # Idle => handler[c].slot = "stream"

\* A schedule that a tick is to act on is not the one it acts on now, unless it acts on none.
Takes(k) ==
  /\ k.step = "next" <=> k.call = None
  /\ k.call \notin k.todo

\* What a tick has yet to call for has not been called for since it was read, unless the tick
\* of that call had not marked it or could not.
Fresh(k, done, lost) ==
  \A s \in Schedules :
    /\ s \in k.todo \/ (k.step = "call" /\ k.call = s)
    /\ k.op \in done[s]
    => s \in k.crossed \cup lost

Marking(k, s, op) == k # Resting /\ k.step = "mark" /\ k.call = s /\ k.op = op

\* The row of a schedule keeps the queries from finding it for this call again.
Shut(row, op) == row # None /\ IF op = "start" THEN row.isExecuted ELSE ~row.isEnabled

\* A call that succeeded is marked, about to be marked, or could not be marked.
CallsAreMarked ==
  \A s \in Schedules, op \in {"start", "stop"} :
    op \in acted[s] /\ s \notin unmarked =>
      Shut(schedule[s], op) \/ \E t \in Ticks : Marking(tick[t], s, op)

SchedulerIInv ==
  /\ SchedulerTypeOK
  /\ acted \in [Schedules -> SUBSET {"start", "stop"}]
  /\ unmarked \subseteq Schedules
  /\ StreamOnly
  /\ \A t \in Ticks : tick[t] # Resting => Takes(tick[t]) /\ Fresh(tick[t], acted, unmarked)
  /\ CallsAreMarked

LEMMA RestingIsNoTick == \A k \in Ticking : k # Resting
  BY DEF Ticking, Resting

LEMMA StreamIsCloud == "stream" \in Cloud /\ "stream" \in Slots /\ "stream" \notin Destinations
  BY ConstantsAssumption DEF Cloud, Slots

LEMMA CountedType ==
  ASSUME TypeOK, Request \/ Fails \/ Succeeds, UNCHANGED <<running, rows, synced, handler>>
  PROVE  TypeOK'
  BY CountersType, HoldingKept DEF TypeOK, rows

\* The first statement of a call.
LEMMA CallBegins ==
  ASSUME TypeOK, StreamOnly, NEW c \in Clients,
         StartReads(c, "stream") \/ StopReads(c, "stream")
  PROVE  /\ TypeOK' /\ StreamOnly'
         /\ handler[c] = Idle /\ handler'[c] # Idle
         /\ \A b \in Clients \ {c} : handler'[b] = handler[b]
<1>1. TypeOK' /\ handler[c] = Idle
  BY StartReadsType, StopReadsType, StreamIsCloud DEF StartReads, StopReads
<1>2. PICK h : /\ handler' = [handler EXCEPT ![c] = h]
               /\ h # Idle /\ h.slot = "stream"
  <2>1. CASE StartReads(c, "stream")
    <3> DEFINE h == [op |-> "start", slot |-> "stream", seen |-> noted, egress |-> None,
                     step |-> IF "stream" \in Destinations /\ ~app THEN "mark" ELSE "egress"]
    <3>1. handler' = [handler EXCEPT ![c] = h]
      BY <2>1 DEF StartReads
    <3>2. h # Idle /\ h.slot = "stream"
      BY DEF Idle
    <3> HIDE DEF h
    <3> QED  BY <3>1, <3>2
  <2>2. CASE StopReads(c, "stream")
    <3> DEFINE egress == IF "stream" \in Cloud THEN column["stream"]
                         ELSE IF app THEN noted["stream"] ELSE None
               h == [op |-> "stop", slot |-> "stream", seen |-> noted, egress |-> egress,
                     step |-> IF egress = None THEN "mark" ELSE "egress"]
    <3>1. handler' = [handler EXCEPT ![c] = h]
      BY <2>2 DEF StopReads
    <3> HIDE DEF egress
    <3>2. h # Idle /\ h.slot = "stream"
      BY DEF Idle
    <3> HIDE DEF h
    <3> QED  BY <3>1, <3>2
  <2> QED  BY <2>1, <2>2
<1>3. handler'[c] = h /\ \A b \in Clients \ {c} : handler'[b] = handler[b]
  BY <1>2 DEF TypeOK
<1>4. StreamOnly'
  BY <1>2, <1>3 DEF StreamOnly
<1> QED  BY <1>1, <1>2, <1>3, <1>4

\* A statement of a call but its last.
LEMMA CallGoesOn ==
  ASSUME TypeOK, StreamOnly, NEW c \in Clients, EgressStarts(c) \/ EgressStops(c) \/ StoreFails(c)
  PROVE  /\ TypeOK' /\ StreamOnly'
         /\ handler[c] # Idle /\ handler'[c] # Idle
         /\ \A b \in Clients \ {c} : handler'[b] = handler[b]
<1>1. TypeOK' /\ handler[c] # Idle /\ handler[c].slot = "stream" /\ handler[c] \in Handling
  BY EgressStartsType, EgressStopsType, StoreFailsType
     DEF EgressStarts, EgressStops, StoreFails, At, StreamOnly, TypeOK
<1>2. /\ handler'[c] # Idle /\ handler'[c].slot = "stream"
      /\ \A b \in Clients \ {c} : handler'[b] = handler[b]
  <2>1. CASE EgressStarts(c)
    <3>1. PICK e \in Egresses : handler' = [handler EXCEPT ![c].egress = e, ![c].step = "write"]
      BY <2>1 DEF EgressStarts
    <3> DEFINE h == [handler[c] EXCEPT !.egress = e, !.step = "write"]
    <3>2. h \in Handling /\ h.slot = "stream"
      BY <1>1 DEF Handling
    <3>3. handler' = [handler EXCEPT ![c] = h]
      BY <1>1, <3>1 DEF TypeOK
    <3> HIDE DEF h
    <3> QED  BY <3>2, <3>3, IdleIsNoRequest DEF TypeOK
  <2>2. CASE EgressStops(c) \/ StoreFails(c)
    <3>1. Advances(c, "write") \/ Advances(c, "rollback")
      BY <1>1, <2>2 DEF EgressStops, StoreFails
    <3> QED  BY <1>1, <3>1, AdvancesEffect DEF Steps
  <2> QED  BY <2>1, <2>2
<1>3. StreamOnly'
  BY <1>2 DEF StreamOnly
<1> QED  BY <1>1, <1>2, <1>3

\* The last statement of a call.
LEMMA CallReturns ==
  ASSUME TypeOK, StreamOnly, NEW c \in Clients,
         \/ EgressIsStored(c) \/ StopIsStored(c)
         \/ EgressStartFails(c) \/ RollsBack(c) \/ StopStoreFails(c)
  PROVE  /\ TypeOK' /\ StreamOnly'
         /\ handler[c] # Idle /\ handler'[c] = Idle
         /\ \A b \in Clients \ {c} : handler'[b] = handler[b]
<1>1. TypeOK' /\ handler[c] # Idle
  BY StoredType, CallFailsType
     DEF EgressIsStored, StopIsStored, EgressStartFails, RollsBack, StopStoreFails, At
<1>2. handler[c].slot \in Cloud
  BY <1>1, StreamIsCloud DEF StreamOnly
<1>3. Ends(c)
  BY <1>2 DEF EgressIsStored, StopIsStored, EgressStartFails, RollsBack, StopStoreFails
<1>4. handler'[c] = Idle /\ \A b \in Clients \ {c} : handler'[b] = handler[b]
  BY <1>3, EndsEffect
<1>5. StreamOnly'
  BY <1>4 DEF StreamOnly
<1> QED  BY <1>1, <1>4, <1>5

-----------------------------------------------------------------------------
\* One tick goes on; what has been called for and marked stays.
LEMMA OneTick ==
  ASSUME SchedulerIInv, TypeOK', StreamOnly', NEW t \in Ticks, NEW new \in Ticking \cup {Resting},
         \A b \in Ticks \ {t} : handler'[b] # Idle <=> handler[b] # Idle,
         tick' = [tick EXCEPT ![t] = new], UNCHANGED <<schedule, acted, unmarked>>,
         handler'[t] # Idle <=> new # Resting /\ new.step = "call",
         tick[t] = Resting \/ tick[t].step # "mark",
         new # Resting => Takes(new) /\ Fresh(new, acted, unmarked)
  PROVE  SchedulerIInv'
<1>1. /\ tick' \in [Ticks -> Ticking \cup {Resting}]
      /\ tick'[t] = new /\ \A o \in Ticks \ {t} : tick'[o] = tick[o]
  BY DEF SchedulerIInv, SchedulerTypeOK
<1>2. \A b \in Ticks : handler'[b] # Idle <=> tick'[b] # Resting /\ tick'[b].step = "call"
  <2> SUFFICES ASSUME NEW b \in Ticks
               PROVE  handler'[b] # Idle <=> tick'[b] # Resting /\ tick'[b].step = "call"
    OBVIOUS
  <2>1. CASE b = t
    BY <1>1, <2>1
  <2>2. CASE b # t
    BY <1>1, <2>2 DEF SchedulerIInv, SchedulerTypeOK
  <2> QED  BY <2>1, <2>2
<1>3. SchedulerTypeOK'
  BY <1>1, <1>2 DEF SchedulerIInv, SchedulerTypeOK
<1>4. \A o \in Ticks : tick'[o] # Resting => Takes(tick'[o]) /\ Fresh(tick'[o], acted, unmarked)
  BY <1>1 DEF SchedulerIInv
<1>5. ASSUME NEW o \in Ticks, NEW s, NEW op, Marking(tick[o], s, op)
      PROVE  Marking(tick'[o], s, op)
  BY <1>1, <1>5 DEF Marking
<1>6. CallsAreMarked'
  BY <1>5 DEF SchedulerIInv, CallsAreMarked
<1> QED  BY <1>3, <1>4, <1>6 DEF SchedulerIInv

LEMMA TickBeginsStep ==
  ASSUME SchedulerIInv, NEW t \in Ticks, TickBegins(t)
  PROVE  SchedulerIInv'
<1> DEFINE todo == {s \in Schedules : schedule[s] # None /\ schedule[s].isEnabled
                                      /\ ~schedule[s].isExecuted /\ schedule[s].over # "none"}
           new == [op |-> "start", ended |-> Ended, crossed |-> Unmarked, call |-> None,
                   step |-> "next", todo |-> todo]
<1>1. /\ tick[t] = Resting /\ tick' = [tick EXCEPT ![t] = new]
      /\ UNCHANGED vars /\ UNCHANGED <<schedule, acted, unmarked>>
  BY DEF TickBegins
<1>2. /\ todo \subseteq Schedules
      /\ \A s \in todo : schedule[s] # None /\ ~schedule[s].isExecuted
  OBVIOUS
<1> HIDE DEF todo
<1>3. Unmarked \cap Schedules \subseteq Schedules /\ Unmarked \subseteq Schedules
  BY RestingIsNoTick DEF Unmarked, SchedulerIInv, SchedulerTypeOK, Takes, Ticking
<1>4. Ended \subseteq Schedules
  BY DEF Ended
<1>5. new \in Ticking /\ new # Resting
  BY <1>2, <1>3, <1>4 DEF Ticking, Resting
<1>6. Takes(new)
  BY <1>2, SchedulerAssumption DEF Takes
<1>7. /\ new.op = "start" /\ new.step = "next" /\ new.todo = todo /\ new.crossed = Unmarked
  OBVIOUS
<1> HIDE DEF new
<1>8. Fresh(new, acted, unmarked)
  <2> SUFFICES ASSUME NEW s \in Schedules, s \in todo, "start" \in acted[s], s \notin unmarked
               PROVE  s \in Unmarked
    BY <1>7 DEF Fresh
  <2>1. PICK o \in Ticks : Marking(tick[o], s, "start")
    BY <1>2 DEF SchedulerIInv, CallsAreMarked, Shut
  <2> QED  BY <2>1 DEF Marking, Unmarked
<1>9. TypeOK' /\ StreamOnly' /\ handler' = handler /\ handler[t] = Idle
  <2>1. Succeeds /\ UNCHANGED <<running, rows, synced, handler>>
    BY <1>1 DEF vars, rows, Succeeds
  <2> QED  BY <1>1, <2>1, CountedType DEF SchedulerIInv, SchedulerTypeOK, StreamOnly
<1> QED  BY <1>1, <1>5, <1>6, <1>7, <1>8, <1>9, OneTick

LEMMA TickTurnsStep ==
  ASSUME SchedulerIInv, NEW t \in Ticks, TickTurnsToStops(t)
  PROVE  SchedulerIInv'
<1> DEFINE todo == {s \in Ended \cap tick[t].ended :
                      schedule[s].isEnabled /\ schedule[s].isExecuted}
           new == [tick[t] EXCEPT !.op = "stop", !.crossed = Unmarked, !.todo = todo]
<1>1. /\ tick[t] \in Ticking /\ tick[t] # Resting /\ tick[t].step = "next"
      /\ UNCHANGED vars /\ UNCHANGED <<schedule, acted, unmarked>>
  BY DEF TickTurnsToStops, Is, SchedulerIInv, SchedulerTypeOK
<1>2. tick' = [tick EXCEPT ![t] = new]
  BY <1>1 DEF TickTurnsToStops, SchedulerIInv, SchedulerTypeOK
<1>3. /\ todo \subseteq Schedules
      /\ \A s \in todo : schedule[s] # None /\ schedule[s].isEnabled
  BY DEF Ended
<1> HIDE DEF todo
<1>4. Unmarked \subseteq Schedules
  BY RestingIsNoTick DEF Unmarked, SchedulerIInv, SchedulerTypeOK, Takes, Ticking
<1>5. /\ new \in Ticking
      /\ new.op = "stop" /\ new.step = "next" /\ new.todo = todo /\ new.crossed = Unmarked
      /\ new.call = tick[t].call
  BY <1>1, <1>3, <1>4 DEF Ticking
<1> HIDE DEF new
<1>6. new # Resting
  BY <1>5, RestingIsNoTick
<1>7. Takes(new)
  <2>1. tick[t].call = None
    BY <1>1 DEF SchedulerIInv, Takes
  <2> QED  BY <1>3, <1>5, <2>1, SchedulerAssumption DEF Takes
<1>8. Fresh(new, acted, unmarked)
  <2> SUFFICES ASSUME NEW s \in Schedules, s \in todo, "stop" \in acted[s], s \notin unmarked
               PROVE  s \in Unmarked
    BY <1>5 DEF Fresh
  <2>1. PICK o \in Ticks : Marking(tick[o], s, "stop")
    BY <1>3 DEF SchedulerIInv, CallsAreMarked, Shut
  <2> QED  BY <2>1 DEF Marking, Unmarked
<1>9. TypeOK' /\ StreamOnly' /\ handler' = handler /\ handler[t] = Idle
  <2>1. Succeeds /\ UNCHANGED <<running, rows, synced, handler>>
    BY <1>1 DEF vars, rows, Succeeds
  <2> QED  BY <1>1, <2>1, CountedType DEF SchedulerIInv, SchedulerTypeOK, StreamOnly
<1> QED  BY <1>1, <1>2, <1>5, <1>6, <1>7, <1>8, <1>9, OneTick

LEMMA TickEndsStep ==
  ASSUME SchedulerIInv, NEW t \in Ticks, TickEnds(t)
  PROVE  SchedulerIInv'
<1>1. /\ tick[t].step = "next" /\ tick' = [tick EXCEPT ![t] = Resting]
      /\ UNCHANGED vars /\ UNCHANGED <<schedule, acted, unmarked>>
  BY DEF TickEnds, Is
<1>2. TypeOK' /\ StreamOnly' /\ handler' = handler /\ handler[t] = Idle
  <2>1. Succeeds /\ UNCHANGED <<running, rows, synced, handler>>
    BY <1>1 DEF vars, rows, Succeeds
  <2> QED  BY <1>1, <2>1, CountedType DEF SchedulerIInv, SchedulerTypeOK, StreamOnly
<1> QED  BY <1>1, <1>2, OneTick

LEMMA TickCallsStep ==
  ASSUME SchedulerIInv, NEW t \in Ticks, NEW s \in Schedules, TickCalls(t, s)
  PROVE  SchedulerIInv'
<1>1. /\ tick[t] \in Ticking /\ tick[t] # Resting /\ tick[t].step = "next" /\ s \in tick[t].todo
      /\ tick[t].call = None /\ t \in Clients /\ TypeOK /\ StreamOnly
      /\ Fresh(tick[t], acted, unmarked)
      /\ UNCHANGED <<schedule, acted, unmarked>>
  BY SchedulerAssumption DEF TickCalls, SchedulerIInv, SchedulerTypeOK, Takes
<1>2. CASE Accepts(tick[t].op)
  <2> DEFINE new == [tick[t] EXCEPT !.todo = @ \ {s}, !.call = s, !.step = "call"]
  <2>1. StartReads(t, "stream") \/ StopReads(t, "stream")
    BY <1>2 DEF TickCalls
  <2>2. tick' = [tick EXCEPT ![t] = new]
    BY <1>1, <1>2 DEF TickCalls, SchedulerIInv, SchedulerTypeOK
  <2>3. /\ new \in Ticking /\ new.op = tick[t].op /\ new.todo = tick[t].todo \ {s}
        /\ new.call = s /\ new.step = "call" /\ new.crossed = tick[t].crossed
    BY <1>1 DEF Ticking
  <2> HIDE DEF new
  <2>4. new # Resting
    BY <2>3, RestingIsNoTick
  <2>5. Takes(new)
    BY <2>3, SchedulerAssumption DEF Takes
  <2>6. Fresh(new, acted, unmarked)
    BY <1>1, <2>3 DEF Fresh
  <2>7. /\ TypeOK' /\ StreamOnly' /\ handler'[t] # Idle
        /\ \A b \in Clients \ {t} : handler'[b] = handler[b]
    BY <1>1, <2>1, CallBegins
  <2> QED  BY <1>1, <2>2, <2>3, <2>4, <2>5, <2>6, <2>7, SchedulerAssumption, OneTick
<1>3. CASE ~Accepts(tick[t].op)
  <2> DEFINE new == [tick[t] EXCEPT !.todo = @ \ {s}]
  <2>1. UNCHANGED vars /\ tick' = [tick EXCEPT ![t] = new]
    BY <1>1, <1>3 DEF TickCalls, SchedulerIInv, SchedulerTypeOK
  <2>2. /\ new \in Ticking /\ new.op = tick[t].op /\ new.todo = tick[t].todo \ {s}
        /\ new.call = None /\ new.step = "next" /\ new.crossed = tick[t].crossed
    BY <1>1 DEF Ticking
  <2> HIDE DEF new
  <2>3. new # Resting
    BY <2>2, RestingIsNoTick
  <2>4. None \notin tick[t].todo
    BY <1>1, SchedulerAssumption DEF Ticking
  <2>5. Takes(new) /\ Fresh(new, acted, unmarked)
    BY <1>1, <2>2, <2>4 DEF Fresh, Takes
  <2>6. TypeOK' /\ StreamOnly' /\ handler' = handler /\ handler[t] = Idle
    <3>1. Succeeds /\ UNCHANGED <<running, rows, synced, handler>>
      BY <2>1 DEF vars, rows, Succeeds
    <3> QED  BY <1>1, <3>1, CountedType DEF SchedulerIInv, SchedulerTypeOK, StreamOnly
  <2> QED  BY <1>1, <2>1, <2>2, <2>3, <2>5, <2>6, OneTick
<1> QED  BY <1>2, <1>3

LEMMA TickCallFailsStep ==
  ASSUME SchedulerIInv, NEW t \in Ticks, TickCallFails(t)
  PROVE  SchedulerIInv'
<1>1. /\ TypeOK /\ StreamOnly /\ t \in Clients
      /\ UNCHANGED <<schedule, acted, unmarked>>
  BY SchedulerAssumption DEF TickCallFails, SchedulerIInv, SchedulerTypeOK
<1>2. /\ TypeOK' /\ StreamOnly' /\ handler[t] # Idle /\ handler'[t] = Idle
      /\ \A b \in Clients \ {t} : handler'[b] = handler[b]
  BY <1>1, CallReturns DEF TickCallFails
<1>3. /\ tick[t] # Resting /\ tick[t].step = "call" /\ tick[t] \in Ticking
      /\ Fresh(tick[t], acted, unmarked)
  BY <1>2 DEF SchedulerIInv, SchedulerTypeOK
<1> DEFINE new == [tick[t] EXCEPT !.call = None, !.step = "next"]
<1>4. tick' = [tick EXCEPT ![t] = new]
  BY <1>3 DEF TickCallFails, SchedulerIInv, SchedulerTypeOK
<1>5. /\ new \in Ticking /\ new.op = tick[t].op /\ new.todo = tick[t].todo
      /\ new.call = None /\ new.step = "next" /\ new.crossed = tick[t].crossed
      /\ tick[t].todo \subseteq Schedules
  BY <1>3 DEF Ticking
<1> HIDE DEF new
<1>6. new # Resting
  BY <1>5, RestingIsNoTick
<1>7. Takes(new) /\ Fresh(new, acted, unmarked)
  BY <1>3, <1>5, SchedulerAssumption DEF Takes, Fresh
<1> QED  BY <1>1, <1>2, <1>3, <1>4, <1>5, <1>6, <1>7, SchedulerAssumption, OneTick

\* A step of others, and inside of a call.
LEMMA HandlersGoOn ==
  ASSUME SchedulerIInv, TypeOK', StreamOnly',
         \A b \in Ticks : handler'[b] # Idle <=> handler[b] # Idle,
         UNCHANGED <<schedule, tick, acted, unmarked>>
  PROVE  SchedulerIInv'
<1>1. SchedulerTypeOK'
  BY DEF SchedulerIInv, SchedulerTypeOK
<1>2. CallsAreMarked'
  BY DEF SchedulerIInv, CallsAreMarked
<1> QED  BY <1>1, <1>2 DEF SchedulerIInv

LEMMA TickAwaitsStep ==
  ASSUME SchedulerIInv, NEW t \in Ticks, TickAwaits(t)
  PROVE  SchedulerIInv'
<1>1. TypeOK /\ StreamOnly /\ t \in Clients /\ Ticks \subseteq Clients
      /\ UNCHANGED <<schedule, tick, acted, unmarked>>
  BY SchedulerAssumption DEF TickAwaits, SchedulerIInv, SchedulerTypeOK
<1>2. /\ TypeOK' /\ StreamOnly' /\ handler[t] # Idle /\ handler'[t] # Idle
      /\ \A b \in Clients \ {t} : handler'[b] = handler[b]
  BY <1>1, CallGoesOn DEF TickAwaits
<1> QED  BY <1>1, <1>2, HandlersGoOn

LEMMA OthersStep ==
  ASSUME SchedulerIInv, Others
  PROVE  SchedulerIInv'
<1>1. TypeOK /\ StreamOnly /\ Ticks \subseteq Clients
      /\ UNCHANGED <<schedule, tick, acted, unmarked>>
  BY SchedulerAssumption DEF Others, SchedulerIInv, SchedulerTypeOK
<1>2. ASSUME NEW c \in Clients \ Ticks,
             \/ StartReads(c, "stream") \/ StopReads(c, "stream")
             \/ EgressStarts(c) \/ EgressIsStored(c) \/ EgressStops(c) \/ StopIsStored(c)
      PROVE  SchedulerIInv'
  <2>1. /\ TypeOK' /\ StreamOnly'
        /\ \A b \in Clients \ {c} : handler'[b] = handler[b]
    BY <1>1, <1>2, CallBegins, CallGoesOn, CallReturns
  <2> QED  BY <1>1, <1>2, <2>1, HandlersGoOn
<1>3. ASSUME NEW e \in Egresses, EgressEnds(e)
      PROVE  SchedulerIInv'
  <2>1. TypeOK' /\ handler' = handler
    BY <1>1, <1>3, SingleType
  <2>2. StreamOnly'
    BY <1>1, <2>1 DEF StreamOnly
  <2> QED  BY <1>1, <2>1, <2>2, HandlersGoOn
<1> QED  BY <1>2, <1>3 DEF Others

LEMMA TickCallSucceedsStep ==
  ASSUME SchedulerIInv, NEW t \in Ticks, TickCallSucceeds(t)
  PROVE  SchedulerIInv'
<1> DEFINE s == tick[t].call
           op == tick[t].op
<1>1. /\ TypeOK /\ StreamOnly /\ t \in Clients /\ Ticks \subseteq Clients
      /\ UNCHANGED <<schedule, unmarked>>
      /\ acted' = [acted EXCEPT ![s] = @ \cup {op}]
  BY SchedulerAssumption DEF TickCallSucceeds, SchedulerIInv, SchedulerTypeOK
<1>2. /\ TypeOK' /\ StreamOnly' /\ handler[t] # Idle /\ handler'[t] = Idle
      /\ \A b \in Clients \ {t} : handler'[b] = handler[b]
  BY <1>1, CallReturns DEF TickCallSucceeds
<1>3. /\ tick[t] # Resting /\ tick[t].step = "call" /\ tick[t] \in Ticking
      /\ Fresh(tick[t], acted, unmarked) /\ Takes(tick[t])
  BY <1>2 DEF SchedulerIInv, SchedulerTypeOK
<1>4. /\ s \in Schedules /\ op \in {"start", "stop"} /\ s \notin tick[t].todo /\ s # None
      /\ s = tick[t].call /\ op = tick[t].op
  BY <1>3 DEF Ticking, Takes
<1> DEFINE own == [tick[t] EXCEPT !.step = "mark"]
           other(o) == [tick[o] EXCEPT !.crossed = @ \cup {s}]
<1>5. tick' = [o \in Ticks |-> CASE o = t -> own [] tick[o] = Resting -> Resting
                                 [] OTHER -> other(o)]
  BY DEF TickCallSucceeds
<1>6. /\ own \in Ticking /\ own.op = op /\ own.todo = tick[t].todo /\ own.call = s
      /\ own.step = "mark" /\ own.crossed = tick[t].crossed
  BY <1>3 DEF Ticking
<1>7. ASSUME NEW o \in Ticks, tick[o] # Resting
      PROVE  /\ other(o) \in Ticking /\ other(o).op = tick[o].op /\ other(o).todo = tick[o].todo
             /\ other(o).call = tick[o].call /\ other(o).step = tick[o].step
             /\ other(o).crossed = tick[o].crossed \cup {s}
  <2>1. tick[o] \in Ticking
    BY <1>7 DEF SchedulerIInv, SchedulerTypeOK
  <2> QED  BY <1>4, <2>1 DEF Ticking
<1>8. own # Resting /\ \A o \in Ticks : tick[o] # Resting => other(o) # Resting
  BY <1>6, <1>7, RestingIsNoTick
<1> HIDE DEF own, other
<1>9. /\ tick'[t] = own
      /\ \A o \in Ticks \ {t} : tick[o] = Resting => tick'[o] = Resting
      /\ \A o \in Ticks \ {t} : tick[o] # Resting => tick'[o] = other(o)
  BY <1>3, <1>5
<1>10. tick' \in [Ticks -> Ticking \cup {Resting}]
  BY <1>5, <1>6, <1>7
<1>11. /\ acted' \in [Schedules -> SUBSET {"start", "stop"}]
       /\ acted'[s] = acted[s] \cup {op}
       /\ \A r \in Schedules \ {s} : acted'[r] = acted[r]
  BY <1>1, <1>4 DEF SchedulerIInv
<1> HIDE DEF s, op
<1>12. \A b \in Ticks : handler'[b] # Idle <=> tick'[b] # Resting /\ tick'[b].step = "call"
  <2> SUFFICES ASSUME NEW b \in Ticks
               PROVE  handler'[b] # Idle <=> tick'[b] # Resting /\ tick'[b].step = "call"
    OBVIOUS
  <2>1. CASE b = t
    BY <1>2, <1>6, <1>9, <2>1
  <2>2. CASE b # t /\ tick[b] = Resting
    BY <1>1, <1>2, <1>9, <2>2 DEF SchedulerIInv, SchedulerTypeOK
  <2>3. CASE b # t /\ tick[b] # Resting
    BY <1>1, <1>2, <1>7, <1>8, <1>9, <2>3 DEF SchedulerIInv, SchedulerTypeOK
  <2> QED  BY <2>1, <2>2, <2>3
<1>13. SchedulerTypeOK'
  BY <1>1, <1>2, <1>10, <1>12 DEF SchedulerIInv, SchedulerTypeOK
<1>14. ASSUME NEW o \in Ticks, tick'[o] # Resting
       PROVE  Takes(tick'[o]) /\ Fresh(tick'[o], acted', unmarked)
  <2>1. CASE o = t
    <3>1. Takes(own)
      BY <1>4, <1>6 DEF Takes
    <3>2. Fresh(own, acted', unmarked)
      BY <1>3, <1>4, <1>6, <1>11 DEF Fresh
    <3> QED  BY <1>9, <2>1, <3>1, <3>2
  <2>2. CASE o # t
    <3>1. tick[o] # Resting /\ tick'[o] = other(o)
      BY <1>9, <1>14, <2>2
    <3>2. Takes(tick[o]) /\ Fresh(tick[o], acted, unmarked)
      BY <3>1 DEF SchedulerIInv
    <3>3. Takes(other(o))
      BY <1>7, <3>1, <3>2 DEF Takes
    <3>4. Fresh(other(o), acted', unmarked)
      BY <1>7, <1>11, <3>1, <3>2 DEF Fresh
    <3> QED  BY <3>1, <3>3, <3>4
  <2> QED  BY <2>1, <2>2
<1>15. CallsAreMarked'
  <2> SUFFICES ASSUME NEW r \in Schedules, NEW p \in {"start", "stop"},
                      p \in acted'[r], r \notin unmarked
               PROVE  Shut(schedule[r], p) \/ \E o \in Ticks : Marking(tick'[o], r, p)
    BY <1>1 DEF CallsAreMarked
  <2>1. CASE r = s /\ p = op
    BY <1>6, <1>8, <1>9, <2>1 DEF Marking
  <2>2. CASE ~(r = s /\ p = op)
    <3>1. p \in acted[r]
      BY <1>11, <2>2
    <3>2. Shut(schedule[r], p) \/ \E o \in Ticks : Marking(tick[o], r, p)
      BY <3>1 DEF SchedulerIInv, CallsAreMarked
    <3>3. ASSUME NEW o \in Ticks, Marking(tick[o], r, p)  PROVE Marking(tick'[o], r, p)
      <4>1. o # t /\ tick[o] # Resting
        BY <1>3, <3>3 DEF Marking
      <4> QED  BY <1>7, <1>8, <1>9, <3>3, <4>1 DEF Marking
    <3> QED  BY <3>2, <3>3
  <2> QED  BY <2>1, <2>2
<1> QED  BY <1>1, <1>11, <1>2, <1>13, <1>14, <1>15 DEF SchedulerIInv

\* What a mark does to the row of the schedule: it is shut for the call, and stays shut for the
\* other.
LEMMA MarkedEffect ==
  ASSUME schedule \in [Schedules -> StreamSchedule \cup {None}],
         NEW s \in Schedules, schedule[s] # None, NEW op \in {"start", "stop"}
  PROVE  /\ Marked(s, op) \in [Schedules -> StreamSchedule \cup {None}]
         /\ Shut(Marked(s, op)[s], op)
         /\ \A r \in Schedules, p \in {"start", "stop"} :
              Shut(schedule[r], p) => Shut(Marked(s, op)[r], p)
<1>1. schedule[s] \in StreamSchedule
  OBVIOUS
<1> DEFINE new == IF op = "start" THEN [schedule[s] EXCEPT !.isExecuted = TRUE]
                  ELSE [schedule[s] EXCEPT !.isEnabled = FALSE]
<1>2. Marked(s, op) = [schedule EXCEPT ![s] = new]
  BY DEF Marked
<1>3. /\ new \in StreamSchedule
      /\ new.over = schedule[s].over
      /\ new.isExecuted = (IF op = "start" THEN TRUE ELSE schedule[s].isExecuted)
      /\ new.isEnabled = (IF op = "start" THEN schedule[s].isEnabled ELSE FALSE)
  BY <1>1 DEF StreamSchedule
<1>4. new # None
  BY <1>3, NoScheduleIsNoRow
<1> HIDE DEF new
<1> QED  BY <1>2, <1>3, <1>4 DEF Shut

LEMMA TickMarksStep ==
  ASSUME SchedulerIInv, NEW t \in Ticks, TickMarks(t)
  PROVE  SchedulerIInv'
<1> DEFINE s == tick[t].call
           op == tick[t].op
           new == [tick[t] EXCEPT !.call = None, !.step = "next"]
<1>1. /\ tick[t] # Resting /\ tick[t].step = "mark" /\ tick[t] \in Ticking
      /\ Fresh(tick[t], acted, unmarked) /\ Takes(tick[t])
      /\ schedule \in [Schedules -> StreamSchedule \cup {None}]
  BY DEF TickMarks, SchedulerIInv, SchedulerTypeOK
<1>2. /\ s \in Schedules /\ op \in {"start", "stop"}
      /\ s = tick[t].call /\ op = tick[t].op
  BY <1>1 DEF Ticking, Takes
<1>3. tick' = [tick EXCEPT ![t] = new] /\ acted' = acted
  BY <1>1 DEF TickMarks, SchedulerIInv, SchedulerTypeOK
<1>4. /\ new \in Ticking /\ new.op = op /\ new.todo = tick[t].todo
      /\ new.call = None /\ new.step = "next" /\ new.crossed = tick[t].crossed
      /\ new.todo \subseteq Schedules
  BY <1>1 DEF Ticking
<1>5. \/ /\ schedule[s] # None /\ schedule' = Marked(s, op) /\ UNCHANGED <<vars, unmarked>>
      \/ /\ Succeeds \/ Fails
         /\ unmarked' = unmarked \cup {s} /\ UNCHANGED <<running, rows, synced, handler, schedule>>
  BY DEF TickMarks
<1> HIDE DEF s, op, new
<1>6. TypeOK' /\ StreamOnly' /\ handler' = handler
  <2>1. (Succeeds \/ Fails) /\ UNCHANGED <<running, rows, synced, handler>>
    BY <1>5 DEF vars, rows, Succeeds
  <2> QED  BY <2>1, CountedType DEF SchedulerIInv, SchedulerTypeOK, StreamOnly
<1>7. /\ schedule' \in [Schedules -> StreamSchedule \cup {None}]
      /\ unmarked' \subseteq Schedules /\ unmarked \subseteq unmarked'
      /\ s \in unmarked' \/ Shut(schedule'[s], op)
      /\ \A r \in Schedules, p \in {"start", "stop"} : Shut(schedule[r], p) => Shut(schedule'[r], p)
  BY <1>1, <1>2, <1>5, MarkedEffect DEF SchedulerIInv
<1>8. /\ tick' \in [Ticks -> Ticking \cup {Resting}]
      /\ tick'[t] = new /\ new # Resting /\ \A o \in Ticks \ {t} : tick'[o] = tick[o]
  BY <1>3, <1>4, RestingIsNoTick DEF SchedulerIInv, SchedulerTypeOK
<1>9. \A b \in Ticks : handler'[b] # Idle <=> tick'[b] # Resting /\ tick'[b].step = "call"
  BY <1>1, <1>4, <1>6, <1>8 DEF SchedulerIInv, SchedulerTypeOK
<1>10. SchedulerTypeOK'
  BY <1>6, <1>7, <1>8, <1>9 DEF SchedulerTypeOK
<1>11. ASSUME NEW o \in Ticks, tick'[o] # Resting
       PROVE  Takes(tick'[o]) /\ Fresh(tick'[o], acted, unmarked')
  <2>1. CASE o = t
    <3>1. Takes(new)
      BY <1>4, SchedulerAssumption DEF Takes
    <3>2. Fresh(new, acted, unmarked')
      BY <1>1, <1>2, <1>4, <1>7 DEF Fresh
    <3> QED  BY <1>8, <2>1, <3>1, <3>2
  <2>2. CASE o # t
    <3>1. Takes(tick[o]) /\ Fresh(tick[o], acted, unmarked) /\ tick'[o] = tick[o]
      BY <1>8, <1>11, <2>2 DEF SchedulerIInv
    <3>2. Fresh(tick[o], acted, unmarked')
      BY <1>7, <3>1 DEF Fresh
    <3> QED  BY <3>1, <3>2
  <2> QED  BY <2>1, <2>2
<1>12. CallsAreMarked'
  <2> SUFFICES ASSUME NEW r \in Schedules, NEW p \in {"start", "stop"},
                      p \in acted[r], r \notin unmarked'
               PROVE  Shut(schedule'[r], p) \/ \E o \in Ticks : Marking(tick'[o], r, p)
    BY <1>3 DEF CallsAreMarked
  <2>1. Shut(schedule[r], p) \/ \E o \in Ticks : Marking(tick[o], r, p)
    BY <1>7 DEF SchedulerIInv, CallsAreMarked
  <2>2. ASSUME NEW o \in Ticks, Marking(tick[o], r, p)
        PROVE  Shut(schedule'[r], p) \/ Marking(tick'[o], r, p)
    <3>1. CASE o = t
      <4>1. r = s /\ p = op
        BY <1>2, <2>2, <3>1 DEF Marking
      <4> QED  BY <1>7, <4>1
    <3>2. CASE o # t
      BY <1>8, <2>2, <3>2
    <3> QED  BY <3>1, <3>2
  <2> QED  BY <1>7, <2>1, <2>2
<1> QED  BY <1>3, <1>6, <1>7, <1>10, <1>11, <1>12 DEF SchedulerIInv

LEMMA SetsScheduleStep ==
  ASSUME SchedulerIInv, NEW s \in Schedules, NEW new \in StreamSchedule \cup {None},
         SetsSchedule(s, new)
  PROVE  SchedulerIInv'
<1>1. /\ schedule' = [schedule EXCEPT ![s] = new] /\ acted' = [acted EXCEPT ![s] = {}]
      /\ UNCHANGED <<running, rows, synced, handler, tick, unmarked>> /\ Request
  BY DEF SetsSchedule
<1>2. TypeOK' /\ StreamOnly'
  BY <1>1, CountedType DEF SchedulerIInv, SchedulerTypeOK, StreamOnly
<1>3. /\ schedule' \in [Schedules -> StreamSchedule \cup {None}]
      /\ acted' \in [Schedules -> SUBSET {"start", "stop"}]
      /\ acted'[s] = {}
      /\ \A r \in Schedules \ {s} : schedule'[r] = schedule[r] /\ acted'[r] = acted[r]
  BY <1>1 DEF SchedulerIInv, SchedulerTypeOK
<1>4. SchedulerTypeOK'
  BY <1>1, <1>2, <1>3 DEF SchedulerIInv, SchedulerTypeOK
<1>5. ASSUME NEW t \in Ticks, tick[t] # Resting
      PROVE  Takes(tick[t]) /\ Fresh(tick[t], acted', unmarked)
  BY <1>3, <1>5 DEF SchedulerIInv, Fresh
<1>6. CallsAreMarked'
  BY <1>1, <1>3 DEF SchedulerIInv, CallsAreMarked
<1> QED  BY <1>1, <1>2, <1>3, <1>4, <1>5, <1>6 DEF SchedulerIInv

LEMMA TimePassesStep ==
  ASSUME SchedulerIInv, NEW s \in Schedules, TimePasses(s)
  PROVE  SchedulerIInv'
<1> DEFINE row == schedule[s]
<1>1. PICK over \in {"start", "end"} : schedule' = [schedule EXCEPT ![s].over = over]
  BY DEF TimePasses
<1>2. row \in StreamSchedule /\ UNCHANGED <<vars, tick, acted, unmarked>>
  BY DEF TimePasses, SchedulerIInv, SchedulerTypeOK
<1> DEFINE new == [row EXCEPT !.over = over]
<1>3. schedule' = [schedule EXCEPT ![s] = new]
  BY <1>1 DEF SchedulerIInv, SchedulerTypeOK
<1>4. /\ new \in StreamSchedule /\ new.isEnabled = row.isEnabled
      /\ new.isExecuted = row.isExecuted
  BY <1>2 DEF StreamSchedule
<1>5. new # None
  BY <1>4, NoScheduleIsNoRow
<1> HIDE DEF new
<1>6. /\ schedule' \in [Schedules -> StreamSchedule \cup {None}]
      /\ \A r \in Schedules, p \in {"start", "stop"} : Shut(schedule[r], p) => Shut(schedule'[r], p)
  BY <1>3, <1>4, <1>5 DEF SchedulerIInv, SchedulerTypeOK, Shut
<1>7. TypeOK' /\ StreamOnly' /\ handler' = handler
  <2>1. Succeeds /\ UNCHANGED <<running, rows, synced, handler>>
    BY <1>2 DEF vars, rows, Succeeds
  <2> QED  BY <2>1, CountedType DEF SchedulerIInv, SchedulerTypeOK, StreamOnly
<1>8. SchedulerTypeOK'
  BY <1>2, <1>6, <1>7 DEF SchedulerIInv, SchedulerTypeOK
<1>9. CallsAreMarked'
  BY <1>2, <1>6 DEF SchedulerIInv, CallsAreMarked
<1> QED  BY <1>2, <1>7, <1>8, <1>9 DEF SchedulerIInv

LEMMA SchedulerStays ==
  ASSUME SchedulerIInv, UNCHANGED schedulerVars
  PROVE  SchedulerIInv'
<1>1. UNCHANGED <<schedule, tick, acted, unmarked>> /\ UNCHANGED vars
  BY DEF schedulerVars
<1>2. TypeOK' /\ StreamOnly' /\ handler' = handler
  <2>1. Succeeds /\ UNCHANGED <<running, rows, synced, handler>>
    BY <1>1 DEF vars, rows, Succeeds
  <2> QED  BY <2>1, CountedType DEF SchedulerIInv, SchedulerTypeOK, StreamOnly
<1> QED  BY <1>1, <1>2, HandlersGoOn

LEMMA SchedulerStarts == SchedulerInit => SchedulerIInv
<1> SUFFICES ASSUME SchedulerInit  PROVE SchedulerIInv
  OBVIOUS
<1>1. TypeOK /\ \A c \in Clients : handler[c] = Idle
  BY InitType DEF SchedulerInit, Init
<1>2. /\ schedule \in [Schedules -> StreamSchedule \cup {None}]
      /\ tick \in [Ticks -> Ticking \cup {Resting}] /\ \A t \in Ticks : tick[t] = Resting
      /\ acted \in [Schedules -> SUBSET {"start", "stop"}] /\ \A s \in Schedules : acted[s] = {}
      /\ unmarked = {}
  BY DEF SchedulerInit, StreamSchedule
<1> QED  BY <1>1, <1>2, SchedulerAssumption
         DEF SchedulerIInv, SchedulerTypeOK, StreamOnly, CallsAreMarked

LEMMA SchedulerSteps ==
  ASSUME SchedulerIInv, [SchedulerNext]_schedulerVars
  PROVE  SchedulerIInv'
<1>1. ASSUME NEW t \in Ticks,
             \/ TickBegins(t) \/ TickTurnsToStops(t) \/ TickEnds(t)
             \/ \E s \in Schedules : TickCalls(t, s)
             \/ TickAwaits(t) \/ TickCallSucceeds(t) \/ TickCallFails(t) \/ TickMarks(t)
      PROVE  SchedulerIInv'
  BY <1>1, TickBeginsStep, TickTurnsStep, TickEndsStep, TickCallsStep, TickAwaitsStep,
     TickCallSucceedsStep, TickCallFailsStep, TickMarksStep
<1>2. ASSUME NEW s \in Schedules,
             TimePasses(s) \/ \E new \in StreamSchedule \cup {None} : SetsSchedule(s, new)
      PROVE  SchedulerIInv'
  BY <1>2, TimePassesStep, SetsScheduleStep
<1> QED  BY <1>1, <1>2, OthersStep, SchedulerStays DEF SchedulerNext

\* The invariant of the ticks is one: whatever ticks, other requests and LiveKit do
\* (stream-scheduler.service.ts).
THEOREM SchedulerInvariance == SchedulerSpec => []SchedulerIInv
  BY SchedulerStarts, SchedulerSteps, PTL DEF SchedulerSpec

\* The types of the schedules and ticks, and that a tick is in a call of CloudEgress exactly
\* when it awaits one, for any schedules and ticks.
THEOREM SchedulerTyped == SchedulerSpec => []SchedulerTypeOK
<1>1. SchedulerIInv => SchedulerTypeOK
  BY DEF SchedulerIInv
<1> QED  BY <1>1, SchedulerInvariance, PTL

\* A call that succeeds for a schedule it succeeded for before was read before the mark of that
\* one, or the mark failed: for any number of overlapping ticks (tick).
THEOREM SchedulesStartOnce == SchedulerSpec => SchedulesActOnce
<1> DEFINE ActsOnce(t) ==
      TickCallSucceeds(t) /\ tick[t].op \in acted[tick[t].call] =>
        tick[t].call \in tick[t].crossed \cup unmarked
<1>1. ASSUME SchedulerIInv, [SchedulerNext]_schedulerVars
      PROVE  [\A t \in Ticks : ActsOnce(t)]_schedulerVars
  <2> SUFFICES ASSUME NEW t \in Ticks, TickCallSucceeds(t), tick[t].op \in acted[tick[t].call]
               PROVE  tick[t].call \in tick[t].crossed \cup unmarked
    OBVIOUS
  <2>1. TypeOK /\ StreamOnly /\ t \in Clients
    BY <1>1, SchedulerAssumption DEF SchedulerIInv, SchedulerTypeOK
  <2>2. handler[t] # Idle
    BY <2>1, CallReturns DEF TickCallSucceeds
  <2>3. /\ tick[t] # Resting /\ tick[t].step = "call" /\ tick[t] \in Ticking
        /\ Fresh(tick[t], acted, unmarked) /\ Takes(tick[t])
    BY <1>1, <2>2 DEF SchedulerIInv, SchedulerTypeOK
  <2> QED  BY <2>3 DEF Fresh, Takes, Ticking
<1> QED  BY <1>1, SchedulerInvariance, PTL DEF SchedulerSpec, SchedulesActOnce

-----------------------------------------------------------------------------
(***************************************************************************)
(* The composition: what each component keeps, it keeps beside the others. *)
(***************************************************************************)
\* Whichever component moves, the others stutter.
LEMMA StudioImplementsComponents ==
  StudioSpec => SchedulerSpec /\ HubSpec /\ RuntimeSpec /\ GuestSpec /\ ScoreSpec
<1>1. StudioInit => SchedulerInit /\ HubInit /\ RuntimeInit /\ GuestInit /\ ScoreInit
  BY DEF StudioInit
<1>2. [StudioNext]_studioVars => /\ [SchedulerNext]_schedulerVars /\ [HubNext]_hubVars
                                 /\ [RuntimeNext]_runtimeVars /\ [GuestNext]_guestVars
                                 /\ [ScoreNext]_scoreVars
  BY DEF StudioNext, NextOf, studioVars
<1> QED  BY <1>1, <1>2, PTL DEF StudioSpec, SchedulerSpec, HubSpec, RuntimeSpec, GuestSpec, ScoreSpec

\* The types of the state of every component, in the composition that is model-checked.
THEOREM StudioTyped == StudioSpec => []StudioTypeOK
<1>1. ASSUME SchedulerTypeOK, HubTypeOK, RuntimeTypeOK, GuestTypeOK, ScoreTypeOK
      PROVE  StudioTypeOK
  BY <1>1 DEF StudioTypeOK
<1> QED  BY <1>1, StudioImplementsComponents, SchedulerTyped, HubTyped, RuntimeTyped, GuestTyped,
            ScoreTyped, PTL

\* Every property of the components holds in the composition.
THEOREM StudioIsSafe ==
  StudioSpec => /\ [](SendersAreHeld /\ MirrorIsCurrent /\ PollingFollowsConnection)
                /\ [](SlotsAreKept /\ ScoreIsShown)
                /\ SchedulesActOnce
  BY StudioImplementsComponents, SendersHeld, MirrorFollows, LoopsFollowConnection, SlotsAgreeAtRest,
     MatchIsShown, SchedulesStartOnce, PTL
=============================================================================
