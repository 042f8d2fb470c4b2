------------------------------- MODULE GuestSlots -------------------------------
(***************************************************************************)
(* The guests of one production and the slots they are seen in:            *)
(*   src/guest/guest.service.ts       invitations, slots, takes            *)
(*   src/guest/guest.controller.ts    the requests                         *)
(*                                                                         *)
(* The configuration of all slots is one document.  A request reads the    *)
(* latest, changes its slot and appends the whole as the new latest; a     *)
(* take to program has switched the engine before it reads, and with vMix  *)
(* that takes two commands: the input is put into vMix' preview, and the   *)
(* cut swaps preview and program.  Each request ends by listing the slots  *)
(* and announcing the list.  Requests interleave at every await, and any   *)
(* of their calls may fail.  A slot is taken to have an input of its own,  *)
(* as when the configuration names one.                                    *)
(***************************************************************************)
EXTENDS Naturals

CONSTANTS
  Guests,             \* ids of invitations; each is a slot
  GuestRequests,      \* requests that may run at once
  NoSlot,             \* undefined
  MaxGuestRequests,   \* bound on requests
  MaxGuestFailures    \* bound on calls that fail

ASSUME GuestAssumption ==
  /\ NoSlot \notin Guests
  /\ MaxGuestRequests \in Nat /\ MaxGuestFailures \in Nat

VARIABLES
  invitation,     \* the status of each invitation's row
  envelope,       \* the latest configuration of the slots
  engineType,     \* of the production
  preview,        \* vMix: the slot in its preview
  onAir,          \* the engine: the slot on its program
  toldSlots,      \* the list that was announced last
  guestRequest,   \* the requests in progress
  asked,          \* history: the return feed each slot was last given
  blemishes,      \* history: what may have spoilt the agreement of the parts
  guestRequests,  \* requests so far
  guestFailures   \* failed calls so far

guestVars ==
  <<invitation, envelope, engineType, preview, onAir, toldSlots, guestRequest, asked,
    blemishes, guestRequests, guestFailures>>

\* The engine as it is: only previews and takes command it.
engineVars == <<engineType, preview, onAir>>

SlotStatus == {"FREE", "PREVIEW", "PROGRAM"}
Feeds == {"CONTROL", "NONE"}

\* Of the settings the return feed stands for all that patches change.
SlotConfig == [status : SlotStatus, feed : Feeds]
DefaultSlot == [status |-> "FREE", feed |-> "CONTROL"]

Envelopes == [Guests -> SlotConfig \cup {NoSlot}]

SlotPatch == [status : SlotStatus \cup {NoSlot}, feed : Feeds \cup {NoSlot}]
NoPatch == [status |-> NoSlot, feed |-> NoSlot]

\* No configuration and no setting of one are read as undefined.
ASSUME NoSlotIsNothing == NoSlot \notin SlotConfig \cup SlotStatus \cup Feeds

Invited == {"PENDING", "ACTIVE"}

NoRequest == [step |-> "idle"]

\* One patch of each kind: a setting, a status marked by hand, and that of a preview.
Patches ==
  {[NoPatch EXCEPT !.feed = "NONE"], [NoPatch EXCEPT !.feed = "CONTROL"],
   [NoPatch EXCEPT !.status = "PROGRAM"]}

\* getGuestSlots, of the invitations and the configuration it has read.
SlotList(invitations, configs) ==
  [g \in Guests |->
     IF invitations[g] \in Invited
     THEN [invite |-> invitations[g],
           config |-> IF configs[g] = NoSlot THEN DefaultSlot ELSE configs[g]]
     ELSE NoSlot]

Patched(config, patch) ==
  LET old == IF config = NoSlot THEN DefaultSlot ELSE config
  IN [status |-> IF patch.status = NoSlot THEN old.status ELSE patch.status,
      feed   |-> IF patch.feed = NoSlot THEN old.feed ELSE patch.feed]

\* Mutant: the take leaves the slot that was on program as it is.
Taken_KeepsOther(configs, g) ==
  [h \in Guests |->
     IF h = g THEN Patched(configs[h], [NoPatch EXCEPT !.status = "PROGRAM"]) ELSE configs[h]]

\* takeGuestProgram: one slot is on program, and no other.
Taken(configs, g) ==
  [h \in Guests |->
     IF h = g THEN Patched(configs[h], [NoPatch EXCEPT !.status = "PROGRAM"])
     ELSE IF configs[h] # NoSlot /\ configs[h].status = "PROGRAM"
          THEN [configs[h] EXCEPT !.status = "FREE"]
     ELSE configs[h]]

-----------------------------------------------------------------------------
\* The request goes on at another step.
Proceeds(r, step) == guestRequest' = [guestRequest EXCEPT ![r].step = step]

\* What r does now changes what the other requests may have read.
OvertakesAnd(r, mine) ==
  guestRequest' = [q \in GuestRequests |->
    IF q = r THEN mine
    ELSE IF guestRequest[q] = NoRequest THEN NoRequest
    ELSE [guestRequest[q] EXCEPT !.overtaken = TRUE]]

\* What r commands now changes what the takes of others at these steps did to the engine.
CrossesAnd(r, mine, steps) ==
  guestRequest' = [q \in GuestRequests |->
    IF q = r THEN mine
    ELSE IF guestRequest[q].step \in steps /\ guestRequest[q].op = "program"
         THEN [guestRequest[q] EXCEPT !.overtaken = TRUE]
    ELSE guestRequest[q]]

\* The invitation is looked up (by token or id) when the request comes in.
GuestRequestComes(r, op, g, patch) ==
  /\ guestRequest[r] = NoRequest
  /\ guestRequests < MaxGuestRequests /\ guestRequests' = guestRequests + 1
  /\ invitation[g] \in IF op = "create" THEN {"none"} ELSE Invited
  /\ guestRequest' = [guestRequest EXCEPT ![r] =
       [op |-> op, guest |-> g, patch |-> patch, overtaken |-> FALSE,
        read |-> [h \in Guests |-> NoSlot], seen |-> invitation,
        step |-> CASE op \in {"create", "activate", "finalize"} -> "write"
                   [] op = "preview" -> IF engineType = "VMIX" THEN "engine" ELSE "lookup"
                   [] op = "program" -> "engine"
                   [] op = "update" -> "read"]]
  /\ UNCHANGED <<invitation, envelope, engineVars, toldSlots, asked, blemishes, guestFailures>>

CreateInvitation(r, g) == GuestRequestComes(r, "create", g, NoPatch)

\* The token may have expired, and then nothing is written.
ActivateGuest(r, g) == GuestRequestComes(r, "activate", g, NoPatch)

FinalizeGuest(r, g) == GuestRequestComes(r, "finalize", g, NoPatch)

UpdateGuestSlot(r, g) == \E patch \in Patches : GuestRequestComes(r, "update", g, patch)

TakeGuestPreview(r, g) ==
  GuestRequestComes(r, "preview", g, [NoPatch EXCEPT !.status = "PREVIEW"])

TakeGuestProgram(r, g) == GuestRequestComes(r, "program", g, NoPatch)

\* The row of the invitation is written; an update or delete of a deleted row throws.
WritesInvitation(r) ==
  LET q == guestRequest[r]
      written == CASE q.op = "create" -> "PENDING"
                   [] q.op = "activate" -> "ACTIVE"
                   [] q.op = "finalize" -> "deleted"
  IN /\ q.step = "write"
     /\ q.op = "create" => invitation[q.guest] = "none"
     /\ IF invitation[q.guest] = "deleted"
        THEN /\ guestRequest' = [guestRequest EXCEPT ![r] = NoRequest]
             /\ UNCHANGED invitation
        ELSE /\ invitation' = [invitation EXCEPT ![q.guest] = written]
             /\ OvertakesAnd(r, [q EXCEPT !.step =
                                   IF q.op = "finalize" THEN "read" ELSE "list"])
     /\ UNCHANGED <<envelope, engineVars, toldSlots, asked, blemishes,
                    guestRequests, guestFailures>>

\* Mutant: the take cuts to what is in the preview, whatever that is.
SelectsInput_Unselected(r) ==
  LET q == guestRequest[r]
  IN /\ q.step = "engine" /\ engineType = "VMIX"
     /\ preview' = IF q.op = "program" THEN preview ELSE q.guest
     /\ CrossesAnd(r, [q EXCEPT !.step = IF q.op = "program" THEN "cut" ELSE "lookup"], {"cut"})
     /\ UNCHANGED <<invitation, envelope, engineType, onAir, toldSlots, asked, blemishes,
                    guestRequests, guestFailures>>

\* VMIX_SELECT_INPUT: the slot is in vMix' preview, and a take cuts to it next.
SelectsInput(r) ==
  LET q == guestRequest[r]
  IN /\ q.step = "engine" /\ engineType = "VMIX"
     /\ preview' = q.guest
     /\ CrossesAnd(r, [q EXCEPT !.step = IF q.op = "program" THEN "cut" ELSE "lookup"], {"cut"})
     /\ UNCHANGED <<invitation, envelope, engineType, onAir, toldSlots, asked, blemishes,
                    guestRequests, guestFailures>>

\* VMIX_CUT: what is in the preview by now, and what was on program, change places.
Cuts(r) ==
  LET q == guestRequest[r]
  IN /\ q.step = "cut"
     /\ onAir' = preview /\ preview' = onAir
     /\ CrossesAnd(r, [q EXCEPT !.step = "read"], {"cut", "read", "save"})
     /\ UNCHANGED <<invitation, envelope, engineType, toldSlots, asked, blemishes,
                    guestRequests, guestFailures>>

\* CHANGE_SCENE: OBS shows the scene of the slot at once.
SwitchesScene(r) ==
  LET q == guestRequest[r]
  IN /\ q.step = "engine" /\ q.op = "program" /\ engineType = "OBS"
     /\ onAir' = q.guest
     /\ CrossesAnd(r, [q EXCEPT !.step = "read"], {"read", "save"})
     /\ UNCHANGED <<invitation, envelope, engineType, preview, toldSlots, asked, blemishes,
                    guestRequests, guestFailures>>

\* A preview goes on as an update of its slot, whose invitation is looked up again.
LooksUp(r) ==
  LET q == guestRequest[r]
  IN /\ q.step = "lookup"
     /\ guestRequest' = [guestRequest EXCEPT ![r] =
          IF invitation[q.guest] \in Invited THEN [q EXCEPT !.step = "read"] ELSE NoRequest]
     /\ UNCHANGED <<invitation, envelope, engineVars, toldSlots, asked, blemishes,
                    guestRequests, guestFailures>>

\* getSlotConfigEnvelope.  A release of a slot without configuration saves nothing.
ReadsEnvelope(r) ==
  LET q == guestRequest[r]
  IN /\ q.step = "read"
     /\ guestRequest' = [guestRequest EXCEPT ![r] =
          [q EXCEPT !.read = envelope,
                    !.overtaken = q.op = "program" /\ q.overtaken,
                    !.step = IF q.op = "finalize" /\ envelope[q.guest] = NoSlot
                             THEN "list" ELSE "save"]]
     /\ UNCHANGED <<invitation, envelope, engineVars, toldSlots, asked, blemishes,
                    guestRequests, guestFailures>>

\* saveSlotConfigEnvelope: the whole is appended.
SavesEnvelope(r) ==
  LET q == guestRequest[r]
      g == q.guest
  IN /\ q.step = "save"
     /\ envelope' =
          CASE q.op = "program" -> Taken(q.read, g)
            [] q.op = "finalize" -> [q.read EXCEPT ![g].status = "FREE"]
            [] q.op \in {"update", "preview"} -> [q.read EXCEPT ![g] = Patched(@, q.patch)]
     /\ OvertakesAnd(r, [q EXCEPT !.step = "list"])
     /\ asked' = IF q.patch.feed = NoSlot THEN asked ELSE [asked EXCEPT ![g] = q.patch.feed]
     /\ blemishes' = blemishes
          \cup (IF q.overtaken THEN {"overtaken"} ELSE {})
          \cup (IF q.op = "update" /\ q.patch.status = "PROGRAM" THEN {"by hand"} ELSE {})
     /\ UNCHANGED <<invitation, engineVars, toldSlots, guestRequests, guestFailures>>

\* emitGuestSlotsUpdated reads the invitations, and then the configuration.
ListsInvitations(r) ==
  LET q == guestRequest[r]
  IN /\ q.step = "list"
     /\ guestRequest' = [guestRequest EXCEPT ![r] =
          [q EXCEPT !.seen = invitation, !.overtaken = FALSE, !.step = "emit"]]
     /\ UNCHANGED <<invitation, envelope, engineVars, toldSlots, asked, blemishes,
                    guestRequests, guestFailures>>

\* Mutant: a request that has changed the slots does not send the list.
EmitsSlots_Silent(r) ==
  /\ guestRequest[r].step = "emit"
  /\ guestRequest' = [guestRequest EXCEPT ![r] = NoRequest]
  /\ UNCHANGED <<invitation, envelope, engineVars, toldSlots, asked, blemishes,
                 guestRequests, guestFailures>>

EmitsSlots(r) ==
  LET q == guestRequest[r]
  IN /\ q.step = "emit"
     /\ toldSlots' = SlotList(q.seen, envelope)
     /\ guestRequest' = [guestRequest EXCEPT ![r] = NoRequest]
     /\ blemishes' = blemishes \cup IF q.overtaken THEN {"overtaken"} ELSE {}
     /\ UNCHANGED <<invitation, envelope, engineVars, asked, guestRequests, guestFailures>>

\* Any call of a request throws, or the process dies; what the request did stays.
GuestRequestFails(r) ==
  /\ guestRequest[r] # NoRequest
  /\ guestFailures < MaxGuestFailures /\ guestFailures' = guestFailures + 1
  /\ guestRequest' = [guestRequest EXCEPT ![r] = NoRequest]
  /\ blemishes' = blemishes \cup {"failed"}
  /\ UNCHANGED <<invitation, envelope, engineVars, toldSlots, asked, guestRequests>>

GuestInit ==
  /\ invitation = [g \in Guests |-> "none"]
  /\ envelope = [g \in Guests |-> NoSlot]
  /\ engineType \in {"VMIX", "OBS"}
  /\ preview = NoSlot /\ onAir = NoSlot
  /\ toldSlots = [g \in Guests |-> NoSlot]
  /\ guestRequest = [r \in GuestRequests |-> NoRequest]
  /\ asked = [g \in Guests |-> "CONTROL"]
  /\ blemishes = {}
  /\ guestRequests = 0 /\ guestFailures = 0

GuestNext ==
  \E r \in GuestRequests :
    \/ \E g \in Guests :
         \/ CreateInvitation(r, g) \/ ActivateGuest(r, g) \/ FinalizeGuest(r, g)
         \/ UpdateGuestSlot(r, g) \/ TakeGuestPreview(r, g) \/ TakeGuestProgram(r, g)
    \/ WritesInvitation(r) \/ SelectsInput(r) \/ Cuts(r) \/ SwitchesScene(r) \/ LooksUp(r)
    \/ ReadsEnvelope(r) \/ SavesEnvelope(r)
    \/ ListsInvitations(r) \/ EmitsSlots(r)
    \/ GuestRequestFails(r)

GuestSpec == GuestInit /\ [][GuestNext]_guestVars

-----------------------------------------------------------------------------
(***************************************************************************)
(* Properties                                                              *)
(***************************************************************************)

\* The types of the state, and of what a request has read.
GuestTypeOK ==
  /\ invitation \in [Guests -> {"none", "deleted"} \cup Invited]
  /\ envelope \in Envelopes
  /\ engineType \in {"VMIX", "OBS"}
  /\ preview \in Guests \cup {NoSlot} /\ onAir \in Guests \cup {NoSlot}
  /\ asked \in [Guests -> Feeds]
  /\ blemishes \subseteq {"overtaken", "by hand", "failed"}
  /\ \A r \in GuestRequests : guestRequest[r] # NoRequest =>
       /\ guestRequest[r].read \in Envelopes
       /\ guestRequest[r].patch \in SlotPatch
       /\ guestRequest[r].step = "save" /\ guestRequest[r].op = "finalize" =>
            guestRequest[r].read[guestRequest[r].guest] # NoSlot

Busy(ops) == \E r \in GuestRequests : guestRequest[r] # NoRequest /\ guestRequest[r].op \in ops

GuestOps == {"create", "activate", "finalize", "update", "preview", "program"}

\* As long as no request was overtaken by another between its reading and its writing, no
\* take between its commands or before its writing, none failed, and nobody marked a slot as
\* on program by hand: every slot has the feed it was given last, a slot on program is the
\* one the engine shows and its guest is invited, and the list announced last is as it is.
SlotsAreKept ==
  blemishes = {} =>
    /\ \A g \in Guests :
         asked[g] = IF envelope[g] = NoSlot THEN "CONTROL" ELSE envelope[g].feed
    /\ \A g \in Guests :
         envelope[g] # NoSlot /\ envelope[g].status = "PROGRAM" =>
           /\ onAir = g \/ Busy({"program"})
           /\ invitation[g] \in Invited \/ Busy({"finalize"})
    /\ ~Busy(GuestOps) => toldSlots = SlotList(invitation, envelope)
=============================================================================
