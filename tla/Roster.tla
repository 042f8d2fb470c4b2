--------------------------------- MODULE Roster ---------------------------------
(***************************************************************************)
(* What the presence of a production promises its members, whatever        *)
(* sockets, maps and timers are behind it: a user who has another          *)
(* connection may leave a production at once, but a user whose last        *)
(* connection goes is shown as reconnecting first, in one production,      *)
(* until the user is back or the time is up.                               *)
(***************************************************************************)
CONSTANTS Users, Productions, None

VARIABLES
  online,  \* users with a connection that was recorded
  roster   \* how each production shows each user

rosterVars == <<online, roster>>

Shown == {"absent", "present", "reconnecting"}

PresentIn(u) == {p \in Productions : roster[u][p] = "present"}

RosterInit ==
  /\ online = {}
  /\ roster = [u \in Users |-> [p \in Productions |-> "absent"]]

\* The user is back, in every production of ps; no other shows a reconnection.
Arrives(u, ps) ==
  /\ online' = online \cup {u}
  /\ roster' = [roster EXCEPT ![u] = [p \in Productions |->
       IF p \in PresentIn(u) \cup ps THEN "present" ELSE "absent"]]

\* A connection of several goes, and with it some productions.
PartlyDeparts(u, ps) ==
  /\ u \in online /\ ps \subseteq PresentIn(u)
  /\ online' = online
  /\ roster' = [roster EXCEPT ![u] = [p \in Productions |->
       IF p \in ps THEN "absent" ELSE roster[u][p]]]

\* The last connection goes: one of its productions, if it had any, waits for the user.
Departs(u) ==
  /\ u \in online
  /\ online' = online \ {u}
  /\ \E waiting \in Productions \cup {None} :
       /\ IF PresentIn(u) = {} THEN waiting = None ELSE waiting \in PresentIn(u)
       /\ roster' = [roster EXCEPT ![u] = [p \in Productions |->
            IF p = waiting THEN "reconnecting" ELSE "absent"]]

Expires(u) ==
  /\ u \notin online
  /\ online' = online
  /\ roster' = [roster EXCEPT ![u] = [p \in Productions |-> "absent"]]

Crashes ==
  /\ online' = {}
  /\ roster' = [u \in Users |-> [p \in Productions |-> "absent"]]

RosterNext ==
  \/ \E u \in Users :
       \/ \E ps \in SUBSET Productions : Arrives(u, ps) \/ PartlyDeparts(u, ps)
       \/ Departs(u)
       \/ Expires(u)
  \/ Crashes

RosterSpec == RosterInit /\ [][RosterNext]_rosterVars
=============================================================================
