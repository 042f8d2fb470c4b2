-------------------------------- MODULE ChatPins --------------------------------
(***************************************************************************)
(* The pinned messages of a chat: the rows (src/chat/chat.service.ts), the *)
(* request that pins and unpins (src/chat/chat.controller.ts), and the     *)
(* messages the backend writes about OBS                                   *)
(* (src/websockets/gateways/obs.gateway.ts).                               *)
(*                                                                         *)
(* A toggle reads the row before it stores the other value, and nothing    *)
(* keeps two of them apart.                                                *)
(***************************************************************************)
EXTENDS Naturals

CONSTANTS
  Posts,           \* rows of chatMessage
  PinRequests,     \* requests handled at once
  NoPost,          \* not there
  MaxChats,        \* bound on messages and requests
  MaxChatFailures  \* bound on queries that fail

ASSUME PinAssumption ==
  NoPost \notin BOOLEAN /\ MaxChats \in Nat /\ MaxChatFailures \in Nat

VARIABLES
  pinned,       \* isPinned of each message, or NoPost
  pinRequest,   \* the toggles in progress, and the value each will store
  odd,          \* history: the messages that an odd number of toggles succeeded on
  pinCrossed,   \* history: messages that two toggles were in progress on at once
  chats, chatFailures

pinVars == <<pinned, pinRequest, odd, pinCrossed, chats, chatFailures>>

NoToggle == [step |-> "idle"]
Toggling(m) == {r \in PinRequests : pinRequest[r] # NoToggle /\ pinRequest[r].post = m}

Finishes(r) == pinRequest' = [pinRequest EXCEPT ![r] = NoToggle]

-----------------------------------------------------------------------------
\* saveMessage, of what OBS reports.
SaveMessage(m) ==
  /\ pinned[m] = NoPost
  /\ chats < MaxChats /\ chats' = chats + 1
  /\ pinned' = [pinned EXCEPT ![m] = FALSE]
  /\ UNCHANGED <<pinRequest, odd, pinCrossed, chatFailures>>

\* togglePin reads the row ...
TogglePin(r, m) ==
  /\ pinned[m] # NoPost
  /\ pinRequest[r] = NoToggle
  /\ chats < MaxChats /\ chats' = chats + 1
  /\ pinRequest' = [pinRequest EXCEPT ![r] = [step |-> "store", post |-> m, value |-> ~pinned[m]]]
  /\ pinCrossed' = pinCrossed \cup (IF Toggling(m) = {} THEN {} ELSE {m})
  /\ UNCHANGED <<pinned, odd, chatFailures>>

\* Mutant: the value that was read is stored.
PinStores_AsRead(r) ==
  LET m == pinRequest[r].post
  IN /\ pinRequest[r] # NoToggle
     /\ pinned' = [pinned EXCEPT ![m] = ~pinRequest[r].value]
     /\ odd' = IF m \in odd THEN odd \ {m} ELSE odd \cup {m}
     /\ Finishes(r)
     /\ UNCHANGED <<pinCrossed, chats, chatFailures>>

\* ... and stores the other value.
PinStores(r) ==
  LET m == pinRequest[r].post
  IN /\ pinRequest[r] # NoToggle
     /\ pinned' = [pinned EXCEPT ![m] = pinRequest[r].value]
     /\ odd' = IF m \in odd THEN odd \ {m} ELSE odd \cup {m}
     /\ Finishes(r)
     /\ UNCHANGED <<pinCrossed, chats, chatFailures>>

\* The second query fails, and the request with it.
PinFails(r) ==
  /\ pinRequest[r] # NoToggle
  /\ chatFailures < MaxChatFailures /\ chatFailures' = chatFailures + 1
  /\ Finishes(r)
  /\ UNCHANGED <<pinned, odd, pinCrossed, chats>>

PinInit ==
  /\ pinned = [m \in Posts |-> NoPost]
  /\ pinRequest = [r \in PinRequests |-> NoToggle]
  /\ odd = {} /\ pinCrossed = {}
  /\ chats = 0 /\ chatFailures = 0

PinNext ==
  \/ \E m \in Posts : SaveMessage(m)
  \/ \E r \in PinRequests, m \in Posts : TogglePin(r, m)
  \/ \E r \in PinRequests : PinStores(r) \/ PinFails(r)

PinSpec == PinInit /\ [][PinNext]_pinVars

-----------------------------------------------------------------------------
(***************************************************************************)
(* Properties                                                              *)
(***************************************************************************)

\* The types of the state.
PinTypeOK ==
  /\ pinned \in [Posts -> BOOLEAN \cup {NoPost}]
  /\ odd \subseteq Posts /\ pinCrossed \subseteq Posts
  /\ \A r \in PinRequests : pinRequest[r] # NoToggle =>
       pinRequest[r].post \in Posts /\ pinRequest[r].value \in BOOLEAN

\* No toggle is lost: whoever asked and whatever failed between, a message is pinned when an
\* odd number of toggles succeeded on it, unless two of them were in progress at once.
PinsAreToggled ==
  \A m \in Posts \ pinCrossed : pinned[m] # NoPost => (pinned[m] <=> m \in odd)
=============================================================================
