-------------------------------- MODULE MCRoom ---------------------------------
(***************************************************************************)
(* Small instances of what people do: who is in a room, accounts and       *)
(* logins, comments, pins, commands and calls.  They share no state: a     *)
(* behaviour is one of a single component, chosen at the start.            *)
(***************************************************************************)
EXTENDS Presence, Accounts, SignIn, RestreamChat, SocialWall, Intercom, VideoCalls, ChatPins, TLC

CONSTANTS u1

VARIABLE component

MCUserOf == [s \in Sockets |-> u1]

RoomInit ==
  /\ component \in {"presence", "accounts", "signin", "restream", "wall", "intercom", "calls", "pins"}
  /\ PresenceInit /\ AccountInit /\ SignInInit /\ ChatInit
  /\ WallInit /\ IntercomInit /\ CallInit /\ PinInit

NextOf ==
  \/ /\ component = "presence" /\ PresenceNext
     /\ UNCHANGED <<accountVars, signInVars, chatVars, wallVars, intercomVars, callVars, pinVars>>
  \/ /\ component = "accounts" /\ AccountNext
     /\ UNCHANGED <<presenceVars, signInVars, chatVars, wallVars, intercomVars, callVars, pinVars>>
  \/ /\ component = "signin" /\ SignInNext
     /\ UNCHANGED <<presenceVars, accountVars, chatVars, wallVars, intercomVars, callVars, pinVars>>
  \/ /\ component = "restream" /\ ChatNext
     /\ UNCHANGED <<presenceVars, accountVars, signInVars, wallVars, intercomVars, callVars, pinVars>>
  \/ /\ component = "wall" /\ WallNext
     /\ UNCHANGED <<presenceVars, accountVars, signInVars, chatVars, intercomVars, callVars, pinVars>>
  \/ /\ component = "intercom" /\ IntercomNext
     /\ UNCHANGED <<presenceVars, accountVars, signInVars, chatVars, wallVars, callVars, pinVars>>
  \/ /\ component = "calls" /\ CallNext
     /\ UNCHANGED <<presenceVars, accountVars, signInVars, chatVars, wallVars, intercomVars, pinVars>>
  \/ /\ component = "pins" /\ PinNext
     /\ UNCHANGED <<presenceVars, accountVars, signInVars, chatVars, wallVars, intercomVars, callVars>>

RoomNext == NextOf /\ UNCHANGED component

roomVars ==
  <<component, presenceVars, accountVars, signInVars, chatVars, wallVars, intercomVars, callVars,
    pinVars>>

RoomSpec == RoomInit /\ [][RoomNext]_roomVars

\* The types of the state of every component.
RoomTypeOK ==
  /\ PresenceTypeOK /\ AccountTypeOK /\ SignInTypeOK /\ ChatTypeOK
  /\ WallTypeOK /\ IntercomTypeOK /\ CallTypeOK /\ PinTypeOK

Anonymous == Permutations(Sockets) \cup Permutations(Productions)
=============================================================================
