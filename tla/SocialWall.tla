------------------------------- MODULE SocialWall -------------------------------
(***************************************************************************)
(* The comments and polls of one production that go on air                 *)
(* (src/social/social.service.ts).  Comments come in over the chat and the *)
(* webhook (src/social/restream-webhook.service.ts).                       *)
(*                                                                         *)
(* To put one comment on air, or to open a poll, the others are taken down *)
(* by one statement and the new one is written by the next.  A vote reads  *)
(* the tally and writes it back.                                           *)
(***************************************************************************)
EXTENDS Naturals, FiniteSets

CONSTANTS
  Comments,      \* external ids of comments; the rows are unique in them
  Polls,         \* ids of polls; none is used twice
  WallRequests,  \* requests that may run at once
  NoComment,     \* undefined
  MaxWall        \* bound on requests

ASSUME WallAssumption == NoComment \notin Comments /\ MaxWall \in Nat

VARIABLES
  comment,      \* the status of each comment's row
  graphic,      \* the comment the graphics were last told to show
  poll,         \* whether each poll is active
  tally,        \* the votes stored with each poll
  wallRequest,  \* the requests in progress
  cast,         \* history: the votes that were answered
  wallRaces,    \* history: what two requests wrote at once
  wallRequests  \* requests so far

wallVars == <<comment, graphic, poll, tally, wallRequest, cast, wallRaces, wallRequests>>

CommentStatus == {"PENDING", "APPROVED", "REJECTED", "ON_AIR"}

NoWallRequest == [op |-> "none"]

OnAir == {m \in Comments : comment[m] = "ON_AIR"}
ActivePolls == {p \in Polls : poll[p] = "active"}

InWall(ops) == {r \in WallRequests : wallRequest[r].op \in ops}

WallBegins(r, request, races) ==
  /\ wallRequest[r] = NoWallRequest
  /\ wallRequests < MaxWall /\ wallRequests' = wallRequests + 1
  /\ wallRequest' = [wallRequest EXCEPT ![r] = request]
  /\ wallRaces' = wallRaces \cup races

WallEnds(r) == wallRequest' = [wallRequest EXCEPT ![r] = NoWallRequest]

-----------------------------------------------------------------------------
\* ingestMessage, until the analysis of the comment is back.
IngestMessage(r, m) ==
  /\ WallBegins(r, [op |-> "ingest", comment |-> m], {})
  /\ UNCHANGED <<comment, graphic, poll, tally, cast>>

\* The row is created, unless the comment came in by another way before: then create throws.
StoresComment(r) ==
  LET m == wallRequest[r].comment
  IN /\ wallRequest[r].op = "ingest"
     /\ IF comment[m] = "none"
        THEN \E status \in {"PENDING", "REJECTED"} :
               comment' = [comment EXCEPT ![m] = status]
        ELSE UNCHANGED comment
     /\ WallEnds(r)
     /\ UNCHANGED <<graphic, poll, tally, cast, wallRaces, wallRequests>>

\* Mutant: a comment goes on air beside the one that is.
UpdateMessageStatus_TakesNoneDown(r, m, status) ==
  /\ comment[m] # "none"
  /\ WallBegins(r, [op |-> "status", comment |-> m, status |-> status],
       IF status = "ON_AIR" /\ \E q \in InWall({"status"}) : wallRequest[q].status = "ON_AIR"
       THEN {"comments"} ELSE {})
  /\ UNCHANGED <<comment, graphic, poll, tally, cast>>

\* updateMessageStatus: what is on air is taken down before another goes on air.
UpdateMessageStatus(r, m, status) ==
  /\ comment[m] # "none"
  /\ WallBegins(r, [op |-> "status", comment |-> m, status |-> status],
       IF status = "ON_AIR" /\ \E q \in InWall({"status"}) : wallRequest[q].status = "ON_AIR"
       THEN {"comments"} ELSE {})
  /\ comment' = [n \in Comments |->
       IF status = "ON_AIR" /\ comment[n] = "ON_AIR" THEN "APPROVED" ELSE comment[n]]
  /\ UNCHANGED <<graphic, poll, tally, cast>>

\* The graphics show the comment, or are hidden, whichever comment it was.
SetsStatusOf(r) ==
  LET q == wallRequest[r]
  IN /\ q.op = "status"
     /\ comment' = [comment EXCEPT ![q.comment] = q.status]
     /\ graphic' = IF q.status = "ON_AIR" THEN q.comment ELSE NoComment
     /\ WallEnds(r)
     /\ UNCHANGED <<poll, tally, cast, wallRaces, wallRequests>>

\* createPoll closes every poll, and then creates its own.
CreatePoll(r) ==
  /\ WallBegins(r, [op |-> "poll"], IF InWall({"poll"}) # {} THEN {"polls"} ELSE {})
  /\ poll' = [p \in Polls |-> IF poll[p] = "active" THEN "closed" ELSE poll[p]]
  /\ UNCHANGED <<comment, graphic, tally, cast>>

OpensPoll(r) ==
  /\ wallRequest[r].op = "poll"
  /\ \E p \in Polls :
       /\ poll[p] = "none"
       /\ poll' = [poll EXCEPT ![p] = "active"]
  /\ WallEnds(r)
  /\ UNCHANGED <<comment, graphic, tally, cast, wallRaces, wallRequests>>

ClosePoll(p) ==
  /\ poll[p] = "active"
  /\ wallRequests < MaxWall /\ wallRequests' = wallRequests + 1
  /\ poll' = [poll EXCEPT ![p] = "closed"]
  /\ UNCHANGED <<comment, graphic, tally, wallRequest, cast, wallRaces>>

\* votePoll reads the tally of an active poll in a transaction that locks nothing.
VotePoll(r, p) ==
  /\ poll[p] = "active"
  /\ WallBegins(r, [op |-> "vote", poll |-> p, read |-> tally[p]],
       IF \E q \in InWall({"vote"}) : wallRequest[q].poll = p THEN {"votes"} ELSE {})
  /\ UNCHANGED <<comment, graphic, poll, tally, cast>>

CountsVote(r) ==
  LET q == wallRequest[r]
  IN /\ q.op = "vote"
     /\ tally' = [tally EXCEPT ![q.poll] = q.read + 1]
     /\ cast' = [cast EXCEPT ![q.poll] = @ + 1]
     /\ WallEnds(r)
     /\ UNCHANGED <<comment, graphic, poll, wallRaces, wallRequests>>

\* A query throws, or the process dies; what was taken down stays down.
WallRequestFails(r) ==
  /\ wallRequest[r] # NoWallRequest
  /\ WallEnds(r)
  /\ UNCHANGED <<comment, graphic, poll, tally, cast, wallRaces, wallRequests>>

WallInit ==
  /\ comment = [m \in Comments |-> "none"]
  /\ graphic = NoComment
  /\ poll = [p \in Polls |-> "none"]
  /\ tally = [p \in Polls |-> 0] /\ cast = [p \in Polls |-> 0]
  /\ wallRequest = [r \in WallRequests |-> NoWallRequest]
  /\ wallRaces = {}
  /\ wallRequests = 0

WallNext ==
  \/ \E r \in WallRequests :
       \/ \E m \in Comments :
            IngestMessage(r, m) \/ \E status \in CommentStatus : UpdateMessageStatus(r, m, status)
       \/ StoresComment(r) \/ SetsStatusOf(r)
       \/ CreatePoll(r) \/ OpensPoll(r) \/ CountsVote(r)
       \/ \E p \in Polls : VotePoll(r, p)
       \/ WallRequestFails(r)
  \/ \E p \in Polls : ClosePoll(p)

WallSpec == WallInit /\ [][WallNext]_wallVars

-----------------------------------------------------------------------------
(***************************************************************************)
(* Properties                                                              *)
(***************************************************************************)

\* The types of the state.
WallTypeOK ==
  /\ comment \in [Comments -> CommentStatus \cup {"none"}]
  /\ graphic \in Comments \cup {NoComment}
  /\ poll \in [Polls -> {"none", "active", "closed"}]
  /\ tally \in [Polls -> 0 .. MaxWall] /\ cast \in [Polls -> 0 .. MaxWall]
  /\ wallRaces \subseteq {"comments", "polls", "votes"}

\* One comment at most is on air, and while one is the graphics show no other, unless two were
\* put on air at once.  They may be hidden: every other status hides them, of whichever comment.
OneCommentOnAir ==
  "comments" \notin wallRaces =>
    /\ Cardinality(OnAir) <= 1
    /\ \A m \in OnAir : graphic \in {m, NoComment}

\* One poll at most is active, and its tally counts every vote that was answered, unless two
\* polls were created, or two votes read the tally, at once.
PollsAgree ==
  /\ "polls" \notin wallRaces => Cardinality(ActivePolls) <= 1
  /\ "votes" \notin wallRaces => tally = cast

\* What the audience sees agrees with the rows.
WallAgrees == OneCommentOnAir /\ PollsAgree
=============================================================================
