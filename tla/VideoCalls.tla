------------------------------- MODULE VideoCalls -------------------------------
(***************************************************************************)
(* One video call and its recording (src/video-call/video-call.service.ts  *)
(* and video-call.controller.ts).                                          *)
(*                                                                         *)
(* A recording is an egress of LiveKit.  The row of the call keeps the id  *)
(* of the one that runs; it is read before LiveKit is called and written   *)
(* after, and a form may write it as well.                                 *)
(***************************************************************************)
EXTENDS Naturals

CONSTANTS
  Recordings,        \* ids LiveKit gives; none is given twice
  CallRequests,      \* requests in progress at once
  NoCall,            \* null: no row, no egress
  MaxCallRequests,   \* bound on requests
  MaxCallFailures    \* bound on calls and writes that fail

ASSUME CallAssumption ==
  NoCall \notin Recordings /\ MaxCallRequests \in Nat /\ MaxCallFailures \in Nat

VARIABLES
  call,           \* the row: its status and its egressId
  removed,        \* the row was deleted
  recording,      \* where each egress is in its life
  callRequest,    \* the requests in progress
  recordingFlaws, \* history: what let the row and LiveKit part
  callRequests, callFailures

callVars ==
  <<call, removed, recording, callRequest, recordingFlaws, callRequests, callFailures>>

CallStatus == {"scheduled", "active", "ended"}
Call == [status : CallStatus, egress : Recordings \cup {NoCall}]
NoCallRequest == [step |-> "idle"]

ASSUME NoCallIsNoRow == NoCall \notin Call

Runs == {e \in Recordings : recording[e] = "running"}

Lost(flaw) == recordingFlaws' = recordingFlaws \cup {flaw}

CallRequest == callRequests < MaxCallRequests /\ callRequests' = callRequests + 1
CallFailure == callFailures < MaxCallFailures /\ callFailures' = callFailures + 1

Waits(q, op, step, e) ==
  callRequest' = [callRequest EXCEPT ![q] = [op |-> op, step |-> step, egress |-> e]]
Answers(q) == callRequest' = [callRequest EXCEPT ![q] = NoCallRequest]

-----------------------------------------------------------------------------
CreateCall ==
  /\ CallRequest
  /\ call = NoCall /\ ~removed
  /\ call' = [status |-> "scheduled", egress |-> NoCall]
  /\ UNCHANGED <<removed, recording, callRequest, recordingFlaws, callFailures>>

\* update by its form, which may set the status and the egressId; endRoom sets the status.
UpdateCall(status) ==
  /\ CallRequest
  /\ call # NoCall
  /\ call' = [call EXCEPT !.status = status]
  /\ UNCHANGED <<removed, recording, callRequest, recordingFlaws, callFailures>>

SetEgressId(e) ==
  /\ CallRequest
  /\ call # NoCall /\ call.egress # e
  /\ call' = [call EXCEPT !.egress = e]
  /\ Lost("set by form")
  /\ UNCHANGED <<removed, recording, callRequest, callFailures>>

\* remove does not ask whether there is a recording.
RemoveCall ==
  /\ CallRequest
  /\ call # NoCall
  /\ call' = NoCall /\ removed' = TRUE
  /\ IF call.egress # NoCall \/ \E q \in CallRequests : callRequest[q] # NoCallRequest
     THEN Lost("removed") ELSE UNCHANGED recordingFlaws
  /\ UNCHANGED <<recording, callRequest, callFailures>>

\* join finds a scheduled call, and makes it active after the token.
Join(q) ==
  /\ CallRequest
  /\ callRequest[q] = NoCallRequest
  /\ call # NoCall /\ call.status = "scheduled"
  /\ Waits(q, "join", "store", NoCall)
  /\ UNCHANGED <<call, removed, recording, recordingFlaws, callFailures>>

JoinStores(q) ==
  /\ callRequest[q] # NoCallRequest /\ callRequest[q].op = "join"
  /\ call' = IF call = NoCall THEN NoCall ELSE [call EXCEPT !.status = "active"]
  /\ Answers(q)
  /\ UNCHANGED <<removed, recording, recordingFlaws, callRequests, callFailures>>

\* Mutant: startRecording does not ask whether a recording is active.
StartRecording_Always(q) ==
  /\ CallRequest
  /\ callRequest[q] = NoCallRequest
  /\ call # NoCall
  /\ Waits(q, "start", "call", NoCall)
  /\ IF \E r \in CallRequests : callRequest[r] # NoCallRequest /\ callRequest[r].op = "start"
     THEN Lost("two starts") ELSE UNCHANGED recordingFlaws
  /\ UNCHANGED <<call, removed, recording, callFailures>>

\* startRecording, for the host.
StartRecording(q) ==
  /\ CallRequest
  /\ callRequest[q] = NoCallRequest
  /\ call # NoCall /\ call.egress = NoCall
  /\ Waits(q, "start", "call", NoCall)
  /\ IF \E r \in CallRequests : callRequest[r] # NoCallRequest /\ callRequest[r].op = "start"
     THEN Lost("two starts") ELSE UNCHANGED recordingFlaws
  /\ UNCHANGED <<call, removed, recording, callFailures>>

StartCallSucceeds(q) ==
  /\ callRequest[q] # NoCallRequest /\ callRequest[q].op = "start" /\ callRequest[q].step = "call"
  /\ \E e \in Recordings :
       /\ recording[e] = "new"
       /\ recording' = [recording EXCEPT ![e] = "running"]
       /\ Waits(q, "start", "store", e)
  /\ UNCHANGED <<call, removed, recordingFlaws, callRequests, callFailures>>

\* stopRecording, for the host: the egress of the row is stopped, and then the row is cleared.
StopRecording(q) ==
  /\ CallRequest
  /\ callRequest[q] = NoCallRequest
  /\ call # NoCall /\ call.egress # NoCall
  /\ Waits(q, "stop", "call", call.egress)
  /\ UNCHANGED <<call, removed, recording, recordingFlaws, callFailures>>

StopCallSucceeds(q) ==
  LET e == callRequest[q].egress
  IN /\ callRequest[q] # NoCallRequest /\ callRequest[q].op = "stop" /\ callRequest[q].step = "call"
     /\ recording[e] = "running"
     /\ recording' = [recording EXCEPT ![e] = "over"]
     /\ Waits(q, "stop", "store", e)
     /\ UNCHANGED <<call, removed, recordingFlaws, callRequests, callFailures>>

\* The last write of either, by the id of the call; the row may be gone, and the request throws.
Stores(q) ==
  LET r == callRequest[q]
  IN /\ r # NoCallRequest /\ r.op # "join" /\ r.step = "store"
     /\ call' = IF call = NoCall THEN NoCall
                ELSE [call EXCEPT !.egress = IF r.op = "start" THEN r.egress ELSE NoCall]
     /\ Answers(q)
     /\ UNCHANGED <<removed, recording, recordingFlaws, callRequests, callFailures>>

-----------------------------------------------------------------------------
\* LiveKit refuses the call, as it does for an egress that is over.
CallIsRefused(q) ==
  /\ callRequest[q] # NoCallRequest /\ callRequest[q].step = "call"
  /\ IF callRequest[q].op = "stop" /\ recording[callRequest[q].egress] = "over"
     THEN UNCHANGED callFailures ELSE CallFailure
  /\ Answers(q)
  /\ UNCHANGED <<call, removed, recording, recordingFlaws, callRequests>>

\* The last write of a request fails, or the process dies before it.
StoreFails(q) ==
  /\ callRequest[q] # NoCallRequest /\ callRequest[q].step = "store"
  /\ CallFailure
  /\ Answers(q)
  /\ Lost("not stored")
  /\ UNCHANGED <<call, removed, recording, callRequests>>

\* The room is empty: LiveKit ends the recording by itself, and nobody tells the backend.
RecordingEnds(e) ==
  /\ e \in Runs
  /\ CallFailure
  /\ recording' = [recording EXCEPT ![e] = "over"]
  /\ UNCHANGED <<call, removed, callRequest, recordingFlaws, callRequests>>

CallInit ==
  /\ call = NoCall /\ removed = FALSE
  /\ recording = [e \in Recordings |-> "new"]
  /\ callRequest = [q \in CallRequests |-> NoCallRequest]
  /\ recordingFlaws = {} /\ callRequests = 0 /\ callFailures = 0

CallNext ==
  \/ CreateCall \/ RemoveCall
  \/ \E status \in CallStatus : UpdateCall(status)
  \/ \E e \in Recordings \cup {NoCall} : SetEgressId(e)
  \/ \E q \in CallRequests :
       \/ Join(q) \/ JoinStores(q)
       \/ StartRecording(q) \/ StartCallSucceeds(q)
       \/ StopRecording(q) \/ StopCallSucceeds(q)
       \/ Stores(q) \/ CallIsRefused(q) \/ StoreFails(q)
  \/ \E e \in Recordings : RecordingEnds(e)

CallSpec == CallInit /\ [][CallNext]_callVars

-----------------------------------------------------------------------------
(***************************************************************************)
(* Properties                                                              *)
(***************************************************************************)

\* The types of the state.
CallTypeOK ==
  /\ call \in Call \cup {NoCall} /\ removed \in BOOLEAN
  /\ recording \in [Recordings -> {"new", "running", "over"}]
  /\ recordingFlaws \subseteq {"set by form", "removed", "two starts", "not stored"}

\* A recording that runs can be stopped by the host, because the row or the request that
\* started it has its id, unless two starts were in progress at once, the call was removed
\* beside it, the form set the id, or the write of an id failed.
RecordingStaysOwned ==
  recordingFlaws = {} =>
    \A e \in Runs :
      \/ call # NoCall /\ call.egress = e
      \/ \E q \in CallRequests : callRequest[q] # NoCallRequest /\ callRequest[q].egress = e
=============================================================================
