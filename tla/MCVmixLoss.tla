----------------------------- MODULE MCVmixLoss --------------------------------
(***************************************************************************)
(* VmixPolling with a history variable: for each instance, how many polls  *)
(* failed and how much time passed since one succeeded.                    *)
(***************************************************************************)
EXTENDS VmixPolling

VARIABLE since

Fresh == [polls |-> 0, time |-> 0]

HInit == Init /\ since = [i \in Instances |-> Fresh]

Capped(n, cap) == IF n < cap THEN n + 1 ELSE n

Older == [i \in Instances |-> [since[i] EXCEPT !.time = Capped(@, FailureWindow)]]

HPoll(i) ==
  \/ PollStarts(i) /\ UNCHANGED since
  \/ PollFails(i)
     /\ since' = [since EXCEPT ![i].polls = Capped(@, DisconnectAfter)]
  \/ \E read \in Programs : PollSucceeds(i, read)
     /\ since' = [since EXCEPT ![i] = Fresh]

HNext ==
  \/ Tick /\ since' = Older
  \/ \E i \in Instances : HPoll(i)
  \/ \E u \in Urls : EngineToggles(u) /\ UNCHANGED since
  \/ (Operator \/ Restart)
     /\ since' = [i \in Instances |-> IF inst'[i].isConnected THEN since[i] ELSE Fresh]

HSpec == HInit /\ [][HNext]_<<vars, since>>

\* With the fairness of FairSpec.
HFairSpec ==
  /\ HSpec
  /\ WF_vars(Tick)
  /\ \A i \in Instances : WF_vars(PollStarts(i)) /\ WF_vars(PollEnds(i))

\* pollApi: "Mark disconnected only when failures are both sustained and enough in
\* count": when a poll takes a connection down, DisconnectAfter polls in a row have
\* failed and FailureWindow has passed since one succeeded.
LossIsSustained ==
  [][\A i \in Instances :
       inst[i].isConnected /\ Stored(i) /\ ~inst'[i].isConnected /\ ops' = ops
         /\ restarts' = restarts
       => since'[i].polls = DisconnectAfter /\ since[i].time = FailureWindow]_<<vars, since>>

=============================================================================
