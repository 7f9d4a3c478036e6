------------------------------ MODULE MCQueues ------------------------------
(***************************************************************************)
(* The two queues that must not lose or repeat anything, for TLC: the      *)
(* phone's sales on their way to the server and the server's events on     *)
(* their way to the worker.  They share no state: each behaviour exercises *)
(* one of them (focus), the other stays as it began, so the states of a    *)
(* run are those of the two added up.                                      *)
(***************************************************************************)
EXTENDS OfflineSync, Outbox

VARIABLE focus   \* the queue exercised

queuesVars == <<vars, outboxVars, focus>>

MCInit == focus \in {"sync", "outbox"} /\ Init /\ OutboxInit

\* A step of the phone's queue, and of the server's.
Phone(Step)  == focus = "sync" /\ Step /\ UNCHANGED <<outboxVars, focus>>
Server(Step) == focus = "outbox" /\ Step /\ UNCHANGED <<vars, focus>>

MCNext ==
  \/ focus = "sync" /\ Next /\ UNCHANGED <<outboxVars, focus>>
  \/ focus = "outbox" /\ OutboxNext /\ UNCHANGED <<vars, focus>>

MCSpec == MCInit /\ [][MCNext]_queuesVars
-----------------------------------------------------------------------------
\* Fairness and OutboxFairness, each for the behaviours its queue is in focus:
\* the other one takes no step, and nothing is asked of it.
MCFairness ==
  /\ \A s \in Services :
       /\ WF_queuesVars(Phone(PassStep(s)))
       /\ WF_queuesVars(Phone(SyncNow(s)))
       /\ WF_queuesVars(Phone(ServeCall(s) \/ NetworkError(s)))
  /\ \A i \in Items : WF_queuesVars(Phone(BackoffElapses(i)))
  /\ \A p \in Polls : /\ WF_queuesVars(Server(StartPoll(p)))
                      /\ WF_queuesVars(Server(PollStep(p)))
  /\ \A e \in Events : WF_queuesVars(Server(JobStep(e)))

MCFairSpec == MCSpec /\ MCFairness
=============================================================================
