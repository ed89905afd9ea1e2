--------------------------------- MODULE Queues ---------------------------------
(***************************************************************************)
(* The two queues that a message may wait in: the client's outbox and      *)
(* chat-service's table of scheduled messages.  Nothing moves from one to  *)
(* the other: a behaviour is of one of them.                               *)
(***************************************************************************)
EXTENDS Outbox, ScheduledMessages

VARIABLE kind               \* "outbox" or "scheduled"

queuesVars == <<kind, vars, scheduledVars>>

QueuesInit == kind \in {"outbox", "scheduled"} /\ Init /\ ScheduledInit

Flushing(A) == kind = "outbox" /\ A /\ UNCHANGED <<kind, scheduledVars>>
Scheduling(A) == kind = "scheduled" /\ A /\ UNCHANGED <<kind, vars>>

QueuesNext == Flushing(Next) \/ Scheduling(ScheduledNext)

\* Fairness is that of the two.
QueuesSpec ==
  /\ QueuesInit /\ [][QueuesNext]_queuesVars
  /\ \A by \in Flushes \union {"sendText"}, m \in Msgs :
       WF_queuesVars(Flushing(\E q \in rest : q.by = by /\ q.id = m /\ (RestServe(q) \/ Answered(q))))
  /\ WF_queuesVars(Flushing(GatewayServe))
  /\ WF_queuesVars(Flushing(Connect)) /\ WF_queuesVars(Flushing(AuthOk))
  /\ WF_queuesVars(Flushing(WsReply)) /\ WF_queuesVars(Flushing(CatchUp))
  /\ \A r \in Replicas : WF_queuesVars(Scheduling(LoopStep(r)))

===============================================================================
