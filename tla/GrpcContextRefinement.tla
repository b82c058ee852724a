----------------------- MODULE GrpcContextRefinement -----------------------
(* GrpcContext implements the two abstract specifications of its service.  *)
EXTENDS GrpcContext

(* An operation gRPC has answered is in the completion queue, or in one of *)
(* the runner's queues with OnRequestComplete as its callback.             *)
Answered(op) ==
  \/ op \in cq
  \/ execute_[op] = "OnRequestComplete" /\ Linked(op, pending \o local_queue_)

Phase(op) ==
  IF outcome[op] # "running" THEN "idle"
  ELSE IF op \in inflight THEN "inflight"
  ELSE IF Answered(op) THEN "answered" ELSE "requested"

Contract == INSTANCE OperationContract WITH phase <- [op \in Ops |-> Phase(op)]

-----------------------------------------------------------------------------
(* Every operation is issued, answered and delivered exactly once, with    *)
(* its own answer: no interleaving of queues and events loses, repeats or  *)
(* swaps one.                                                              *)
DeliversOnce == Contract!Spec

(* The items in the order in which the runner comes to them, and those of  *)
(* them that wait for OnScheduleComplete.                                  *)
Scheduled == pending \o local_queue_ \o remote_queue_

WaitsForExecution(op) ==
  Linked(op, Scheduled) /\ execute_[op] = "OnScheduleComplete"

Precedes(item, other, queue) ==
  \E i, j \in 1..Len(queue) : i < j /\ queue[i] = item /\ queue[j] = other

WaitingOps == {op \in Ops : WaitsForExecution(op)}

Fifo == INSTANCE FifoSchedule WITH
  waiting <- WaitingOps,
  before <- {pair \in WaitingOps \X WaitingOps : Precedes(pair[1], pair[2], Scheduled)}

(* Operations scheduled from outside are executed in the order in which    *)
(* ScheduleRemote enqueued them.                                           *)
ExecutesInOrder == Fifo!Spec
=============================================================================
