-------------------------- MODULE OrderlyShutDown --------------------------
(***************************************************************************)
(* When ShutDown of a GrpcContext is safe.  The code does not say: gRPC    *)
(* aborts the process if a thread schedules remotely or an operation is    *)
(* handed over after the completion queue was shut down, and a runner that *)
(* leaves through the shut down queue drops what its local queue holds.    *)
(* Here the application keeps a discipline, and the context does the rest. *)
(***************************************************************************)
EXTENDS GrpcContext

(* Nothing is between the application and gRPC: no operation waits to be   *)
(* handed over, and the stop operation is in no queue.  Operations gRPC    *)
(* has taken may be outstanding.                                           *)
NothingScheduled ==
  /\ \A op \in Ops : ~(outcome[op] = "running" /\ execute_[op] = "OnScheduleComplete")
  /\ ~Linked(StopOp, local_queue_) /\ ~Linked(StopOp, remote_queue_)

(* The discipline: shut down only then, and from then on neither start an  *)
(* operation nor request stop, nor call Run with a stopped token.          *)
Discipline ==
  /\ ~shutdown /\ shutdown' => NothingScheduled
  /\ shutdown =>
       /\ \A op \in Ops : outcome'[op] = "running" => outcome[op] = "running"
       /\ stop_requested' => stop_requested /\ ~(pc = "outside" /\ pc' = "register")

OrderlyNext == Next /\ Discipline

OrderlySpec == Init /\ [][OrderlyNext]_vars /\ Fairness

-----------------------------------------------------------------------------
(* The discipline is enough: neither gRPC nor the alarm is used on a queue *)
(* that is shut down, by the runner or by a thread that was inside         *)
(* ScheduleRemote, and Run never returns with stop_op still linked.        *)
ShutDownIsSafe == fault \notin {"cq_shutdown", "dangling_stop"}

(* What ShutDown may not lose: a Run that leaves because the queue is      *)
(* drained has executed everything and left nothing for a later Run, and   *)
(* no thread is still inside SignalRemoteQueue: the context, whose         *)
(* destructor waits for nobody, may be destroyed.                          *)
NothingLeftBehind ==
  pc = "leave" /\ ~should_stop_ /\ fault = "none" =>
    local_queue_ = <<>> /\ remote_queue_ = <<>> /\ Signallers = {}

(* Every operation that was outstanding at the shutdown is still delivered *)
(* to its receiver, unless stop was requested before.                      *)
OutstandingDelivered ==
  \A op \in Ops :
    shutdown /\ outcome[op] = "running" ~>
      outcome[op] # "running" \/ stop_requested \/ fault # "none"
=============================================================================
