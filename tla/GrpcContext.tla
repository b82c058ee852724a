---------------------------- MODULE GrpcContext ----------------------------
(***************************************************************************)
(* agrpc::GrpcContext (agrpc/context/grpc_context.{h,cc}): an execution    *)
(* context that runs operations on the one thread that calls Run.  That    *)
(* thread, the runner, executes a local queue, takes over what other       *)
(* threads left on the remote queue, and waits in the gRPC completion      *)
(* queue.  A thread that puts the first item on a remote queue marked      *)
(* inactive wakes the runner up by setting work_alarm_, whose completion   *)
(* event carries the null tag.                                             *)
(*                                                                         *)
(* The completion queue, the alarm, the gRPC calls behind an operation,    *)
(* unifex::atomic_intrusive_queue and the stop token are external.  They   *)
(* are modelled as this code uses them; breaking one of their              *)
(* preconditions is a fault, after which nothing is claimed.               *)
(***************************************************************************)
EXTENDS Naturals, Sequences

CONSTANTS
  Ops,              \* the AsyncRPCSender::Operation objects
  StopOp,           \* the StopOperation in the stack frame of Run
  Runner,           \* the thread that calls Run
  Producers,        \* every other thread
  Null,             \* nullptr: the tag of the alarm's event
  WorkBeforeRun,    \* the first Run is called after something was scheduled
  RemoteDuringRun,  \* other threads schedule work while Run executes
  RunAgain          \* Run is called again after it returned

ASSUME ConstantsDistinct ==
  /\ StopOp \notin Ops /\ Null \notin Ops /\ StopOp # Null
  /\ Runner \notin Producers
  /\ WorkBeforeRun \in BOOLEAN
  /\ RemoteDuringRun \in BOOLEAN
  /\ RunAgain \in BOOLEAN

Threads == Producers \cup {Runner}
Items == Ops \cup {StopOp}
Tags == Ops \cup {Null}

VARIABLES
  pc,                            \* where the runner is
  local_queue_,
  pending,                       \* the local variable of ExecutePendingLocal
  remote_queue_,                 \* the items linked from remote_queue_.head_
  remote_active,                 \* FALSE: head_ is the inactive mark
  remote_queue_read_submitted_,
  event_,                        \* what CompletionQueue::Next stored last
  execute_,                      \* the callback stored in each operation
  outcome,                       \* what each operation's receiver was told
  signal,                        \* the item a thread is about to signal for
  work_alarm_,                   \* unset, armed, or fired (event not taken)
  inflight,                      \* operations gRPC is working on
  cq,                            \* tags of the events ready in the queue
  answer,                        \* the ok flag gRPC gave each operation
  shutdown,                      \* CompletionQueue::Shutdown was called
  stop_requested,                \* state of the source of Run's stop token
  stop_callback,                 \* the callback object in Run's stack frame
  should_stop_,
  fault                          \* the broken precondition, or "none"

runVars == <<pc, pending, should_stop_>>
remoteVars == <<remote_queue_, remote_active, signal>>
opVars == <<execute_, outcome>>
grpcVars == <<inflight, cq, answer, work_alarm_>>
stopVars == <<stop_requested, stop_callback>>
vars == <<pc, local_queue_, pending, remote_queue_, remote_active,
          remote_queue_read_submitted_, event_, execute_, outcome, signal,
          work_alarm_, inflight, cq, answer, shutdown, stop_requested,
          stop_callback, should_stop_, fault>>

allButPc == <<local_queue_, pending, remoteVars, remote_queue_read_submitted_,
              event_, opVars, grpcVars, shutdown, stopVars, should_stop_, fault>>

Locations == {"outside", "register", "drain", "exec", "callback", "next", "leave"}
Callbacks == {"OnScheduleComplete", "OnRequestComplete"}
Outcomes == {"unstarted", "running", "ok", "not_ok", "error"}
Faults == {"none", "inactive_dequeue", "alarm_reset", "cq_shutdown", "dangling_stop"}

(* The tag is nullptr and ok is false in a fresh event; the remote queue   *)
(* starts inactive and no read of it is submitted.                         *)
Init ==
  /\ pc = "outside"
  /\ local_queue_ = <<>> /\ pending = <<>>
  /\ remote_queue_ = <<>> /\ remote_active = FALSE
  /\ remote_queue_read_submitted_ = FALSE
  /\ event_ = [tag |-> Null, ok |-> FALSE]
  /\ execute_ = [op \in Ops |-> "OnScheduleComplete"]
  /\ outcome = [op \in Ops |-> "unstarted"]
  /\ signal = [t \in Threads |-> Null]
  /\ work_alarm_ = "unset"
  /\ inflight = {} /\ cq = {}
  /\ answer = [op \in Ops |-> FALSE]
  /\ shutdown = FALSE
  /\ stop_requested = FALSE /\ stop_callback = "none"
  /\ should_stop_ = FALSE
  /\ fault = "none"

-----------------------------------------------------------------------------
(* Scheduling.                                                             *)

(* current_thread_context is this context between the two exchanges of     *)
(* RunImpl, on the runner only.                                            *)
IsRunningOnThisThread(t) == t = Runner /\ pc \notin {"outside", "register"}

(* A thread is free to call into the context unless it is still inside     *)
(* SignalRemoteQueue; the runner runs application code only outside Run    *)
(* and in a receiver.                                                      *)
CanCall(t) ==
  /\ fault = "none"
  /\ signal[t] = Null
  /\ t = Runner => pc \in {"outside", "callback"}

ScheduleLocal(item) ==
  /\ local_queue_' = Append(local_queue_, item)
  /\ UNCHANGED remoteVars

(* enqueue links the item and tells whether it replaced the inactive mark; *)
(* the thread that is told so has to call SignalRemoteQueue next.  Mutant  *)
(* of Told: everybody is told.                                             *)
EverybodyTold(t, item) == [signal EXCEPT ![t] = item]
Told(t, item) == IF remote_active THEN signal ELSE [signal EXCEPT ![t] = item]

ScheduleRemote(t, item) ==
  /\ remote_queue_' = Append(remote_queue_, item)
  /\ remote_active' = TRUE
  /\ signal' = Told(t, item)
  /\ UNCHANGED local_queue_

ScheduleImpl(t, item) ==
  IF IsRunningOnThisThread(t) THEN ScheduleLocal(item) ELSE ScheduleRemote(t, item)

(* Alarm::Set.  gRPC aborts when the completion queue is shut down; an     *)
(* alarm is not to be set again before its event has been taken.           *)
SignalRemoteQueue(t) ==
  /\ fault = "none"
  /\ signal[t] # Null
  /\ signal' = [signal EXCEPT ![t] = Null]
  /\ fault' = IF shutdown THEN "cq_shutdown"
              ELSE IF work_alarm_ # "unset" THEN "alarm_reset" ELSE "none"
  /\ work_alarm_' = IF shutdown THEN work_alarm_ ELSE "armed"
  /\ UNCHANGED <<runVars, local_queue_, remote_queue_, remote_active,
                 remote_queue_read_submitted_, event_, opVars, inflight, cq,
                 answer, shutdown, stopVars>>

-----------------------------------------------------------------------------
(* AsyncRPCSender::Operation.                                              *)

(* Hand the operation to gRPC, which aborts on a queue that is shut down.  *)
(* Mutant of Switched: the callback stays what it was.                     *)
NotSwitched(op) == execute_
Switched(op) == [execute_ EXCEPT ![op] = "OnRequestComplete"]

StartAsyncRPC(op) ==
  /\ execute_' = Switched(op)
  /\ inflight' = IF shutdown THEN inflight ELSE inflight \cup {op}
  /\ fault' = IF shutdown THEN "cq_shutdown" ELSE "none"

(* Operation::start on a freshly connected operation.                      *)
Start(t, op) ==
  /\ CanCall(t)
  /\ outcome[op] # "running"
  /\ RemoteDuringRun \/ t = Runner \/ pc = "outside"
  /\ outcome' = [outcome EXCEPT ![op] = "running"]
  /\ IF IsRunningOnThisThread(t)
       THEN /\ StartAsyncRPC(op)
            /\ UNCHANGED <<local_queue_, remoteVars>>
       ELSE /\ execute_' = [execute_ EXCEPT ![op] = "OnScheduleComplete"]
            /\ ScheduleRemote(t, op)
            /\ UNCHANGED <<inflight, fault>>
  /\ UNCHANGED <<runVars, remote_queue_read_submitted_, event_, cq, answer,
                 work_alarm_, shutdown, stopVars>>

Outcome(ok) == IF ok THEN "ok" ELSE "not_ok"

(* set_value with the flag found in event_, or set_error if it threw.  The *)
(* receiver then runs application code on the runner.                      *)
OnRequestComplete(op) ==
  /\ \E result \in {Outcome(event_.ok), "error"} :
       outcome' = [outcome EXCEPT ![op] = result]
  /\ pc' = "callback"
  /\ UNCHANGED <<execute_, inflight, should_stop_, fault>>

OnScheduleComplete(op) ==
  /\ StartAsyncRPC(op)
  /\ UNCHANGED <<pc, outcome, should_stop_>>

(* Mutant of OnStop: the flag RunImpl looks at is not set.                 *)
StopIgnored == UNCHANGED <<should_stop_, pc, opVars, inflight, fault>>

OnStop ==
  /\ should_stop_' = TRUE
  /\ UNCHANGED <<pc, opVars, inflight, fault>>

-----------------------------------------------------------------------------
(* Run and RunImpl.                                                        *)

(* The token is the one used so far or a fresh one.  The stop callback is  *)
(* invoked by its own constructor if stop was already requested;           *)
(* current_thread_context is not set yet.                                  *)
Run ==
  /\ CanCall(Runner)
  /\ pc = "outside"
  /\ RunAgain \/ stop_callback = "none"
  /\ stop_requested' \in {stop_requested, FALSE}
  /\ WorkBeforeRun =>
       remote_active \/ remote_queue_read_submitted_ \/ stop_requested'
  /\ pc' = "register"
  /\ should_stop_' = FALSE
  /\ IF stop_requested'
       THEN stop_callback' = "invoked" /\ ScheduleImpl(Runner, StopOp)
       ELSE stop_callback' = "registered" /\ UNCHANGED <<local_queue_, remoteVars>>
  /\ UNCHANGED <<pending, remote_queue_read_submitted_, event_, opVars,
                 grpcVars, shutdown, fault>>

(* The runner moves on and changes nothing else.                           *)
Goes(from, into) ==
  /\ fault = "none"
  /\ pc = from /\ pc' = into
  /\ UNCHANGED allButPc

EnterRunImpl == signal[Runner] = Null /\ Goes("register", "drain")

(* ExecutePendingLocal moves the queue away, so that what is scheduled     *)
(* while it runs waits for the next round ...  Mutant of MovedFrom: the    *)
(* queue is copied.                                                        *)
CopiedFrom(queue) == queue
MovedFrom(queue) == <<>>

TakeLocalQueue ==
  /\ fault = "none"
  /\ pc = "drain" /\ pc' = "exec"
  /\ pending' = local_queue_
  /\ local_queue_' = MovedFrom(local_queue_)
  /\ UNCHANGED <<remoteVars, should_stop_, event_, opVars, grpcVars, shutdown,
                 remote_queue_read_submitted_, stopVars, fault>>

(* ... and executes the items from the front.                              *)
ExecuteItem ==
  /\ fault = "none"
  /\ pc = "exec"
  /\ pending # <<>>
  /\ pending' = Tail(pending)
  /\ LET item == Head(pending) IN
       IF item = StopOp THEN OnStop
       ELSE IF execute_[item] = "OnRequestComplete" THEN OnRequestComplete(item)
       ELSE OnScheduleComplete(item)
  /\ UNCHANGED <<local_queue_, remoteVars, remote_queue_read_submitted_, event_,
                 cq, answer, work_alarm_, shutdown, stopVars>>

CallbackReturns == Goes("callback", "exec")

(* try_mark_inactive_or_dequeue_all: not to be called on an inactive       *)
(* queue.  Mutants: the list is left in stack order; an empty queue is not *)
(* marked.                                                                 *)
StackOrder(queue) == [i \in 1..Len(queue) |-> queue[Len(queue) + 1 - i]]
QueueOrder(queue) == queue

NeverMarked == remote_active
StaysActive == remote_active /\ remote_queue_ # <<>>

TryScheduleRemoteQueuedItems ==
  /\ local_queue_' = local_queue_ \o QueueOrder(remote_queue_)
  /\ remote_queue_' = <<>>
  /\ remote_active' = StaysActive
  /\ remote_queue_read_submitted_' = (remote_active /\ remote_queue_ = <<>>)
  /\ fault' = IF remote_active THEN "none" ELSE "inactive_dequeue"

(* The rest of one turn of the loop, up to the wait in Next.  Mutant of    *)
(* Relies: the loop looks at the remote queue every time.                  *)
NeverRelies == FALSE
Relies == remote_queue_read_submitted_

CheckRemoteQueue ==
  /\ fault = "none"
  /\ pc = "exec" /\ pending = <<>>
  /\ ~should_stop_
  /\ pc' = "next"
  /\ IF Relies
       THEN UNCHANGED <<local_queue_, remote_queue_, remote_active,
                        remote_queue_read_submitted_, fault>>
       ELSE TryScheduleRemoteQueuedItems
  /\ UNCHANGED <<pending, signal, should_stop_, event_, opVars, grpcVars,
                 shutdown, stopVars>>

StopLoop == pending = <<>> /\ should_stop_ /\ Goes("exec", "leave")

(* The null tag asks for a look at the remote queue, any other tag is the  *)
(* operation that completed.  Mutants: the null tag is scheduled like any  *)
(* other; the event is dropped; the null tag asks for nothing.             *)
ScheduleAnyTag(tag) == ScheduleLocal(tag) /\ UNCHANGED remote_queue_read_submitted_

DropEvent(tag) ==
  /\ remote_queue_read_submitted_' = (remote_queue_read_submitted_ /\ tag # Null)
  /\ UNCHANGED <<local_queue_, remoteVars>>

IgnoreAlarm(tag) ==
  /\ IF tag = Null THEN UNCHANGED <<local_queue_, remoteVars>> ELSE ScheduleLocal(tag)
  /\ UNCHANGED remote_queue_read_submitted_

HandleEvent(tag) ==
  IF tag = Null
    THEN remote_queue_read_submitted_' = FALSE /\ UNCHANGED <<local_queue_, remoteVars>>
    ELSE ScheduleLocal(tag) /\ UNCHANGED remote_queue_read_submitted_

(* Mutant of AfterEvent: several events may be taken per turn.             *)
MayTakeMore == {"drain", "next"}
AfterEvent == {"drain"}

(* Next returned an event.                                                 *)
AcquireCompletionQueueItems(tag) ==
  /\ fault = "none"
  /\ pc = "next" /\ pc' \in AfterEvent
  /\ tag \in cq
  /\ cq' = cq \ {tag}
  /\ event_' = [tag |-> tag, ok |-> IF tag = Null THEN TRUE ELSE answer[tag]]
  /\ work_alarm_' = IF tag = Null THEN "unset" ELSE work_alarm_
  /\ HandleEvent(tag)
  /\ UNCHANGED <<pending, should_stop_, opVars, inflight, answer, shutdown,
                 stopVars, fault>>

(* Next returned false: shut down and fully drained.  Mutant: the loop     *)
(* goes on.                                                                *)
Drained == shutdown /\ cq = {} /\ inflight = {} /\ work_alarm_ = "unset"
GoOnAfterShutdown == Drained /\ Goes("next", "drain")
AcquireNothing == Drained /\ Goes("next", "leave")

Linked(item, queue) == \E i \in 1..Len(queue) : queue[i] = item

(* Run returns.  The destructor of the stop callback waits for an          *)
(* invocation on another thread; a queue that still links to stop_op now   *)
(* points into a dead stack frame.                                         *)
LeaveRun ==
  /\ fault = "none"
  /\ pc = "leave"
  /\ \A t \in Threads : signal[t] # StopOp
  /\ pc' = "outside"
  /\ stop_callback' = "destroyed"
  /\ fault' = IF Linked(StopOp, local_queue_) \/ Linked(StopOp, remote_queue_)
              THEN "dangling_stop" ELSE "none"
  /\ UNCHANGED <<local_queue_, pending, remoteVars, should_stop_, event_, opVars,
                 remote_queue_read_submitted_, grpcVars, shutdown, stop_requested>>

-----------------------------------------------------------------------------
(* Calls by the application.                                               *)

(* inplace_stop_source::request_stop: the first request invokes the        *)
(* registered callback on the requesting thread.                           *)
RequestStop(t) ==
  /\ CanCall(t)
  /\ ~stop_requested
  /\ RemoteDuringRun \/ t = Runner \/ pc = "outside"
  /\ stop_requested' = TRUE
  /\ IF stop_callback = "registered"
       THEN stop_callback' = "invoked" /\ ScheduleImpl(t, StopOp)
       ELSE UNCHANGED <<stop_callback, local_queue_, remoteVars>>
  /\ UNCHANGED <<runVars, remote_queue_read_submitted_, event_, opVars,
                 grpcVars, shutdown, fault>>

ShutDown(t) ==
  /\ CanCall(t)
  /\ ~shutdown
  /\ shutdown' = TRUE
  /\ UNCHANGED <<runVars, local_queue_, remoteVars, event_, opVars, grpcVars,
                 remote_queue_read_submitted_, stopVars, fault>>

-----------------------------------------------------------------------------
(* gRPC.                                                                   *)

GrpcCompletes(op) ==
  /\ fault = "none"
  /\ op \in inflight
  /\ inflight' = inflight \ {op}
  /\ cq' = cq \cup {op}
  /\ \E ok \in BOOLEAN : answer' = [answer EXCEPT ![op] = ok]
  /\ UNCHANGED <<runVars, local_queue_, remoteVars, event_, opVars, work_alarm_,
                 remote_queue_read_submitted_, shutdown, stopVars, fault>>

AlarmFires ==
  /\ fault = "none"
  /\ work_alarm_ = "armed"
  /\ work_alarm_' = "fired"
  /\ cq' = cq \cup {Null}
  /\ UNCHANGED <<runVars, local_queue_, remoteVars, event_, opVars, inflight,
                 remote_queue_read_submitted_, answer, shutdown, stopVars, fault>>

(* The process has stopped, or is beyond what its preconditions promise.   *)
Faulted == fault # "none" /\ UNCHANGED vars

-----------------------------------------------------------------------------
RunnerStep ==
  \/ EnterRunImpl \/ TakeLocalQueue \/ ExecuteItem \/ CallbackReturns
  \/ CheckRemoteQueue \/ StopLoop \/ AcquireNothing \/ LeaveRun
  \/ \E tag \in Tags : AcquireCompletionQueueItems(tag)

Next ==
  \/ Run
  \/ RunnerStep
  \/ \E t \in Threads : \/ SignalRemoteQueue(t) \/ RequestStop(t) \/ ShutDown(t)
                        \/ \E op \in Ops : Start(t, op)
  \/ \E op \in Ops : GrpcCompletes(op)
  \/ AlarmFires
  \/ Faulted

Spec == Init /\ [][Next]_vars

(* The runner keeps taking steps once Run is called, a thread inside       *)
(* SignalRemoteQueue gets out of it, a set alarm expires, gRPC completes   *)
(* every call, and Next does not withhold one ready event for ever.        *)
Fairness ==
  /\ WF_vars(RunnerStep)
  /\ \A t \in Threads : WF_vars(SignalRemoteQueue(t))
  /\ WF_vars(AlarmFires)
  /\ \A op \in Ops : WF_vars(GrpcCompletes(op))
  /\ \A tag \in Tags : SF_vars(AcquireCompletionQueueItems(tag))

FairSpec == Spec /\ Fairness

-----------------------------------------------------------------------------
(* Properties.                                                             *)

(* Every variable keeps the type of the C++ object it stands for.          *)
TypeOK ==
  /\ pc \in Locations
  /\ local_queue_ \in Seq(Items) /\ pending \in Seq(Items)
  /\ remote_queue_ \in Seq(Items) /\ remote_active \in BOOLEAN
  /\ remote_queue_read_submitted_ \in BOOLEAN
  /\ event_ \in [tag : Tags, ok : BOOLEAN]
  /\ execute_ \in [Ops -> Callbacks]
  /\ outcome \in [Ops -> Outcomes]
  /\ signal \in [Threads -> Items \cup {Null}]
  /\ work_alarm_ \in {"unset", "armed", "fired"}
  /\ inflight \in SUBSET Ops /\ cq \in SUBSET Tags
  /\ answer \in [Ops -> BOOLEAN]
  /\ shutdown \in BOOLEAN
  /\ stop_requested \in BOOLEAN
  /\ stop_callback \in {"none", "registered", "invoked", "destroyed"}
  /\ should_stop_ \in BOOLEAN
  /\ fault \in Faults

(* SignalRemoteQueue is under way or its alarm has not been seen yet.      *)
Signallers == {t \in Threads : signal[t] # Null}
WakeupOutstanding == Signallers # {} \/ work_alarm_ # "unset"

(* A runner that relies on being woken up (it has submitted a read of the  *)
(* remote queue and will not look at it again by itself) is about to be    *)
(* woken whenever that queue holds an item: no thread enqueues without     *)
(* either a wakeup already under way or being told to signal one.          *)
WakeupNotLost ==
  fault = "none" /\ remote_queue_read_submitted_ /\ remote_queue_ # <<>> =>
    WakeupOutstanding

(* SignalRemoteQueue never sets work_alarm_ while an earlier setting of it *)
(* is outstanding: until the queue is shut down at most one thread is      *)
(* signalling, and none while the alarm is set or its event not taken.     *)
AlarmExclusive ==
  /\ fault # "alarm_reset"
  /\ fault = "none" /\ ~shutdown =>
       /\ \A t, u \in Signallers : t = u
       /\ Signallers # {} => work_alarm_ = "unset"

(* try_mark_inactive_or_dequeue_all is never called on a queue that is     *)
(* already marked inactive.                                                *)
InactiveNeverDequeued == fault # "inactive_dequeue"

(* The inductive invariant behind the three properties above.  An inactive *)
(* queue is empty; until the first enqueue nothing at all has happened.    *)
FreshIsIdle ==
  /\ ~remote_active => remote_queue_ = <<>>
  /\ ~remote_active /\ ~remote_queue_read_submitted_ =>
       /\ ~WakeupOutstanding /\ inflight = {} /\ cq = {}
       /\ local_queue_ = <<>> /\ pending = <<>> /\ ~should_stop_
       /\ pc \in {"outside", "register", "drain", "exec"}
       /\ WorkBeforeRun => pc = "outside"

(* A wakeup under way keeps the queue active, so that nobody starts        *)
(* another one, and a runner that asked for a wakeup of an active queue is *)
(* getting it.                                                             *)
WakeupIsUnique ==
  /\ Null \in cq <=> work_alarm_ = "fired"
  /\ work_alarm_ # "unset" => remote_active /\ Signallers = {}
  /\ Signallers # {} /\ ~shutdown =>
       remote_active /\ (\A t, u \in Signallers : t = u)
  /\ remote_queue_read_submitted_ /\ remote_active => WakeupOutstanding

(* A wakeup that no read asked for is the first one ever.  The runner      *)
(* takes the items before it sees the alarm, and then can only wait: no    *)
(* other event exists that would make it mark the queue inactive again.    *)
FirstWakeup ==
  /\ ~remote_queue_read_submitted_
  /\ work_alarm_ # "unset" \/ (Signallers # {} /\ ~shutdown)
FirstWakeupFindsWork ==
  FirstWakeup =>
    /\ inflight = {} /\ cq \subseteq {Null}
    /\ pending = <<>> /\ ~should_stop_
    /\ pc \in {"outside", "register", "drain", "exec", "next"}
    /\ pc # "next" => local_queue_ = <<>> /\ remote_queue_ # <<>>

WakeupInv ==
  /\ fault # "alarm_reset"
  /\ WorkBeforeRun => fault # "inactive_dequeue"
  /\ fault = "none" => FreshIsIdle /\ WakeupIsUnique /\ FirstWakeupFindsWork

(* When the loop ends because stop was requested nothing ready is left     *)
(* behind, and stop_op, about to die with the frame of Run, is in no queue *)
(* in which a later Run would find it.                                     *)
StoppedRunIsClean ==
  pc = "leave" /\ should_stop_ =>
    /\ local_queue_ = <<>>
    /\ ~Linked(StopOp, remote_queue_)

(* TryScheduleRemoteQueuedItems returns false only if some other thread    *)
(* enqueued work to the remote queue.                                      *)
FalseMeansEnqueued ==
  [][CheckRemoteQueue /\ ~remote_queue_read_submitted_' => remote_queue_ # <<>>]_vars

(* An operation handed to gRPC reaches its receiver, unless the loop is    *)
(* stopped or left, or a precondition is broken.                           *)
InFlightCompletes ==
  \A op \in Ops :
    op \in inflight ~>
      outcome[op] # "running" \/ pc = "outside" \/ fault # "none"

(* An operation that waits to be executed by a running loop gets executed. *)
Waits(op) == outcome[op] = "running" /\ execute_[op] = "OnScheduleComplete"
ScheduledRuns ==
  \A op \in Ops :
    Waits(op) /\ pc # "outside" ~>
      ~Waits(op) \/ pc = "outside" \/ fault # "none"

(* What ScheduledRuns lacks, exactly: a scheduled operation that is never  *)
(* executed means that the runner waits in Next for ever while items that  *)
(* are ready to run sit in its local queue.                                *)
StuckOnlyInNext ==
  \A op \in Ops :
    Waits(op) /\ pc # "outside" ~>
      \/ ~Waits(op) \/ pc = "outside" \/ fault # "none"
      \/ [](pc = "next" /\ local_queue_ # <<>>)

(* A stop request ends the loop, with the same exception.                  *)
StopEndsRun ==
  stop_callback = "invoked" ~>
    \/ stop_callback # "invoked" \/ fault # "none"
    \/ [](pc = "next" /\ local_queue_ # <<>>)

(* Run returns once the completion queue is shut down.                     *)
ShutDownEndsRun == shutdown ~> pc = "outside" \/ fault # "none"
=============================================================================
