------------------------- MODULE GrpcContextProofs -------------------------
(***************************************************************************)
(* Proofs about GrpcContext for any set of operations and any set of       *)
(* threads: its types, the protocol by which a thread that enqueues        *)
(* remotely wakes up the runner, where an operation can be, the contract   *)
(* and the order the context implements, and the discipline that makes     *)
(* ShutDown safe.                                                          *)
(***************************************************************************)
EXTENDS GrpcContextRefinement, OrderlyShutDown, SequenceTheorems, TLAPS

(* What scheduling an item does to the types of the two queues.            *)
QueueTypes ==
  /\ local_queue_ \in Seq(Items)
  /\ remote_queue_ \in Seq(Items) /\ remote_active \in BOOLEAN
  /\ signal \in [Threads -> Items \cup {Null}]

LEMMA ScheduleTypes ==
  ASSUME TypeOK, NEW t \in Threads, NEW item \in Items,
         ScheduleLocal(item) \/ ScheduleRemote(t, item)
  PROVE  QueueTypes'
<1>0. Append(local_queue_, item) \in Seq(Items) /\ Append(remote_queue_, item) \in Seq(Items)
  BY AppendProperties, Zenon DEF TypeOK
<1>1. local_queue_' \in Seq(Items) /\ remote_queue_' \in Seq(Items)
  BY <1>0 DEF TypeOK, ScheduleLocal, ScheduleRemote, Told, remoteVars
<1>2. signal' \in [Threads -> Items \cup {Null}]
  BY DEF TypeOK, ScheduleLocal, ScheduleRemote, Told, remoteVars
<1>3. remote_active' \in BOOLEAN
  BY Zenon DEF TypeOK, ScheduleLocal, ScheduleRemote, Told, remoteVars
<1> QED
  BY <1>1, <1>2, <1>3 DEF QueueTypes

(* Every step of the context keeps the types.                              *)
LEMMA NextKeepsTypes == TypeOK /\ [Next]_vars => TypeOK'
<1> SUFFICES ASSUME TypeOK, [Next]_vars PROVE TypeOK'
  OBVIOUS
<1> USE ConstantsDistinct DEF TypeOK, Items, Tags, Threads
<1>1. CASE Run
  <2>1. QueueTypes'
    <3>1. CASE stop_requested'
      BY <1>1, <3>1, ScheduleTypes DEF Run, ScheduleImpl
    <3>2. CASE ~stop_requested'
      BY <1>1, <3>2, Zenon DEF Run, QueueTypes, remoteVars
    <3> QED
      BY <3>1, <3>2
  <2>2. stop_requested' \in BOOLEAN /\ stop_callback' \in {"registered", "invoked"}
    BY <1>1, Zenon DEF Run
  <2> QED
    BY <1>1, <2>1, <2>2, Zenon DEF Run, QueueTypes, Locations, opVars, grpcVars
<1>2. CASE EnterRunImpl
  BY <1>2 DEF EnterRunImpl, Goes, allButPc, Locations, remoteVars, opVars, grpcVars, stopVars
<1>3. CASE TakeLocalQueue
  BY <1>3 DEF TakeLocalQueue, MovedFrom, Locations, remoteVars, opVars, grpcVars, stopVars
<1>4. CASE ExecuteItem
  <2>1. Head(pending) \in Items /\ pending' \in Seq(Items)
    BY <1>4 DEF ExecuteItem
  <2>2. CASE Head(pending) = StopOp
    BY <1>4, <2>1, <2>2 DEF ExecuteItem, OnStop, remoteVars, opVars, stopVars
  <2>3. CASE Head(pending) \in Ops /\ execute_[Head(pending)] = "OnRequestComplete"
    <3>1. OnRequestComplete(Head(pending))
      BY <1>4, <2>3 DEF ExecuteItem
    <3>2. PICK result \in {Outcome(event_.ok), "error"} :
            outcome' = [outcome EXCEPT ![Head(pending)] = result]
      BY <3>1 DEF OnRequestComplete
    <3>3. result \in Outcomes
      BY <3>2 DEF Outcome, Outcomes
    <3> QED
      BY <1>4, <2>1, <3>1, <3>2, <3>3
      DEF ExecuteItem, OnRequestComplete, Locations, remoteVars, stopVars
  <2>4. CASE Head(pending) \in Ops /\ execute_[Head(pending)] # "OnRequestComplete"
    BY <1>4, <2>1, <2>4 DEF ExecuteItem, OnScheduleComplete, StartAsyncRPC, Switched,
         Callbacks, Faults, remoteVars, stopVars
  <2> QED
    BY <2>1, <2>2, <2>3, <2>4
<1>5. CASE CallbackReturns
  BY <1>5 DEF CallbackReturns, Goes, allButPc, Locations, remoteVars, opVars, grpcVars, stopVars
<1>6. CASE CheckRemoteQueue
  <2>0. local_queue_ \o remote_queue_ \in Seq(Items) /\ <<>> \in Seq(Items)
    BY ConcatProperties, EmptySeq, Zenon
  <2>1. local_queue_' \in Seq(Items) /\ remote_queue_' \in Seq(Items)
    BY <1>6, <2>0 DEF CheckRemoteQueue, Relies, TryScheduleRemoteQueuedItems, QueueOrder, StaysActive
  <2>2. remote_active' \in BOOLEAN /\ remote_queue_read_submitted_' \in BOOLEAN
    BY <1>6, Zenon DEF CheckRemoteQueue, Relies, TryScheduleRemoteQueuedItems, QueueOrder, StaysActive
  <2>3. fault' \in Faults
    BY <1>6 DEF CheckRemoteQueue, Relies, TryScheduleRemoteQueuedItems, QueueOrder, StaysActive, Faults
  <2> QED
    BY <1>6, <2>1, <2>2, <2>3, Zenon
    DEF CheckRemoteQueue, Relies, Locations, opVars, grpcVars, stopVars
<1>7. CASE StopLoop
  BY <1>7 DEF StopLoop, Goes, allButPc, Locations, remoteVars, opVars, grpcVars, stopVars
<1>8. CASE AcquireNothing
  BY <1>8 DEF AcquireNothing, Drained, Goes, allButPc, Locations, remoteVars, opVars, grpcVars, stopVars
<1>9. CASE LeaveRun
  BY <1>9 DEF LeaveRun, Locations, Faults, remoteVars, opVars, grpcVars
<1>10. ASSUME NEW tag \in Tags, AcquireCompletionQueueItems(tag) PROVE TypeOK'
  <2>1. event_' \in [tag : Tags, ok : BOOLEAN]
    <3>1. tag # Null => answer[tag] \in BOOLEAN
      BY Zenon
    <3> QED
      BY <1>10, <3>1 DEF AcquireCompletionQueueItems, HandleEvent, AfterEvent
  <2>2. cq' \in SUBSET Tags
    BY <1>10, Zenon DEF AcquireCompletionQueueItems, HandleEvent, AfterEvent
  <2>3. CASE tag = Null
    BY <1>10, <2>1, <2>2, <2>3, Zenon DEF AcquireCompletionQueueItems, HandleEvent, AfterEvent, Locations,
       remoteVars, opVars, stopVars
  <2>4. CASE tag # Null
    <3>0. Append(local_queue_, tag) \in Seq(Items)
      BY <2>4, AppendProperties
    <3>1. local_queue_' \in Seq(Items)
      BY <1>10, <2>4, <3>0 DEF AcquireCompletionQueueItems, HandleEvent, AfterEvent, ScheduleLocal
    <3> QED
      BY <1>10, <2>1, <2>2, <2>4, <3>1, Zenon DEF AcquireCompletionQueueItems, HandleEvent, AfterEvent,
         ScheduleLocal, Locations, remoteVars, opVars, stopVars
  <2> QED
    BY <2>3, <2>4
<1>11. ASSUME NEW t \in Threads, SignalRemoteQueue(t) PROVE TypeOK'
  BY <1>11 DEF SignalRemoteQueue, Faults, runVars, opVars, stopVars
<1>12. ASSUME NEW t \in Threads, RequestStop(t) PROVE TypeOK'
  <2>1. QueueTypes'
    <3>1. CASE stop_callback = "registered"
      BY <1>12, <3>1, ScheduleTypes DEF RequestStop, ScheduleImpl
    <3>2. CASE stop_callback # "registered"
      BY <1>12, <3>2, Zenon DEF RequestStop, QueueTypes, remoteVars
    <3> QED
      BY <3>1, <3>2
  <2> QED
    BY <1>12, <2>1, Zenon DEF RequestStop, QueueTypes, runVars, opVars, grpcVars
<1>13. ASSUME NEW t \in Threads, ShutDown(t) PROVE TypeOK'
  BY <1>13 DEF ShutDown, runVars, remoteVars, opVars, grpcVars, stopVars
<1>14. ASSUME NEW t \in Threads, NEW op \in Ops, Start(t, op) PROVE TypeOK'
  <2>1. QueueTypes'
    <3>1. CASE IsRunningOnThisThread(t)
      BY <1>14, <3>1, Zenon DEF Start, QueueTypes, remoteVars
    <3>2. CASE ~IsRunningOnThisThread(t)
      BY <1>14, <3>2, ScheduleTypes DEF Start
    <3> QED
      BY <3>1, <3>2
  <2>2. outcome' \in [Ops -> Outcomes] /\ execute_' \in [Ops -> Callbacks]
    BY <1>14 DEF Start, StartAsyncRPC, Switched, Outcomes, Callbacks
  <2>3. inflight' \in SUBSET Ops /\ fault' \in Faults
    BY <1>14 DEF Start, StartAsyncRPC, Switched, Faults
  <2> QED
    BY <1>14, <2>1, <2>2, <2>3, Zenon DEF Start, QueueTypes, runVars, stopVars
<1>15. ASSUME NEW op \in Ops, GrpcCompletes(op) PROVE TypeOK'
  BY <1>15 DEF GrpcCompletes, runVars, remoteVars, opVars, stopVars
<1>16. CASE AlarmFires
  BY <1>16 DEF AlarmFires, runVars, remoteVars, opVars, stopVars
<1>17. CASE UNCHANGED vars
  BY <1>17 DEF vars
<1> HIDE DEF TypeOK, Items, Tags, Threads
<1> QED
  BY <1>1, <1>2, <1>3, <1>4, <1>5, <1>6, <1>7, <1>8, <1>9, <1>10, <1>11, <1>12,
     <1>13, <1>14, <1>15, <1>16, <1>17 DEF Next, RunnerStep, Faulted

(* Type correctness of the context, for every set of operations and        *)
(* threads: its queues only ever link operations and stop_op, an event     *)
(* carries the null tag or an operation.                                   *)
THEOREM TypeCorrect == Spec => []TypeOK
<1>1. Init => TypeOK
  <2> SUFFICES ASSUME Init PROVE TypeOK
    OBVIOUS
  <2>1. local_queue_ \in Seq(Items) /\ pending \in Seq(Items) /\ remote_queue_ \in Seq(Items)
    BY DEF Init
  <2>2. event_ \in [tag : Tags, ok : BOOLEAN]
    BY DEF Init, Tags
  <2>3. answer \in [Ops -> BOOLEAN]
    BY Zenon DEF Init
  <2>4. signal \in [Threads -> Items \cup {Null}]
    BY DEF Init
  <2>5. execute_ \in [Ops -> Callbacks] /\ outcome \in [Ops -> Outcomes]
    BY DEF Init, Callbacks, Outcomes
  <2> QED
    BY <2>1, <2>2, <2>3, <2>4, <2>5, Zenon DEF Init, TypeOK, Locations, Faults
<1> QED
  BY <1>1, NextKeepsTypes, PTL DEF Spec
-----------------------------------------------------------------------------
(* The wakeup protocol.                                                    *)

(* Every step keeps the wakeup invariant.                                  *)
LEMMA NextKeepsWakeup == TypeOK /\ TypeOK' /\ WakeupInv /\ [Next]_vars => WakeupInv'
<1> SUFFICES ASSUME TypeOK, TypeOK', WakeupInv, [Next]_vars PROVE WakeupInv'
  OBVIOUS
<1> USE ConstantsDistinct DEF WakeupInv, FreshIsIdle, WakeupIsUnique,
        FirstWakeupFindsWork, FirstWakeup, WakeupOutstanding, Signallers
<1>1. CASE Run
  <2>1. CASE stop_requested'
    <3>1. ScheduleRemote(Runner, StopOp)
      BY <1>1, <2>1 DEF Run, ScheduleImpl, IsRunningOnThisThread
    <3>2. remote_active' /\ remote_queue_' # <<>>
      BY <3>1 DEF ScheduleRemote, Told, TypeOK, Items
    <3>3. /\ fault' = "none" /\ fault = "none" /\ signal[Runner] = Null
          /\ pc = "outside" /\ pc' = "register" /\ ~should_stop_'
          /\ UNCHANGED <<pending, remote_queue_read_submitted_, grpcVars, shutdown>>
      BY <1>1 DEF Run, CanCall
    <3> QED
      BY <3>1, <3>2, <3>3 DEF ScheduleRemote, Told, grpcVars, TypeOK, Threads
  <2>2. CASE ~stop_requested'
    BY <1>1, <2>2 DEF Run, CanCall, remoteVars, grpcVars
  <2> QED
    BY <2>1, <2>2
<1>2. CASE EnterRunImpl
  BY <1>2 DEF EnterRunImpl, Goes, allButPc, remoteVars, opVars, grpcVars, stopVars
<1>3. CASE TakeLocalQueue
  BY <1>3 DEF TakeLocalQueue, MovedFrom, remoteVars, opVars, grpcVars, stopVars
<1>4. CASE ExecuteItem
  BY <1>4 DEF ExecuteItem, OnStop, OnRequestComplete, OnScheduleComplete, StartAsyncRPC, Switched, remoteVars, opVars, stopVars
<1>5. CASE CallbackReturns
  BY <1>5 DEF CallbackReturns, Goes, allButPc, remoteVars, opVars, grpcVars, stopVars
<1>6. CASE CheckRemoteQueue
  BY <1>6 DEF CheckRemoteQueue, Relies, TryScheduleRemoteQueuedItems, QueueOrder, StaysActive, 
              opVars, grpcVars, stopVars
<1>7. CASE StopLoop
  BY <1>7 DEF StopLoop, Goes, allButPc, remoteVars, opVars, grpcVars, stopVars
<1>8. CASE AcquireNothing
  BY <1>8 DEF AcquireNothing, Drained, Goes, allButPc, remoteVars, opVars, grpcVars, stopVars
<1>9. CASE LeaveRun
  BY <1>9 DEF LeaveRun, remoteVars, opVars, grpcVars
<1>10. ASSUME NEW tag \in Tags, AcquireCompletionQueueItems(tag) PROVE WakeupInv'
  BY <1>10 DEF AcquireCompletionQueueItems, HandleEvent, AfterEvent, ScheduleLocal, 
               remoteVars, opVars, stopVars, TypeOK, Tags
<1>11. ASSUME NEW t \in Threads, SignalRemoteQueue(t) PROVE WakeupInv'
  BY <1>11 DEF SignalRemoteQueue, runVars, opVars, stopVars, TypeOK
<1>12. ASSUME NEW t \in Threads, RequestStop(t) PROVE WakeupInv'
  BY <1>12 DEF RequestStop, ScheduleImpl, ScheduleRemote, Told, ScheduleLocal, CanCall, IsRunningOnThisThread,
               runVars, remoteVars, opVars, grpcVars, TypeOK
<1>13. ASSUME NEW t \in Threads, ShutDown(t) PROVE WakeupInv'
  BY <1>13 DEF ShutDown, runVars, remoteVars, opVars, grpcVars, stopVars
<1>14. ASSUME NEW t \in Threads, NEW op \in Ops, Start(t, op) PROVE WakeupInv'
  BY <1>14 DEF Start, StartAsyncRPC, Switched, ScheduleRemote, Told, CanCall, IsRunningOnThisThread,
               runVars, remoteVars, stopVars, TypeOK
<1>15. ASSUME NEW op \in Ops, GrpcCompletes(op) PROVE WakeupInv'
  BY <1>15 DEF GrpcCompletes, runVars, remoteVars, opVars, stopVars
<1>16. CASE AlarmFires
  BY <1>16 DEF AlarmFires, runVars, remoteVars, opVars, stopVars
<1>17. CASE UNCHANGED vars
  BY <1>17 DEF vars
<1> HIDE DEF WakeupInv
<1> QED
  BY <1>1, <1>2, <1>3, <1>4, <1>5, <1>6, <1>7, <1>8, <1>9, <1>10, <1>11, <1>12,
     <1>13, <1>14, <1>15, <1>16, <1>17 DEF Next, RunnerStep, Faulted

(* The wakeup invariant holds in every reachable state.                    *)
THEOREM WakeupInvariant == Spec => [](TypeOK /\ WakeupInv)
<1>1. Init => WakeupInv
  BY DEF Init, WakeupInv, FreshIsIdle, WakeupIsUnique, FirstWakeupFindsWork,
         FirstWakeup, WakeupOutstanding, Signallers
<1> QED
  BY <1>1, TypeCorrect, NextKeepsWakeup, PTL DEF Spec

(* No wakeup is lost: whenever the runner relies on being woken up and the *)
(* remote queue holds an item, a thread is about to set the alarm or the   *)
(* alarm's event is still to be taken.                                     *)
THEOREM NoWakeupLost == Spec => []WakeupNotLost
<1>1. TypeOK /\ WakeupInv => WakeupNotLost
  BY DEF WakeupInv, FreshIsIdle, WakeupIsUnique, WakeupNotLost
<1> QED
  BY <1>1, WakeupInvariant, PTL

(* work_alarm_ is never set while it is still outstanding, although no     *)
(* lock protects it: before a shutdown at most one thread is signalling.   *)
THEOREM AlarmNeverReset == Spec => []AlarmExclusive
<1>1. TypeOK /\ WakeupInv => AlarmExclusive
  BY DEF WakeupInv, WakeupIsUnique, AlarmExclusive
<1> QED
  BY <1>1, WakeupInvariant, PTL

(* If something is scheduled before the first Run, the runner never calls  *)
(* try_mark_inactive_or_dequeue_all on an inactive queue.                  *)
THEOREM DequeuesOnlyActive ==
  ASSUME WorkBeforeRun
  PROVE  Spec => []InactiveNeverDequeued
<1>1. TypeOK /\ WakeupInv => InactiveNeverDequeued
  BY WorkBeforeRun DEF WakeupInv, InactiveNeverDequeued
<1> QED
  BY <1>1, WakeupInvariant, PTL

(* So the false it returns means what its comment says: another thread has *)
(* enqueued something to the remote queue.                                 *)
THEOREM FalseIsEnqueued ==
  ASSUME WorkBeforeRun
  PROVE  Spec => FalseMeansEnqueued
<1>1. WakeupInv' /\ CheckRemoteQueue /\ ~remote_queue_read_submitted_' => remote_queue_ # <<>>
  BY WorkBeforeRun DEF WakeupInv, CheckRemoteQueue, Relies, TryScheduleRemoteQueuedItems
<1>2. WakeupInv' /\ [Next]_vars =>
        [CheckRemoteQueue /\ ~remote_queue_read_submitted_' => remote_queue_ # <<>>]_vars
  BY <1>1
<1> QED
  BY <1>2, WakeupInvariant, PTL DEF Spec, FalseMeansEnqueued

(* The runner waits in Next with items in its local queue, taken there     *)
(* from the remote one, and there is nothing an event could come from.     *)
Stuck ==
  /\ fault = "none" /\ pc = "next" /\ local_queue_ # <<>>
  /\ remote_active /\ Signallers = {} /\ work_alarm_ = "unset"
  /\ cq = {} /\ inflight = {}

(* Nothing but ShutDown ends that, however much is scheduled and whoever   *)
(* requests a stop: enqueue finds the remote queue active, so that nobody  *)
(* is told to signal.                                                      *)
LEMMA NextKeepsStuck ==
  ASSUME Stuck, ~shutdown, [Next]_vars
  PROVE  Stuck' \/ shutdown'
<1> USE DEF Stuck, Signallers
<1>1. ASSUME NEW t \in Threads, SignalRemoteQueue(t) PROVE FALSE
  BY <1>1 DEF SignalRemoteQueue
<1>2. ASSUME NEW t \in Threads, RequestStop(t) PROVE Stuck'
  BY <1>2 DEF RequestStop, CanCall, ScheduleImpl, ScheduleRemote, Told,
              IsRunningOnThisThread, runVars, remoteVars, opVars, grpcVars
<1>3. ASSUME NEW t \in Threads, ShutDown(t) PROVE shutdown'
  BY <1>3 DEF ShutDown
<1>4. ASSUME NEW t \in Threads, NEW op \in Ops, Start(t, op) PROVE Stuck'
  BY <1>4 DEF Start, CanCall, ScheduleRemote, Told, IsRunningOnThisThread, runVars, stopVars
<1>5. ASSUME NEW op \in Ops, GrpcCompletes(op) PROVE FALSE
  BY <1>5 DEF GrpcCompletes
<1>6. ~Run /\ ~RunnerStep /\ ~AlarmFires /\ ~Faulted
  BY DEF Run, RunnerStep, EnterRunImpl, TakeLocalQueue, ExecuteItem, CallbackReturns,
         CheckRemoteQueue, StopLoop, AcquireNothing, Drained, LeaveRun, Goes,
         AcquireCompletionQueueItems, AlarmFires, Faulted
<1>7. CASE UNCHANGED vars
  BY <1>7 DEF vars
<1> HIDE DEF Stuck
<1> QED
  BY <1>1, <1>2, <1>3, <1>4, <1>5, <1>6, <1>7 DEF Next

(* Work that was scheduled while the loop decided to wait is not executed  *)
(* any more: the runner stays where it is until the context is shut down.  *)
THEOREM StuckForGood == Spec => [](Stuck => [](Stuck \/ shutdown))
<1>1. shutdown /\ [Next]_vars => shutdown'
  BY DEF Next, RunnerStep, Run, EnterRunImpl, TakeLocalQueue, ExecuteItem, CallbackReturns,
         CheckRemoteQueue, StopLoop, AcquireNothing, LeaveRun, Goes, allButPc,
         AcquireCompletionQueueItems, SignalRemoteQueue, RequestStop, ShutDown, Start,
         GrpcCompletes, AlarmFires, Faulted, vars
<1>2. (Stuck \/ shutdown) /\ [Next]_vars => (Stuck \/ shutdown)'
  BY <1>1, NextKeepsStuck
<1> QED
  BY <1>2, PTL DEF Spec
-----------------------------------------------------------------------------
(* The inductive invariant behind the contract: where items can be.        *)
Distinct(queue) == \A i, j \in 1..Len(queue) : queue[i] = queue[j] => i = j

Queued(item) ==
  \/ Linked(item, pending) \/ Linked(item, local_queue_) \/ Linked(item, remote_queue_)

(* The queues are intrusive: an item can be linked once, in one of them.   *)
LinkedOnce ==
  /\ Distinct(pending) /\ Distinct(local_queue_) /\ Distinct(remote_queue_)
  /\ \A item \in Items :
       /\ Linked(item, pending) => ~Linked(item, local_queue_) /\ ~Linked(item, remote_queue_)
       /\ Linked(item, local_queue_) => ~Linked(item, remote_queue_)

(* An operation that has been started and not delivered is in exactly one  *)
(* place: linked in a queue, with gRPC, or in the completion queue.  Any   *)
(* other operation is in none, so that it may be destroyed.                *)
OnePlace ==
  \A op \in Ops :
    /\ outcome[op] = "running" <=> Queued(op) \/ op \in inflight \/ op \in cq
    /\ op \in inflight => ~Queued(op) /\ op \notin cq
    /\ op \in cq => ~Queued(op)

(* execute_ says what is to be done with the operation where it is.  One   *)
(* that gRPC has answered is linked in the turn of the loop that took its  *)
(* event, and event_ is still its own.                                     *)
CallbackAgrees ==
  \A op \in Ops :
    /\ op \in inflight \cup cq => execute_[op] = "OnRequestComplete"
    /\ Linked(op, remote_queue_) => execute_[op] = "OnScheduleComplete"
    /\ execute_[op] = "OnRequestComplete" /\ Queued(op) =>
         /\ pc = "drain" \/ Linked(op, pending)
         /\ event_ = [tag |-> op, ok |-> answer[op]]

(* While items are executed only stop_op can be scheduled locally.         *)
LoopAgrees ==
  /\ pending # <<>> => pc \in {"exec", "callback"}
  /\ pc \in {"exec", "callback"} \/ (pc = "leave" /\ should_stop_) =>
       \A op \in Ops : ~Linked(op, local_queue_)
  /\ pc = "leave" /\ ~should_stop_ => shutdown

(* stop_op is scheduled once in each Run, before should_stop_ is set.      *)
StopAgrees ==
  /\ pc = "outside" <=> stop_callback \in {"none", "destroyed"}
  /\ Queued(StopOp) => stop_callback = "invoked" /\ ~should_stop_
  /\ should_stop_ =>
       stop_callback # "registered" /\ pc \in {"exec", "callback", "leave", "outside"}

PlacesInv ==
  /\ StoppedRunIsClean
  /\ fault = "none" =>
       LinkedOnce /\ OnePlace /\ CallbackAgrees /\ LoopAgrees /\ StopAgrees

(* What the operations on the queues do to the items linked in them.       *)
LEMMA AppendLinks ==
  ASSUME NEW S, NEW queue \in Seq(S), NEW item \in S
  PROVE  /\ \A x : Linked(x, Append(queue, item)) <=> Linked(x, queue) \/ x = item
         /\ Distinct(queue) /\ ~Linked(item, queue) => Distinct(Append(queue, item))
<1>1. /\ Len(Append(queue, item)) = Len(queue) + 1 /\ Len(queue) \in Nat
      /\ \A i \in 1..Len(queue) : Append(queue, item)[i] = queue[i]
      /\ Append(queue, item)[Len(queue) + 1] = item
  BY AppendProperties, LenProperties
<1>2. ASSUME NEW x PROVE Linked(x, Append(queue, item)) <=> Linked(x, queue) \/ x = item
  BY <1>1, SMT DEF Linked
<1>3. ASSUME Distinct(queue), ~Linked(item, queue) PROVE Distinct(Append(queue, item))
  BY <1>1, <1>3, SMT DEF Linked, Distinct
<1> QED
  BY <1>2, <1>3

LEMMA ConcatLinks ==
  ASSUME NEW S, NEW queue \in Seq(S), NEW other \in Seq(S)
  PROVE  /\ \A x : Linked(x, queue \o other) <=> Linked(x, queue) \/ Linked(x, other)
         /\ Distinct(queue) /\ Distinct(other)
              /\ (\A x \in S : ~(Linked(x, queue) /\ Linked(x, other))) => Distinct(queue \o other)
<1>1. /\ Len(queue \o other) = Len(queue) + Len(other)
      /\ Len(queue) \in Nat /\ Len(other) \in Nat
      /\ \A i \in 1..Len(queue) + Len(other) :
            (queue \o other)[i] = IF i <= Len(queue) THEN queue[i] ELSE other[i - Len(queue)]
  BY ConcatProperties, LenProperties
<1>2. ASSUME NEW x PROVE Linked(x, queue \o other) <=> Linked(x, queue) \/ Linked(x, other)
  <2>1. Linked(x, queue \o other) => Linked(x, queue) \/ Linked(x, other)
    BY <1>1, SMT DEF Linked
  <2>2. Linked(x, queue) => Linked(x, queue \o other)
    BY <1>1, SMT DEF Linked
  <2>3. ASSUME Linked(x, other) PROVE Linked(x, queue \o other)
    <3>1. PICK i \in 1..Len(other) : other[i] = x
      BY <2>3 DEF Linked
    <3>2. /\ i + Len(queue) \in 1..Len(queue) + Len(other)
          /\ (queue \o other)[i + Len(queue)] = x
      BY <1>1, <3>1, SMT
    <3> QED
      BY <1>1, <3>2 DEF Linked
  <2> QED
    BY <2>1, <2>2, <2>3
<1>3. ASSUME Distinct(queue), Distinct(other),
             \A x \in S : ~(Linked(x, queue) /\ Linked(x, other))
      PROVE  Distinct(queue \o other)
  <2>1. \A i \in 1..Len(queue), j \in 1..Len(other) : queue[i] # other[j]
    BY <1>3, ElementOfSeq DEF Linked
  <2> QED
    BY <1>1, <1>3, <2>1, SMT DEF Distinct
<1> QED
  BY <1>2, <1>3

LEMMA TailLinks ==
  ASSUME NEW S, NEW queue \in Seq(S), queue # <<>>, Distinct(queue)
  PROVE  /\ \A x : Linked(x, queue) <=> x = Head(queue) \/ Linked(x, Tail(queue))
         /\ ~Linked(Head(queue), Tail(queue))
         /\ Distinct(Tail(queue))
<1>1. /\ Len(queue) \in Nat \ {0} /\ Len(Tail(queue)) = Len(queue) - 1
      /\ Head(queue) = queue[1]
      /\ \A i \in 1..Len(queue) - 1 : Tail(queue)[i] = queue[i + 1]
  BY HeadTailProperties, LenProperties, EmptySeq
<1>2. ASSUME NEW x PROVE Linked(x, queue) <=> x = Head(queue) \/ Linked(x, Tail(queue))
  <2>1. ASSUME Linked(x, queue), x # Head(queue) PROVE Linked(x, Tail(queue))
    <3>1. PICK i \in 1..Len(queue) : queue[i] = x
      BY <2>1 DEF Linked
    <3>2. i - 1 \in 1..Len(queue) - 1 /\ Tail(queue)[i - 1] = x
      BY <1>1, <2>1, <3>1, SMT
    <3> QED
      BY <1>1, <3>2 DEF Linked
  <2>2. Linked(x, Tail(queue)) => Linked(x, queue)
    BY <1>1, SMT DEF Linked
  <2>3. x = Head(queue) => Linked(x, queue)
    BY <1>1, SMT DEF Linked
  <2> QED
    BY <2>1, <2>2, <2>3
<1>3. ~Linked(Head(queue), Tail(queue)) /\ Distinct(Tail(queue))
  BY <1>1, SMT DEF Linked, Distinct
<1> QED
  BY <1>2, <1>3

LEMMA EmptyLinks ==
  /\ \A x : ~Linked(x, <<>>)
  /\ Distinct(<<>>)
  /\ \A S : \A queue \in Seq(S) : (\A x \in S : ~Linked(x, queue)) => queue = <<>>
<1>1. (\A x : ~Linked(x, <<>>)) /\ Distinct(<<>>)
  BY SMT DEF Linked, Distinct
<1>2. ASSUME NEW S, NEW queue \in Seq(S), \A x \in S : ~Linked(x, queue) PROVE queue = <<>>
  <2>1. Len(queue) \in Nat /\ \A i \in 1..Len(queue) : queue[i] \in S
    BY ElementOfSeq, LenProperties
  <2>2. Len(queue) = 0
    BY <1>2, <2>1, SMT DEF Linked
  <2> QED
    BY <2>2, EmptySeq
<1> QED
  BY <1>1, <1>2

(* Scheduling links the item in one of the two queues.                     *)
LEMMA ScheduleLinks ==
  ASSUME TypeOK, NEW t \in Threads, NEW item \in Items
  PROVE  /\ ScheduleLocal(item) =>
              /\ \A x : Linked(x, local_queue_') <=> Linked(x, local_queue_) \/ x = item
              /\ Distinct(local_queue_) /\ ~Linked(item, local_queue_) => Distinct(local_queue_')
              /\ remote_queue_' = remote_queue_
         /\ ScheduleRemote(t, item) =>
              /\ \A x : Linked(x, remote_queue_') <=> Linked(x, remote_queue_) \/ x = item
              /\ Distinct(remote_queue_) /\ ~Linked(item, remote_queue_) => Distinct(remote_queue_')
              /\ local_queue_' = local_queue_
<1>1. local_queue_ \in Seq(Items) /\ remote_queue_ \in Seq(Items)
  BY DEF TypeOK
<1>2. /\ ScheduleLocal(item) => local_queue_' = Append(local_queue_, item) /\ remote_queue_' = remote_queue_
      /\ ScheduleRemote(t, item) => remote_queue_' = Append(remote_queue_, item) /\ local_queue_' = local_queue_
  BY DEF ScheduleLocal, ScheduleRemote, remoteVars
<1>3. /\ \A x : Linked(x, Append(local_queue_, item)) <=> Linked(x, local_queue_) \/ x = item
      /\ Distinct(local_queue_) /\ ~Linked(item, local_queue_) => Distinct(Append(local_queue_, item))
  BY <1>1, AppendLinks, Zenon
<1>4. /\ \A x : Linked(x, Append(remote_queue_, item)) <=> Linked(x, remote_queue_) \/ x = item
      /\ Distinct(remote_queue_) /\ ~Linked(item, remote_queue_) => Distinct(Append(remote_queue_, item))
  BY <1>1, AppendLinks, Zenon
<1> QED
  BY <1>2, <1>3, <1>4, Zenon

(* Every step keeps the items where they belong.                           *)
LEMMA NextKeepsPlaces == TypeOK /\ TypeOK' /\ PlacesInv /\ [Next]_vars => PlacesInv'
<1> SUFFICES ASSUME TypeOK, TypeOK', PlacesInv, [Next]_vars PROVE PlacesInv'
  OBVIOUS
<1> USE ConstantsDistinct DEF PlacesInv, StoppedRunIsClean, LinkedOnce, OnePlace, CallbackAgrees,
        LoopAgrees, StopAgrees, Queued
<1>1. CASE Run
  <2>1. /\ fault = "none" /\ fault' = "none" /\ pc = "outside" /\ pc' = "register" /\ ~should_stop_'
        /\ UNCHANGED <<pending, event_, execute_, outcome, inflight, cq, answer, shutdown>>
    BY <1>1 DEF Run, CanCall, opVars, grpcVars
  <2>2. ~Queued(StopOp)
    BY <2>1
  <2>3. CASE stop_requested'
    <3>1. ScheduleRemote(Runner, StopOp) /\ stop_callback' = "invoked"
      BY <1>1, <2>3 DEF Run, ScheduleImpl, IsRunningOnThisThread
    <3>2. StopOp \in Items /\ Runner \in Threads
      BY DEF Items, Threads
    <3> QED
      BY <2>1, <2>2, <3>1, <3>2, ScheduleLinks
  <2>4. CASE ~stop_requested'
    <3>1. stop_callback' = "registered" /\ local_queue_' = local_queue_ /\ remote_queue_' = remote_queue_
      BY <1>1, <2>4 DEF Run, remoteVars
    <3> QED
      BY <2>1, <2>2, <3>1
  <2> QED
    BY <2>3, <2>4
<1>2. CASE EnterRunImpl \/ CallbackReturns \/ AcquireNothing
  BY <1>2 DEF EnterRunImpl, CallbackReturns, AcquireNothing, Drained, Goes, allButPc,
              remoteVars, opVars, grpcVars, stopVars
<1>3. CASE StopLoop
  <2>1. /\ fault = "none" /\ pc = "exec" /\ pc' = "leave" /\ should_stop_ /\ pending = <<>>
        /\ UNCHANGED <<local_queue_, pending, remote_queue_, event_, execute_, outcome, inflight, cq,
                        answer, shutdown, stop_callback, should_stop_, fault>>
    BY <1>3 DEF StopLoop, Goes, allButPc, remoteVars, opVars, grpcVars, stopVars
  <2>2. local_queue_ = <<>>
    <3>1. \A x \in Items : ~Linked(x, local_queue_)
      BY <2>1 DEF Items
    <3> QED
      BY <3>1, EmptyLinks DEF TypeOK
  <2> QED
    BY <2>1, <2>2
<1>4. CASE TakeLocalQueue
  <2>1. /\ fault = "none" /\ pc = "drain" /\ pc' = "exec"
        /\ pending' = local_queue_ /\ local_queue_' = <<>>
        /\ UNCHANGED <<remote_queue_, event_, execute_, outcome, inflight, cq,
                        answer, shutdown, stop_callback, should_stop_, fault>>
    BY <1>4 DEF TakeLocalQueue, MovedFrom, remoteVars, opVars, grpcVars, stopVars
  <2>2. pending = <<>>
    BY <2>1
  <2> QED
    BY <2>1, <2>2, EmptyLinks
<1>5. CASE ExecuteItem
  <2> DEFINE item == Head(pending)
  <2>1. /\ fault = "none" /\ pc = "exec" /\ pending # <<>> /\ pending' = Tail(pending)
        /\ UNCHANGED <<local_queue_, remote_queue_, event_, cq, answer, shutdown, stop_callback>>
    BY <1>5 DEF ExecuteItem, remoteVars, stopVars
  <2>2. /\ item \in Items
        /\ \A x : Linked(x, pending) <=> x = item \/ Linked(x, pending')
        /\ ~Linked(item, pending') /\ Distinct(pending')
    <3>1. pending \in Seq(Items) /\ Distinct(pending)
      BY <2>1 DEF TypeOK
    <3> QED
      BY <2>1, <3>1, TailLinks, HeadTailProperties
  <2>3. CASE item = StopOp
    <3>1. should_stop_' /\ UNCHANGED <<pc, execute_, outcome, inflight, fault>>
      BY <1>5, <2>3 DEF ExecuteItem, OnStop, opVars
    <3> HIDE DEF item
    <3> QED
      BY <2>1, <2>2, <2>3, <3>1
  <2>4. CASE item \in Ops /\ execute_[item] = "OnRequestComplete"
    <3>1. /\ pc' = "callback" /\ UNCHANGED <<execute_, inflight, should_stop_, fault>>
          /\ \E result \in {Outcome(event_.ok), "error"} : outcome' = [outcome EXCEPT ![item] = result]
      BY <1>5, <2>4 DEF ExecuteItem, OnRequestComplete
    <3>2. outcome'[item] # "running" /\ \A op \in Ops : op # item => outcome'[op] = outcome[op]
      BY <2>4, <3>1 DEF Outcome, TypeOK
    <3> HIDE DEF item
    <3> QED
      BY <2>1, <2>2, <2>4, <3>1, <3>2
  <2>5. CASE item \in Ops /\ execute_[item] # "OnRequestComplete"
    <3>1. /\ execute_' = [execute_ EXCEPT ![item] = "OnRequestComplete"]
          /\ fault' = "none" => inflight' = inflight \cup {item}
          /\ UNCHANGED <<pc, outcome, should_stop_>>
      BY <1>5, <2>5 DEF ExecuteItem, OnScheduleComplete, StartAsyncRPC, Switched
    <3>2. execute_'[item] = "OnRequestComplete" /\ \A op \in Ops : op # item => execute_'[op] = execute_[op]
      BY <2>5, <3>1 DEF TypeOK
    <3> HIDE DEF item
    <3> QED
      BY <2>1, <2>2, <2>5, <3>1, <3>2
  <2> QED
    BY <2>2, <2>3, <2>4, <2>5 DEF Items
<1>6. CASE CheckRemoteQueue
  <2>1. /\ fault = "none" /\ pc = "exec" /\ pc' = "next" /\ ~should_stop_ /\ pending = <<>>
        /\ UNCHANGED <<pending, event_, execute_, outcome, inflight, cq, answer, shutdown,
                        stop_callback, should_stop_>>
    BY <1>6 DEF CheckRemoteQueue, opVars, grpcVars, stopVars
  <2>2. CASE remote_queue_read_submitted_
    <3>1. UNCHANGED <<local_queue_, remote_queue_, fault>>
      BY <1>6, <2>2 DEF CheckRemoteQueue, Relies
    <3> QED
      BY <2>1, <3>1, EmptyLinks
  <2>3. CASE ~remote_queue_read_submitted_
    <3>1. local_queue_' = local_queue_ \o remote_queue_ /\ remote_queue_' = <<>>
      BY <1>6, <2>3 DEF CheckRemoteQueue, Relies, TryScheduleRemoteQueuedItems, QueueOrder
    <3>2. /\ \A x : Linked(x, local_queue_') <=> Linked(x, local_queue_) \/ Linked(x, remote_queue_)
          /\ Distinct(local_queue_')
      <4>1. /\ local_queue_ \in Seq(Items) /\ remote_queue_ \in Seq(Items)
            /\ Distinct(local_queue_) /\ Distinct(remote_queue_)
            /\ \A x \in Items : ~(Linked(x, local_queue_) /\ Linked(x, remote_queue_))
        BY <2>1 DEF TypeOK
      <4> QED
        BY <3>1, <4>1, ConcatLinks
    <3> QED
      BY <2>1, <3>1, <3>2, EmptyLinks
  <2> QED
    BY <2>2, <2>3
<1>7. CASE LeaveRun
  <2>1. /\ fault = "none" /\ pc = "leave" /\ pc' = "outside" /\ stop_callback' = "destroyed"
        /\ fault' = "none" => ~Linked(StopOp, local_queue_) /\ ~Linked(StopOp, remote_queue_)
        /\ UNCHANGED <<local_queue_, pending, remote_queue_, event_, execute_, outcome, inflight, cq,
                        answer, shutdown, should_stop_>>
    BY <1>7 DEF LeaveRun, remoteVars, opVars, grpcVars
  <2>2. pending = <<>>
    BY <2>1
  <2> QED
    BY <2>1, <2>2, EmptyLinks
<1>8. ASSUME NEW tag \in Tags, AcquireCompletionQueueItems(tag) PROVE PlacesInv'
  <2>1. /\ fault = "none" /\ pc = "next" /\ pc' = "drain" /\ tag \in cq /\ cq' = cq \ {tag}
        /\ UNCHANGED <<pending, execute_, outcome, inflight, answer, shutdown, stop_callback,
                        should_stop_, fault>>
    BY <1>8 DEF AcquireCompletionQueueItems, AfterEvent, opVars, stopVars
  <2>2. pending = <<>>
    BY <2>1
  <2>3. CASE tag = Null
    <3>1. local_queue_' = local_queue_ /\ remote_queue_' = remote_queue_
      BY <1>8, <2>3 DEF AcquireCompletionQueueItems, HandleEvent, remoteVars
    <3> QED
      BY <2>1, <2>2, <2>3, <3>1, EmptyLinks
  <2>4. CASE tag \in Ops
    <3>1. ScheduleLocal(tag) /\ event_' = [tag |-> tag, ok |-> answer[tag]]
      BY <1>8, <2>4 DEF AcquireCompletionQueueItems, HandleEvent
    <3>2. tag \in Items /\ Runner \in Threads
      BY <2>4 DEF Items, Threads
    <3> QED
      BY <2>1, <2>2, <2>4, <3>1, <3>2, EmptyLinks, ScheduleLinks
  <2> QED
    BY <2>3, <2>4 DEF Tags
<1>9. ASSUME NEW t \in Threads, SignalRemoteQueue(t) PROVE PlacesInv'
  BY <1>9 DEF SignalRemoteQueue, runVars, opVars, stopVars
<1>10. ASSUME NEW t \in Threads, RequestStop(t) PROVE PlacesInv'
  <2>1. /\ fault = "none"
        /\ UNCHANGED <<pc, pending, event_, execute_, outcome, inflight, cq, answer, shutdown,
                        should_stop_, fault>>
    BY <1>10 DEF RequestStop, CanCall, runVars, opVars, grpcVars
  <2>2. CASE stop_callback = "registered"
    <3>1. stop_callback' = "invoked" /\ ScheduleImpl(t, StopOp)
      BY <1>10, <2>2 DEF RequestStop
    <3>2. StopOp \in Items /\ ~Queued(StopOp)
      BY <2>1, <2>2 DEF Items
    <3>3. CASE ScheduleLocal(StopOp)
      BY <2>1, <2>2, <3>1, <3>2, <3>3, ScheduleLinks
    <3>4. CASE ScheduleRemote(t, StopOp)
      BY <2>1, <2>2, <3>1, <3>2, <3>4, ScheduleLinks
    <3> QED
      BY <3>1, <3>3, <3>4 DEF ScheduleImpl
  <2>3. CASE stop_callback # "registered"
    <3>1. UNCHANGED <<stop_callback, local_queue_, remote_queue_>>
      BY <1>10, <2>3 DEF RequestStop, remoteVars
    <3> QED
      BY <2>1, <3>1
  <2> QED
    BY <2>2, <2>3
<1>11. ASSUME NEW t \in Threads, ShutDown(t) PROVE PlacesInv'
  BY <1>11 DEF ShutDown, runVars, remoteVars, opVars, grpcVars, stopVars
<1>12. ASSUME NEW t \in Threads, NEW op \in Ops, Start(t, op) PROVE PlacesInv'
  <2>1. /\ fault = "none" /\ outcome[op] # "running" /\ outcome'[op] = "running"
        /\ \A o \in Ops : o # op => outcome'[o] = outcome[o] /\ execute_'[o] = execute_[o]
        /\ UNCHANGED <<pc, pending, event_, cq, answer, shutdown, stop_callback, should_stop_>>
    BY <1>12 DEF Start, StartAsyncRPC, Switched, CanCall, runVars, stopVars, TypeOK
  <2>2. ~Queued(op) /\ op \notin inflight /\ op \notin cq
    BY <2>1
  <2>3. CASE IsRunningOnThisThread(t)
    <3>1. /\ execute_'[op] = "OnRequestComplete"
          /\ fault' = "none" => inflight' = inflight \cup {op}
          /\ UNCHANGED <<local_queue_, remote_queue_>>
      BY <1>12, <2>3 DEF Start, StartAsyncRPC, Switched, remoteVars, TypeOK
    <3> QED
      BY <2>1, <2>2, <3>1
  <2>4. CASE ~IsRunningOnThisThread(t)
    <3>1. /\ execute_'[op] = "OnScheduleComplete" /\ ScheduleRemote(t, op)
          /\ UNCHANGED <<inflight, fault>>
      BY <1>12, <2>4 DEF Start, TypeOK
    <3>2. op \in Items
      BY DEF Items
    <3> QED
      BY <2>1, <2>2, <3>1, <3>2, ScheduleLinks
  <2> QED
    BY <2>3, <2>4
<1>13. ASSUME NEW op \in Ops, GrpcCompletes(op) PROVE PlacesInv'
  BY <1>13 DEF GrpcCompletes, runVars, remoteVars, opVars, stopVars, TypeOK
<1>14. CASE AlarmFires
  BY <1>14 DEF AlarmFires, runVars, remoteVars, opVars, stopVars
<1>15. CASE UNCHANGED vars
  BY <1>15 DEF vars
<1> HIDE DEF PlacesInv
<1> QED
  BY <1>1, <1>2, <1>3, <1>4, <1>5, <1>6, <1>7, <1>8, <1>9, <1>10, <1>11, <1>12,
     <1>13, <1>14, <1>15 DEF Next, RunnerStep, Faulted

(* The places of the items, in every reachable state.  In particular a     *)
(* started operation is in exactly one place until its receiver has been   *)
(* called, and in none from then on: nothing is lost, linked twice, or     *)
(* still referred to when its owner may destroy it.                        *)
THEOREM PlacesInvariant == Spec => [](TypeOK /\ PlacesInv)
<1>1. Init => PlacesInv
  BY EmptyLinks, ConstantsDistinct DEF Init, PlacesInv, StoppedRunIsClean, LinkedOnce, OnePlace,
     CallbackAgrees, LoopAgrees, StopAgrees, Queued
<1> QED
  BY <1>1, TypeCorrect, NextKeepsPlaces, PTL DEF Spec

(* A loop that ends because stop was requested has executed everything in  *)
(* its local queue, and no queue refers to stop_op, which is about to die  *)
(* with the frame of Run.                                                  *)
THEOREM StoppedRunsAreClean == Spec => []StoppedRunIsClean
<1>1. PlacesInv => StoppedRunIsClean
  BY DEF PlacesInv
<1> QED
  BY <1>1, PlacesInvariant, PTL
-----------------------------------------------------------------------------
(* The contract of an operation.                                           *)

(* A step that changes the phase of one operation, and one that changes    *)
(* none.                                                                   *)
LEMMA PhaseStep ==
  ASSUME NEW op \in Ops, \A o \in Ops : o # op => Phase(o)' = Phase(o)
  PROVE  [o \in Ops |-> Phase(o)]' =
           [[o \in Ops |-> Phase(o)] EXCEPT ![op] = Phase(op)']
OBVIOUS

LEMMA PhaseStutter ==
  ASSUME \A o \in Ops : Phase(o)' = Phase(o), UNCHANGED <<answer, outcome>>
  PROVE  UNCHANGED Contract!vars
BY DEF Contract!vars

(* Answered in terms of the two queues.                                    *)
LEMMA AnsweredIs ==
  ASSUME pending \in Seq(Items), local_queue_ \in Seq(Items)
  PROVE  \A op : Answered(op) <=>
           \/ op \in cq
           \/ /\ execute_[op] = "OnRequestComplete"
              /\ Linked(op, pending) \/ Linked(op, local_queue_)
<1>1. \A x : Linked(x, pending \o local_queue_) <=> Linked(x, pending) \/ Linked(x, local_queue_)
  BY ConcatLinks, Zenon
<1> QED
  BY <1>1 DEF Answered

(* Every step of the context is a step of the contract for one operation,  *)
(* or none that the contract can see.                                      *)
LEMMA NextKeepsContract ==
  TypeOK /\ TypeOK' /\ PlacesInv /\ [Next]_vars => [Contract!Next]_(Contract!vars)
<1> SUFFICES ASSUME TypeOK, TypeOK', PlacesInv, [Next]_vars
             PROVE  Contract!Next \/ UNCHANGED Contract!vars
  OBVIOUS
<1>1. \A op : Answered(op) <=>
        \/ op \in cq
        \/ /\ execute_[op] = "OnRequestComplete"
           /\ Linked(op, pending) \/ Linked(op, local_queue_)
  BY AnsweredIs DEF TypeOK
<1>2. \A op : Answered(op)' <=>
        \/ op \in cq'
        \/ /\ execute_'[op] = "OnRequestComplete"
           /\ Linked(op, pending') \/ Linked(op, local_queue_')
  <2>1. pending' \in Seq(Items) /\ local_queue_' \in Seq(Items)
    BY DEF TypeOK
  <2>2. \A x : Linked(x, pending' \o local_queue_') <=> Linked(x, pending') \/ Linked(x, local_queue_')
    BY <2>1, ConcatLinks, Zenon
  <2> QED
    BY <2>2 DEF Answered
<1> DEFINE Unseen(op) == /\ outcome'[op] = outcome[op]
                         /\ op \in inflight' <=> op \in inflight
                         /\ Answered(op)' <=> Answered(op)
<1>3. \A op \in Ops : Unseen(op) => Phase(op)' = Phase(op)
  BY DEF Phase
<1>4. ASSUME \A op \in Ops : Unseen(op), UNCHANGED <<answer, outcome>>
      PROVE  UNCHANGED Contract!vars
  BY <1>3, <1>4, PhaseStutter
<1>5. ASSUME NEW op \in Ops, \A o \in Ops : o # op => Unseen(o)
      PROVE  [o \in Ops |-> Phase(o)]' = [[o \in Ops |-> Phase(o)] EXCEPT ![op] = Phase(op)']
  BY <1>3, <1>5, PhaseStep
<1> USE ConstantsDistinct DEF PlacesInv, LinkedOnce, OnePlace, CallbackAgrees, LoopAgrees, Queued
<1>6. ASSUME UNCHANGED <<pending, local_queue_, execute_, outcome, inflight, cq, answer>>
      PROVE  UNCHANGED Contract!vars
  BY <1>1, <1>2, <1>4, <1>6
<1>7. ASSUME ScheduleLocal(StopOp),
             UNCHANGED <<pending, execute_, outcome, inflight, cq, answer>>
      PROVE  UNCHANGED Contract!vars
  <2>1. \A x : Linked(x, local_queue_') <=> Linked(x, local_queue_) \/ x = StopOp
    BY <1>7, ScheduleLinks DEF Items, Threads
  <2> QED
    BY <1>1, <1>2, <1>4, <1>7, <2>1
<1>8. CASE Run
  <2>1. UNCHANGED <<pending, local_queue_, execute_, outcome, inflight, cq, answer>>
    BY <1>8 DEF Run, ScheduleImpl, IsRunningOnThisThread, ScheduleRemote, opVars, grpcVars
  <2> QED
    BY <1>6, <2>1
<1>9. CASE EnterRunImpl \/ CallbackReturns \/ AcquireNothing \/ StopLoop \/ LeaveRun
  BY <1>6, <1>9 DEF EnterRunImpl, CallbackReturns, AcquireNothing, StopLoop, LeaveRun, Goes, allButPc,
     opVars, grpcVars
<1>10. CASE TakeLocalQueue
  <2>1. /\ pending = <<>> /\ pending' = local_queue_ /\ local_queue_' = <<>>
        /\ UNCHANGED <<execute_, outcome, inflight, cq, answer>>
    BY <1>10 DEF TakeLocalQueue, MovedFrom, opVars, grpcVars
  <2> QED
    BY <1>1, <1>2, <1>4, <2>1, EmptyLinks
<1>11. CASE ExecuteItem
  <2>0. PICK item : item = Head(pending)
    OBVIOUS
  <2>1. /\ fault = "none" /\ pc = "exec" /\ pending # <<>> /\ pending' = Tail(pending)
        /\ UNCHANGED <<local_queue_, cq, answer>>
    BY <1>11 DEF ExecuteItem
  <2>2. /\ item \in Items
        /\ \A x : Linked(x, pending) <=> x = item \/ Linked(x, pending')
        /\ ~Linked(item, pending')
    <3>1. pending \in Seq(Items) /\ Distinct(pending)
      BY <2>1 DEF TypeOK
    <3> QED
      BY <2>0, <2>1, <3>1, TailLinks, HeadTailProperties
  <2>3. CASE item = StopOp
    <3>1. UNCHANGED <<execute_, outcome, inflight>>
      BY <1>11, <2>0, <2>3 DEF ExecuteItem, OnStop, opVars
    <3> QED
      BY <1>1, <1>2, <1>4, <2>1, <2>2, <2>3, <3>1
  <2>4. CASE item \in Ops /\ execute_[item] = "OnRequestComplete"
    <3>1. /\ UNCHANGED <<execute_, inflight>>
          /\ \E result \in {Outcome(event_.ok), "error"} : outcome' = [outcome EXCEPT ![item] = result]
      BY <1>11, <2>0, <2>4 DEF ExecuteItem, OnRequestComplete
    <3>2. outcome'[item] # "running" /\ \A op \in Ops : op # item => outcome'[op] = outcome[op]
      BY <2>4, <3>1 DEF Outcome, TypeOK
    <3>3. event_.ok = answer[item]
      BY <2>1, <2>2, <2>4
    <3>4. Phase(item) = "answered" /\ Phase(item)' = "idle"
      BY <1>1, <2>1, <2>2, <2>4, <3>2 DEF Phase
    <3>5. \A op \in Ops : op # item => Unseen(op)
      BY <1>1, <1>2, <2>1, <2>2, <3>1, <3>2
    <3>6. Contract!Deliver(item)
      BY <1>5, <2>1, <2>4, <3>1, <3>3, <3>4, <3>5 DEF Contract!Deliver, Outcome
    <3> QED
      BY <2>4, <3>6 DEF Contract!Next
  <2>5. CASE item \in Ops /\ execute_[item] # "OnRequestComplete"
    <3>1. /\ execute_' = [execute_ EXCEPT ![item] = "OnRequestComplete"]
          /\ inflight' = IF shutdown THEN inflight ELSE inflight \cup {item}
          /\ UNCHANGED outcome
      BY <1>11, <2>0, <2>5 DEF ExecuteItem, OnScheduleComplete, StartAsyncRPC, Switched
    <3>2. \A op \in Ops : op # item => execute_'[op] = execute_[op]
      BY <2>5, <3>1 DEF TypeOK
    <3>3. /\ outcome[item] = "running" /\ ~Answered(item) /\ item \notin inflight
          /\ ~Answered(item)'
      BY <1>1, <1>2, <2>1, <2>2, <2>5
    <3>4. \A op \in Ops : op # item => Unseen(op)
      BY <1>1, <1>2, <2>1, <2>2, <3>1, <3>2
    <3>5. CASE shutdown
      BY <1>4, <2>1, <3>1, <3>3, <3>4, <3>5
    <3>6. CASE ~shutdown
      <4>1. Phase(item) = "requested" /\ Phase(item)' = "inflight"
        BY <2>5, <3>1, <3>3, <3>6 DEF Phase
      <4>2. Contract!Issue(item)
        BY <1>5, <2>1, <2>5, <3>1, <3>4, <4>1 DEF Contract!Issue
      <4> QED
        BY <2>5, <4>2 DEF Contract!Next
    <3> QED
      BY <3>5, <3>6
  <2> QED
    BY <2>2, <2>3, <2>4, <2>5 DEF Items
<1>12. CASE CheckRemoteQueue
  <2>1. fault = "none" /\ UNCHANGED <<pending, execute_, outcome, inflight, cq, answer>>
    BY <1>12 DEF CheckRemoteQueue, opVars, grpcVars
  <2>2. CASE remote_queue_read_submitted_
    BY <1>6, <1>12, <2>1, <2>2 DEF CheckRemoteQueue, Relies
  <2>3. CASE ~remote_queue_read_submitted_
    <3>1. local_queue_' = local_queue_ \o remote_queue_
      BY <1>12, <2>3 DEF CheckRemoteQueue, Relies, TryScheduleRemoteQueuedItems, QueueOrder
    <3>2. \A x : Linked(x, local_queue_') <=> Linked(x, local_queue_) \/ Linked(x, remote_queue_)
      BY <3>1, ConcatLinks, Zenon DEF TypeOK
    <3> QED
      BY <1>1, <1>2, <1>4, <2>1, <3>2
  <2> QED
    BY <2>2, <2>3
<1>13. ASSUME NEW tag \in Tags, AcquireCompletionQueueItems(tag) PROVE UNCHANGED Contract!vars
  <2>1. /\ fault = "none" /\ tag \in cq /\ cq' = cq \ {tag}
        /\ UNCHANGED <<pending, execute_, outcome, inflight, answer>>
    BY <1>13 DEF AcquireCompletionQueueItems, opVars
  <2>2. CASE tag = Null
    <3>1. local_queue_' = local_queue_
      BY <1>13, <2>2 DEF AcquireCompletionQueueItems, HandleEvent
    <3> QED
      BY <1>1, <1>2, <1>4, <2>1, <2>2, <3>1
  <2>3. CASE tag \in Ops
    <3>1. ScheduleLocal(tag)
      BY <1>13, <2>3 DEF AcquireCompletionQueueItems, HandleEvent
    <3>2. \A x : Linked(x, local_queue_') <=> Linked(x, local_queue_) \/ x = tag
      BY <2>3, <3>1, ScheduleLinks DEF Items, Threads
    <3> QED
      BY <1>1, <1>2, <1>4, <2>1, <2>3, <3>2
  <2> QED
    BY <2>2, <2>3 DEF Tags
<1>14. ASSUME NEW t \in Threads, SignalRemoteQueue(t) \/ ShutDown(t) PROVE UNCHANGED Contract!vars
  BY <1>6, <1>14 DEF SignalRemoteQueue, ShutDown, runVars, opVars, grpcVars
<1>15. ASSUME NEW t \in Threads, RequestStop(t) PROVE UNCHANGED Contract!vars
  <2>1. UNCHANGED <<pending, execute_, outcome, inflight, cq, answer>>
    BY <1>15 DEF RequestStop, runVars, opVars, grpcVars
  <2>2. ScheduleLocal(StopOp) \/ UNCHANGED local_queue_
    BY <1>15 DEF RequestStop, ScheduleImpl, ScheduleRemote
  <2> QED
    BY <1>6, <1>7, <2>1, <2>2
<1>16. ASSUME NEW t \in Threads, NEW op \in Ops, Start(t, op) PROVE Contract!Begin(op)
  <2>1. /\ fault = "none" /\ outcome[op] # "running"
        /\ outcome' = [outcome EXCEPT ![op] = "running"]
        /\ UNCHANGED <<pending, local_queue_, cq, answer>>
        /\ inflight' \in {inflight, inflight \cup {op}}
    BY <1>16 DEF Start, StartAsyncRPC, ScheduleRemote, CanCall, runVars
  <2>2. \A o \in Ops : o # op => execute_'[o] = execute_[o] /\ outcome'[o] = outcome[o]
    BY <1>16, <2>1 DEF Start, StartAsyncRPC, Switched, TypeOK
  <2>3. \A o \in Ops : o # op => Unseen(o)
    BY <1>1, <1>2, <2>1, <2>2
  <2>4. ~Answered(op)' /\ op \notin inflight
    BY <1>2, <2>1
  <2>5. outcome'[op] = "running"
    BY <2>1 DEF TypeOK
  <2>6. Phase(op) = "idle" /\ Phase(op)' \in {"requested", "inflight"}
    BY <2>1, <2>4, <2>5 DEF Phase
  <2> QED
    BY <1>5, <2>1, <2>3, <2>6 DEF Contract!Begin
<1>17. ASSUME NEW op \in Ops, GrpcCompletes(op) PROVE Contract!Reply(op)
  <2>1. /\ fault = "none" /\ op \in inflight /\ inflight' = inflight \ {op} /\ cq' = cq \cup {op}
        /\ UNCHANGED <<pending, local_queue_, execute_, outcome>>
        /\ \E ok \in BOOLEAN : answer' = [answer EXCEPT ![op] = ok]
    BY <1>17 DEF GrpcCompletes, runVars, opVars
  <2>2. Phase(op) = "inflight" /\ Phase(op)' = "answered"
    BY <1>2, <2>1 DEF Phase
  <2>3. \A o \in Ops : o # op => Unseen(o)
    BY <1>1, <1>2, <2>1
  <2> QED
    BY <1>5, <2>1, <2>2, <2>3 DEF Contract!Reply
<1>18. CASE AlarmFires
  <2>1. cq' = cq \cup {Null} /\ UNCHANGED <<pending, local_queue_, execute_, outcome, inflight, answer>>
    BY <1>18 DEF AlarmFires, runVars, opVars
  <2> QED
    BY <1>1, <1>2, <1>4, <2>1
<1>19. CASE UNCHANGED vars
  BY <1>6, <1>19 DEF vars
<1> HIDE DEF PlacesInv
<1> QED
  BY <1>8, <1>9, <1>10, <1>11, <1>12, <1>13, <1>14, <1>15, <1>16, <1>17, <1>18, <1>19
  DEF Next, RunnerStep, Faulted, Contract!Next

(* GrpcContext implements OperationContract: whatever the interleaving of  *)
(* threads, queues, alarm and events, and with several operations under    *)
(* way at once, each one is handed to gRPC once, answered once, and its    *)
(* receiver is called once with its own answer.                            *)
THEOREM ContextDeliversOnce == Spec => DeliversOnce
<1>1. Init => Contract!Init
  <2> SUFFICES ASSUME Init PROVE Contract!Init
    OBVIOUS
  <2>1. \A op \in Ops : Phase(op) = "idle"
    BY DEF Init, Phase
  <2> QED
    BY <2>1 DEF Init, Contract!Init
<1> QED
  BY <1>1, PlacesInvariant, NextKeepsContract, PTL DEF Spec, DeliversOnce, Contract!Spec

-----------------------------------------------------------------------------
(* The order of remote scheduling.                                         *)

(* What the operations on the queues do to the order of items in them.     *)
LEMMA AppendPrecedes ==
  ASSUME NEW S, NEW queue \in Seq(S), NEW item \in S, NEW a, NEW b
  PROVE  Precedes(a, b, Append(queue, item)) <=>
           Precedes(a, b, queue) \/ (Linked(a, queue) /\ b = item)
<1>1. /\ Len(Append(queue, item)) = Len(queue) + 1 /\ Len(queue) \in Nat
      /\ \A i \in 1..Len(queue) : Append(queue, item)[i] = queue[i]
      /\ Append(queue, item)[Len(queue) + 1] = item
  BY AppendProperties, LenProperties
<1>2. ASSUME Precedes(a, b, Append(queue, item)), b # item \/ ~Linked(a, queue)
      PROVE  Precedes(a, b, queue)
  <2>1. PICK i, j \in 1..Len(queue) + 1 :
          i < j /\ Append(queue, item)[i] = a /\ Append(queue, item)[j] = b
    BY <1>1, <1>2 DEF Precedes
  <2>2. i \in 1..Len(queue) /\ queue[i] = a
    BY <1>1, <2>1
  <2>3. j # Len(queue) + 1
    BY <1>1, <1>2, <2>1, <2>2 DEF Linked
  <2>4. j \in 1..Len(queue) /\ queue[j] = b
    BY <1>1, <2>1, <2>3
  <2> QED
    BY <2>1, <2>2, <2>4 DEF Precedes
<1>3. Precedes(a, b, queue) => Precedes(a, b, Append(queue, item))
  BY <1>1, SMT DEF Precedes
<1>4. Linked(a, queue) /\ b = item => Precedes(a, b, Append(queue, item))
  BY <1>1, SMT DEF Precedes, Linked
<1> QED
  BY <1>2, <1>3, <1>4

LEMMA ConcatPrecedes ==
  ASSUME NEW S, NEW queue \in Seq(S), NEW other \in Seq(S), NEW a, NEW b
  PROVE  Precedes(a, b, queue \o other) <=>
           \/ Precedes(a, b, queue) \/ Precedes(a, b, other)
           \/ Linked(a, queue) /\ Linked(b, other)
<1>1. /\ Len(queue \o other) = Len(queue) + Len(other)
      /\ Len(queue) \in Nat /\ Len(other) \in Nat
      /\ \A i \in 1..Len(queue) + Len(other) :
            (queue \o other)[i] = IF i <= Len(queue) THEN queue[i] ELSE other[i - Len(queue)]
  BY ConcatProperties, LenProperties
<1>2. ASSUME NEW i \in 1..Len(other)
      PROVE  /\ i + Len(queue) \in 1..Len(queue) + Len(other)
             /\ (queue \o other)[i + Len(queue)] = other[i]
  BY <1>1, SMT
<1>3. ASSUME NEW i \in 1..Len(queue)
      PROVE  /\ i \in 1..Len(queue) + Len(other)
             /\ (queue \o other)[i] = queue[i]
  BY <1>1, SMT
<1>4. ASSUME Precedes(a, b, queue \o other)
      PROVE  \/ Precedes(a, b, queue) \/ Precedes(a, b, other)
             \/ Linked(a, queue) /\ Linked(b, other)
  <2>1. PICK i, j \in 1..Len(queue) + Len(other) :
          i < j /\ (queue \o other)[i] = a /\ (queue \o other)[j] = b
    BY <1>1, <1>4 DEF Precedes
  <2>2. CASE j <= Len(queue)
    <3>1. i \in 1..Len(queue) /\ j \in 1..Len(queue) /\ queue[i] = a /\ queue[j] = b
      BY <1>1, <2>1, <2>2
    <3> QED
      BY <2>1, <3>1 DEF Precedes
  <2>3. CASE i > Len(queue)
    <3>1. /\ i - Len(queue) \in 1..Len(other) /\ j - Len(queue) \in 1..Len(other)
          /\ i - Len(queue) < j - Len(queue)
          /\ other[i - Len(queue)] = a /\ other[j - Len(queue)] = b
      BY <1>1, <2>1, <2>3
    <3> QED
      BY <3>1 DEF Precedes
  <2>4. CASE i <= Len(queue) /\ j > Len(queue)
    <3>1. /\ i \in 1..Len(queue) /\ j - Len(queue) \in 1..Len(other)
          /\ queue[i] = a /\ other[j - Len(queue)] = b
      BY <1>1, <2>1, <2>4
    <3> QED
      BY <3>1 DEF Linked
  <2> QED
    BY <1>1, <2>1, <2>2, <2>3, <2>4
<1>5. Precedes(a, b, queue) => Precedes(a, b, queue \o other)
  BY <1>1, <1>3 DEF Precedes
<1>6. ASSUME Precedes(a, b, other) PROVE Precedes(a, b, queue \o other)
  <2>1. PICK i, j \in 1..Len(other) : i < j /\ other[i] = a /\ other[j] = b
    BY <1>6 DEF Precedes
  <2>2. i + Len(queue) < j + Len(queue)
    BY <1>1, <2>1
  <2> QED
    BY <1>1, <1>2, <2>1, <2>2 DEF Precedes
<1>7. ASSUME Linked(a, queue), Linked(b, other) PROVE Precedes(a, b, queue \o other)
  <2>1. PICK i \in 1..Len(queue), j \in 1..Len(other) : queue[i] = a /\ other[j] = b
    BY <1>7 DEF Linked
  <2>2. i < j + Len(queue)
    BY <1>1, <2>1
  <2> QED
    BY <1>1, <1>2, <1>3, <2>1, <2>2 DEF Precedes
<1> QED
  BY <1>4, <1>5, <1>6, <1>7

LEMMA TailPrecedes ==
  ASSUME NEW S, NEW queue \in Seq(S), queue # <<>>, NEW a, NEW b
  PROVE  Precedes(a, b, queue) <=>
           Precedes(a, b, Tail(queue)) \/ (a = Head(queue) /\ Linked(b, Tail(queue)))
<1>1. /\ Len(queue) \in Nat \ {0} /\ Len(Tail(queue)) = Len(queue) - 1
      /\ Head(queue) = queue[1]
      /\ \A i \in 1..Len(queue) - 1 : Tail(queue)[i] = queue[i + 1]
  BY HeadTailProperties, LenProperties, EmptySeq
<1>2. ASSUME Precedes(a, b, queue)
      PROVE  Precedes(a, b, Tail(queue)) \/ (a = Head(queue) /\ Linked(b, Tail(queue)))
  <2>1. PICK i, j \in 1..Len(queue) : i < j /\ queue[i] = a /\ queue[j] = b
    BY <1>2 DEF Precedes
  <2>2. j - 1 \in 1..Len(queue) - 1 /\ Tail(queue)[j - 1] = b
    BY <1>1, <2>1
  <2>3. CASE i = 1
    BY <1>1, <2>1, <2>2, <2>3 DEF Linked
  <2>4. CASE i # 1
    <3>1. i - 1 \in 1..Len(queue) - 1 /\ Tail(queue)[i - 1] = a /\ i - 1 < j - 1
      BY <1>1, <2>1, <2>4
    <3> QED
      BY <1>1, <2>2, <3>1 DEF Precedes
  <2> QED
    BY <2>3, <2>4
<1>3. ASSUME Precedes(a, b, Tail(queue)) PROVE Precedes(a, b, queue)
  <2>1. PICK i, j \in 1..Len(queue) - 1 : i < j /\ Tail(queue)[i] = a /\ Tail(queue)[j] = b
    BY <1>1, <1>3 DEF Precedes
  <2>2. /\ i + 1 \in 1..Len(queue) /\ j + 1 \in 1..Len(queue) /\ i + 1 < j + 1
        /\ queue[i + 1] = a /\ queue[j + 1] = b
    BY <1>1, <2>1
  <2> QED
    BY <2>2 DEF Precedes
<1>4. ASSUME a = Head(queue), Linked(b, Tail(queue)) PROVE Precedes(a, b, queue)
  <2>1. PICK j \in 1..Len(queue) - 1 : Tail(queue)[j] = b
    BY <1>1, <1>4 DEF Linked
  <2>2. 1 \in 1..Len(queue) /\ j + 1 \in 1..Len(queue) /\ 1 < j + 1 /\ queue[j + 1] = b
    BY <1>1, <2>1
  <2> QED
    BY <1>1, <1>4, <2>2 DEF Precedes
<1> QED
  BY <1>2, <1>3, <1>4

LEMMA EmptyPrecedes == \A a, b : ~Precedes(a, b, <<>>)
BY SMT DEF Precedes

(* The order of all items in terms of the three queues.                    *)
InOrder(a, b, first, second, third) ==
  \/ Precedes(a, b, first) \/ Precedes(a, b, second) \/ Precedes(a, b, third)
  \/ Linked(a, first) /\ (Linked(b, second) \/ Linked(b, third))
  \/ Linked(a, second) /\ Linked(b, third)

LEMMA ThreeQueues ==
  ASSUME NEW S, NEW first \in Seq(S), NEW second \in Seq(S), NEW third \in Seq(S)
  PROVE  /\ \A x : Linked(x, first \o second \o third) <=>
                     Linked(x, first) \/ Linked(x, second) \/ Linked(x, third)
         /\ \A a, b : Precedes(a, b, first \o second \o third) <=>
                        InOrder(a, b, first, second, third)
<1> DEFINE front == first \o second
<1>1. front \in Seq(S)
  BY ConcatProperties
<1>2. \A x : Linked(x, front) <=> Linked(x, first) \/ Linked(x, second)
  BY ConcatLinks, Zenon
<1>3. \A a, b : Precedes(a, b, front) <=>
        \/ Precedes(a, b, first) \/ Precedes(a, b, second)
        \/ Linked(a, first) /\ Linked(b, second)
  BY ConcatPrecedes, Zenon
<1> HIDE DEF front
<1>4. \A x : Linked(x, front \o third) <=> Linked(x, front) \/ Linked(x, third)
  BY <1>1, ConcatLinks, Zenon
<1>5. \A a, b : Precedes(a, b, front \o third) <=>
        \/ Precedes(a, b, front) \/ Precedes(a, b, third)
        \/ Linked(a, front) /\ Linked(b, third)
  BY <1>1, ConcatPrecedes, Zenon
<1> QED
  BY <1>2, <1>3, <1>4, <1>5, Zenon DEF front, InOrder

(* A step that leaves the order alone, one that puts an operation at its   *)
(* end, and one that takes the first operation off.                        *)
LEMMA FifoStutter ==
  ASSUME \A op \in Ops : WaitsForExecution(op)' <=> WaitsForExecution(op),
         \A a, b \in Ops : WaitsForExecution(a) /\ WaitsForExecution(b) =>
           (Precedes(a, b, Scheduled)' <=> Precedes(a, b, Scheduled))
  PROVE  UNCHANGED Fifo!vars
<1>1. WaitingOps' = WaitingOps
  BY DEF WaitingOps
<1>2. \A pair \in WaitingOps \X WaitingOps :
        Precedes(pair[1], pair[2], Scheduled)' <=> Precedes(pair[1], pair[2], Scheduled)
  BY DEF WaitingOps
<1> QED
  BY <1>1, <1>2 DEF Fifo!vars

LEMMA FifoEnqueue ==
  ASSUME NEW op \in Ops, ~WaitsForExecution(op),
         \A o \in Ops : WaitsForExecution(o)' <=> WaitsForExecution(o) \/ o = op,
         \A a, b \in Ops : WaitsForExecution(a)' /\ WaitsForExecution(b)' =>
           (Precedes(a, b, Scheduled)' <=>
              a # op /\ (b = op \/ Precedes(a, b, Scheduled)))
  PROVE  Fifo!Enqueue(op)
<1>1. WaitingOps' = WaitingOps \cup {op} /\ op \notin WaitingOps
  BY DEF WaitingOps
<1>2. {pair \in WaitingOps \X WaitingOps : Precedes(pair[1], pair[2], Scheduled)}' =
        {pair \in WaitingOps \X WaitingOps : Precedes(pair[1], pair[2], Scheduled)}
          \cup (WaitingOps \X {op})
  BY <1>1 DEF WaitingOps
<1> QED
  BY <1>1, <1>2 DEF Fifo!Enqueue

LEMMA FifoExecute ==
  ASSUME NEW op \in Ops, WaitsForExecution(op),
         \A o \in Ops : WaitsForExecution(o)' <=> WaitsForExecution(o) /\ o # op,
         \A a \in Ops : WaitsForExecution(a) => ~Precedes(a, op, Scheduled),
         \A a, b \in Ops : WaitsForExecution(a)' /\ WaitsForExecution(b)' =>
           (Precedes(a, b, Scheduled)' <=> Precedes(a, b, Scheduled))
  PROVE  Fifo!Execute(op)
<1>1. WaitingOps' = WaitingOps \ {op} /\ op \in WaitingOps
  BY DEF WaitingOps
<1>2. {pair \in WaitingOps \X WaitingOps : Precedes(pair[1], pair[2], Scheduled)}' =
        {pair \in WaitingOps \X WaitingOps : Precedes(pair[1], pair[2], Scheduled)}
          \ ({op} \X WaitingOps)
  BY <1>1 DEF WaitingOps
<1>3. \A first \in WaitingOps :
        <<first, op>> \notin {pair \in WaitingOps \X WaitingOps : Precedes(pair[1], pair[2], Scheduled)}
  BY DEF WaitingOps
<1> QED
  BY <1>1, <1>2, <1>3 DEF Fifo!Execute

(* Every step enqueues an operation, executes the first one, or leaves the *)
(* order of those that wait alone.                                         *)
LEMMA NextKeepsFifo ==
  TypeOK /\ TypeOK' /\ PlacesInv /\ [Next]_vars => [Fifo!Next]_(Fifo!vars)
<1> SUFFICES ASSUME TypeOK, TypeOK', PlacesInv, [Next]_vars
             PROVE  Fifo!Next \/ UNCHANGED Fifo!vars
  OBVIOUS
<1> USE ConstantsDistinct
<1>1. /\ \A o : WaitsForExecution(o) <=> Queued(o) /\ execute_[o] = "OnScheduleComplete"
      /\ \A a, b : Precedes(a, b, Scheduled) <=>
                     InOrder(a, b, pending, local_queue_, remote_queue_)
  <2>1. pending \in Seq(Items) /\ local_queue_ \in Seq(Items) /\ remote_queue_ \in Seq(Items)
    BY DEF TypeOK
  <2> QED
    BY <2>1, ThreeQueues, Zenon DEF WaitsForExecution, Scheduled, Queued
<1>2. /\ \A o : WaitsForExecution(o)' <=> Queued(o)' /\ execute_'[o] = "OnScheduleComplete"
      /\ \A a, b : Precedes(a, b, Scheduled)' <=>
                     InOrder(a, b, pending', local_queue_', remote_queue_')
  <2>1. pending' \in Seq(Items) /\ local_queue_' \in Seq(Items) /\ remote_queue_' \in Seq(Items)
    BY DEF TypeOK
  <2> QED
    BY <2>1, ThreeQueues, Zenon DEF WaitsForExecution, Scheduled, Queued
<1>3. ASSUME UNCHANGED <<pending, local_queue_, remote_queue_, execute_>> PROVE UNCHANGED Fifo!vars
  BY <1>1, <1>2, <1>3, FifoStutter DEF Queued
<1>4. ASSUME NEW item \in Items, ScheduleLocal(item),
             item \in Ops => execute_[item] = "OnRequestComplete",
             UNCHANGED <<pending, execute_>>
      PROVE  UNCHANGED Fifo!vars
  <2>1. /\ local_queue_ \in Seq(Items) /\ local_queue_' = Append(local_queue_, item)
        /\ remote_queue_' = remote_queue_
    BY <1>4 DEF TypeOK, ScheduleLocal, remoteVars
  <2>2. /\ \A x : Linked(x, local_queue_') <=> Linked(x, local_queue_) \/ x = item
        /\ \A a, b : Precedes(a, b, local_queue_') <=>
             Precedes(a, b, local_queue_) \/ (Linked(a, local_queue_) /\ b = item)
    BY <2>1, AppendLinks, AppendPrecedes, Zenon
  <2>3. ASSUME NEW o \in Ops PROVE WaitsForExecution(o)' <=> WaitsForExecution(o)
    BY <1>1, <1>2, <1>4, <2>1, <2>2 DEF Queued
  <2>4. ASSUME NEW a \in Ops, NEW b \in Ops, WaitsForExecution(a), WaitsForExecution(b)
        PROVE  Precedes(a, b, Scheduled)' <=> Precedes(a, b, Scheduled)
    <3>1. a # item /\ b # item
      BY <1>1, <1>4, <2>4
    <3> QED
      BY <1>1, <1>2, <1>4, <2>1, <2>2, <3>1 DEF InOrder
  <2> QED
    BY <2>3, <2>4, FifoStutter
<1>5. ASSUME NEW item \in Items, remote_queue_' = Append(remote_queue_, item)
      PROVE  /\ \A x : Linked(x, remote_queue_') <=> Linked(x, remote_queue_) \/ x = item
             /\ \A a, b : Precedes(a, b, remote_queue_') <=>
                  Precedes(a, b, remote_queue_) \/ (Linked(a, remote_queue_) /\ b = item)
  BY <1>5, AppendLinks, AppendPrecedes, Zenon DEF TypeOK
<1>6. ASSUME NEW t \in Threads, ScheduleRemote(t, StopOp), UNCHANGED <<pending, execute_>>
      PROVE  UNCHANGED Fifo!vars
  <2>1. remote_queue_' = Append(remote_queue_, StopOp) /\ local_queue_' = local_queue_
    BY <1>6 DEF ScheduleRemote
  <2>2. /\ \A x : Linked(x, remote_queue_') <=> Linked(x, remote_queue_) \/ x = StopOp
        /\ \A a, b : Precedes(a, b, remote_queue_') <=>
             Precedes(a, b, remote_queue_) \/ (Linked(a, remote_queue_) /\ b = StopOp)
    BY <1>5, <2>1 DEF Items
  <2>3. ASSUME NEW o \in Ops PROVE WaitsForExecution(o)' <=> WaitsForExecution(o)
    BY <1>1, <1>2, <1>6, <2>1, <2>2 DEF Queued
  <2>4. ASSUME NEW a \in Ops, NEW b \in Ops
        PROVE  Precedes(a, b, Scheduled)' <=> Precedes(a, b, Scheduled)
    BY <1>1, <1>2, <1>6, <2>1, <2>2 DEF InOrder
  <2> QED
    BY <2>3, <2>4, FifoStutter
<1>7. CASE Run
  <2>1. /\ UNCHANGED <<pending, execute_>> /\ Runner \in Threads
        /\ ScheduleRemote(Runner, StopOp) \/ UNCHANGED <<local_queue_, remote_queue_>>
    BY <1>7 DEF Run, ScheduleImpl, IsRunningOnThisThread, remoteVars, opVars, Threads
  <2> QED
    BY <1>3, <1>6, <2>1
<1>8. CASE EnterRunImpl \/ CallbackReturns \/ AcquireNothing \/ StopLoop \/ LeaveRun
  BY <1>3, <1>8 DEF EnterRunImpl, CallbackReturns, AcquireNothing, StopLoop, LeaveRun, Goes, allButPc,
     opVars, remoteVars
<1>9. CASE TakeLocalQueue
  <2>1. /\ pending = <<>> /\ pending' = local_queue_ /\ local_queue_' = <<>>
        /\ UNCHANGED <<remote_queue_, execute_>>
    BY <1>9 DEF TakeLocalQueue, MovedFrom, opVars, remoteVars, PlacesInv, LoopAgrees
  <2>2. /\ \A x : ~Linked(x, <<>>)
        /\ \A a, b : ~Precedes(a, b, <<>>)
    BY EmptyLinks, EmptyPrecedes
  <2>3. ASSUME NEW o \in Ops PROVE WaitsForExecution(o)' <=> WaitsForExecution(o)
    BY <1>1, <1>2, <2>1, <2>2 DEF Queued
  <2>4. ASSUME NEW a \in Ops, NEW b \in Ops
        PROVE  Precedes(a, b, Scheduled)' <=> Precedes(a, b, Scheduled)
    BY <1>1, <1>2, <2>1, <2>2 DEF InOrder
  <2> QED
    BY <2>3, <2>4, FifoStutter
<1>10. CASE ExecuteItem
  <2>0. PICK item : item = Head(pending)
    OBVIOUS
  <2>1. /\ fault = "none" /\ pending # <<>> /\ pending' = Tail(pending)
        /\ UNCHANGED <<local_queue_, remote_queue_>>
    BY <1>10 DEF ExecuteItem, remoteVars
  <2>2. /\ pending \in Seq(Items) /\ LinkedOnce
    BY <2>1 DEF TypeOK, PlacesInv
  <2>3. /\ item \in Items
        /\ \A x : Linked(x, pending) <=> x = item \/ Linked(x, pending')
        /\ ~Linked(item, pending')
    BY <2>0, <2>1, <2>2, TailLinks, HeadTailProperties DEF LinkedOnce
  <2>4. \A a, b : Precedes(a, b, pending) <=>
          Precedes(a, b, pending') \/ (a = item /\ Linked(b, pending'))
    BY <2>0, <2>1, <2>2, TailPrecedes, Zenon
  <2>5. ~Linked(item, local_queue_) /\ ~Linked(item, remote_queue_)
    BY <2>2, <2>3 DEF LinkedOnce
  <2>6. ASSUME NEW a, NEW b, a # item, b # item
        PROVE  Precedes(a, b, Scheduled)' <=> Precedes(a, b, Scheduled)
    BY <1>1, <1>2, <2>1, <2>3, <2>4, <2>6 DEF InOrder
  <2>7. ASSUME NEW o, o # item PROVE Queued(o)' <=> Queued(o)
    BY <2>1, <2>3, <2>7 DEF Queued
  <2>8. CASE item = StopOp \/ execute_[item] = "OnRequestComplete"
    <3>1. UNCHANGED execute_
      BY <1>10, <2>0, <2>8 DEF ExecuteItem, OnStop, OnRequestComplete, opVars
    <3>2. ~Queued(item)'
      BY <2>1, <2>3, <2>5 DEF Queued
    <3>3. ASSUME NEW o \in Ops
          PROVE  /\ WaitsForExecution(o)' <=> WaitsForExecution(o)
                 /\ WaitsForExecution(o) => o # item
      BY <1>1, <1>2, <2>7, <2>8, <3>1, <3>2
    <3> QED
      BY <2>6, <3>3, FifoStutter
  <2>9. CASE item \in Ops /\ execute_[item] # "OnRequestComplete"
    <3>1. execute_' = [execute_ EXCEPT ![item] = "OnRequestComplete"]
      BY <1>10, <2>0, <2>9 DEF ExecuteItem, OnScheduleComplete, StartAsyncRPC, Switched
    <3>2. /\ execute_'[item] = "OnRequestComplete"
          /\ \A o \in Ops : o # item => execute_'[o] = execute_[o]
      BY <2>9, <3>1 DEF TypeOK
    <3>3. execute_[item] = "OnScheduleComplete"
      BY <2>9 DEF TypeOK, Callbacks
    <3>4. WaitsForExecution(item)
      BY <1>1, <2>3, <3>3 DEF Queued
    <3>5. ASSUME NEW o \in Ops
          PROVE  WaitsForExecution(o)' <=> WaitsForExecution(o) /\ o # item
      BY <1>1, <1>2, <2>7, <3>2
    <3>6. ASSUME NEW a \in Ops PROVE ~Precedes(a, item, Scheduled)
      <4>1. /\ \A x : Precedes(x, item, pending') => Linked(item, pending')
            /\ \A x : Precedes(x, item, local_queue_) => Linked(item, local_queue_)
            /\ \A x : Precedes(x, item, remote_queue_) => Linked(item, remote_queue_)
        BY DEF Precedes, Linked
      <4> QED
        BY <1>1, <2>3, <2>4, <2>5, <4>1 DEF InOrder
    <3>7. Fifo!Execute(item)
      BY <2>6, <2>9, <3>4, <3>5, <3>6, FifoExecute
    <3> QED
      BY <2>9, <3>7 DEF Fifo!Next
  <2> QED
    BY <2>3, <2>8, <2>9 DEF Items
<1>11. CASE CheckRemoteQueue
  <2>1. fault = "none" /\ UNCHANGED <<pending, execute_>>
    BY <1>11 DEF CheckRemoteQueue, opVars
  <2>2. CASE remote_queue_read_submitted_
    BY <1>3, <1>11, <2>1, <2>2 DEF CheckRemoteQueue, Relies
  <2>3. CASE ~remote_queue_read_submitted_
    <3>1. local_queue_' = local_queue_ \o remote_queue_ /\ remote_queue_' = <<>>
      BY <1>11, <2>3 DEF CheckRemoteQueue, Relies, TryScheduleRemoteQueuedItems, QueueOrder
    <3>2. /\ \A x : Linked(x, local_queue_') <=> Linked(x, local_queue_) \/ Linked(x, remote_queue_)
          /\ \A a, b : Precedes(a, b, local_queue_') <=>
               \/ Precedes(a, b, local_queue_) \/ Precedes(a, b, remote_queue_)
               \/ Linked(a, local_queue_) /\ Linked(b, remote_queue_)
      BY <3>1, ConcatLinks, ConcatPrecedes, Zenon DEF TypeOK
    <3>3. /\ \A x : ~Linked(x, <<>>)
          /\ \A a, b : ~Precedes(a, b, <<>>)
      BY EmptyLinks, EmptyPrecedes
    <3>4. ASSUME NEW o \in Ops PROVE WaitsForExecution(o)' <=> WaitsForExecution(o)
      BY <1>1, <1>2, <2>1, <3>1, <3>2, <3>3 DEF Queued
    <3>5. ASSUME NEW a \in Ops, NEW b \in Ops
          PROVE  Precedes(a, b, Scheduled)' <=> Precedes(a, b, Scheduled)
      BY <1>1, <1>2, <2>1, <3>1, <3>2, <3>3 DEF InOrder
    <3> QED
      BY <3>4, <3>5, FifoStutter
  <2> QED
    BY <2>2, <2>3
<1>12. ASSUME NEW tag \in Tags, AcquireCompletionQueueItems(tag) PROVE UNCHANGED Fifo!vars
  <2>1. fault = "none" /\ tag \in cq /\ UNCHANGED <<pending, execute_>>
    BY <1>12 DEF AcquireCompletionQueueItems, opVars
  <2>2. CASE tag = Null
    BY <1>3, <1>12, <2>1, <2>2 DEF AcquireCompletionQueueItems, HandleEvent, remoteVars
  <2>3. CASE tag \in Ops
    <3>1. ScheduleLocal(tag)
      BY <1>12, <2>3 DEF AcquireCompletionQueueItems, HandleEvent
    <3>2. execute_[tag] = "OnRequestComplete"
      BY <2>1, <2>3 DEF PlacesInv, CallbackAgrees
    <3> QED
      BY <1>4, <2>1, <2>3, <3>1, <3>2 DEF Items
  <2> QED
    BY <2>2, <2>3 DEF Tags
<1>13. ASSUME NEW t \in Threads, SignalRemoteQueue(t) \/ ShutDown(t) PROVE UNCHANGED Fifo!vars
  BY <1>3, <1>13 DEF SignalRemoteQueue, ShutDown, runVars, opVars, remoteVars
<1>14. ASSUME NEW t \in Threads, RequestStop(t) PROVE UNCHANGED Fifo!vars
  <2>1. UNCHANGED <<pending, execute_>>
    BY <1>14 DEF RequestStop, runVars, opVars
  <2>2. \/ ScheduleLocal(StopOp) \/ ScheduleRemote(t, StopOp)
        \/ UNCHANGED <<local_queue_, remote_queue_>>
    BY <1>14 DEF RequestStop, ScheduleImpl, remoteVars
  <2>3. StopOp \in Items /\ StopOp \notin Ops
    BY DEF Items
  <2> QED
    BY <1>3, <1>4, <1>6, <2>1, <2>2, <2>3
<1>15. ASSUME NEW t \in Threads, NEW op \in Ops, Start(t, op)
       PROVE  Fifo!Next \/ UNCHANGED Fifo!vars
  <2>1. ~Queued(op) /\ UNCHANGED <<pending, local_queue_>>
    BY <1>15 DEF Start, CanCall, runVars, ScheduleRemote, PlacesInv, OnePlace
  <2>2. CASE IsRunningOnThisThread(t)
    <3>1. remote_queue_' = remote_queue_ /\ \A o \in Ops : o # op => execute_'[o] = execute_[o]
      BY <1>15, <2>2 DEF Start, StartAsyncRPC, Switched, TypeOK, remoteVars
    <3>2. ASSUME NEW o \in Ops PROVE WaitsForExecution(o)' <=> WaitsForExecution(o)
      BY <1>1, <1>2, <2>1, <3>1 DEF Queued
    <3>3. ASSUME NEW a \in Ops, NEW b \in Ops
          PROVE  Precedes(a, b, Scheduled)' <=> Precedes(a, b, Scheduled)
      BY <1>1, <1>2, <2>1, <3>1
    <3> QED
      BY <3>2, <3>3, FifoStutter
  <2>3. CASE ~IsRunningOnThisThread(t)
    <3>1. /\ remote_queue_' = Append(remote_queue_, op)
          /\ execute_'[op] = "OnScheduleComplete"
          /\ \A o \in Ops : o # op => execute_'[o] = execute_[o]
      BY <1>15, <2>3 DEF Start, ScheduleRemote, TypeOK
    <3>2. /\ \A x : Linked(x, remote_queue_') <=> Linked(x, remote_queue_) \/ x = op
          /\ \A a, b : Precedes(a, b, remote_queue_') <=>
               Precedes(a, b, remote_queue_) \/ (Linked(a, remote_queue_) /\ b = op)
      BY <1>5, <3>1 DEF Items
    <3>3. ~WaitsForExecution(op)
      BY <1>1, <2>1
    <3>4. ASSUME NEW o \in Ops
          PROVE  WaitsForExecution(o)' <=> WaitsForExecution(o) \/ o = op
      BY <1>1, <1>2, <2>1, <3>1, <3>2 DEF Queued
    <3>5. ASSUME NEW a \in Ops, NEW b \in Ops, WaitsForExecution(a)', WaitsForExecution(b)'
          PROVE  Precedes(a, b, Scheduled)' <=> a # op /\ (b = op \/ Precedes(a, b, Scheduled))
      <4>1. InOrder(a, b, pending', local_queue_', remote_queue_') <=>
              InOrder(a, b, pending, local_queue_, remote_queue_) \/ (Queued(a) /\ b = op)
        BY <2>1, <3>2 DEF InOrder, Queued
      <4>2. \A x, y, queue : Precedes(x, y, queue) => Linked(x, queue) /\ Linked(y, queue)
        BY DEF Precedes, Linked
      <4>3. InOrder(a, b, pending, local_queue_, remote_queue_) => Queued(a) /\ Queued(b)
        BY <4>2 DEF InOrder, Queued
      <4>4. a # op => Queued(a)
        BY <1>1, <3>4, <3>5
      <4> QED
        BY <1>1, <1>2, <2>1, <4>1, <4>3, <4>4
    <3>6. Fifo!Enqueue(op)
      BY <3>3, <3>4, <3>5, FifoEnqueue
    <3> QED
      BY <3>6 DEF Fifo!Next
  <2> QED
    BY <2>2, <2>3
<1>16. ASSUME NEW op \in Ops, GrpcCompletes(op) PROVE UNCHANGED Fifo!vars
  BY <1>3, <1>16 DEF GrpcCompletes, runVars, opVars, remoteVars
<1>17. CASE AlarmFires
  BY <1>3, <1>17 DEF AlarmFires, runVars, opVars, remoteVars
<1>18. CASE UNCHANGED vars
  BY <1>3, <1>18 DEF vars
<1> QED
  BY <1>7, <1>8, <1>9, <1>10, <1>11, <1>12, <1>13, <1>14, <1>15, <1>16, <1>17, <1>18
  DEF Next, RunnerStep, Faulted

(* GrpcContext implements FifoSchedule: however many threads schedule      *)
(* operations, and however often the runner moves them from the remote     *)
(* queue to the local one and on to the list it executes, next to stop_op  *)
(* and to operations that gRPC has answered, they are executed in the      *)
(* order in which ScheduleRemote enqueued them, none skipped or repeated.  *)
THEOREM ContextExecutesInOrder == Spec => ExecutesInOrder
<1>1. Init => Fifo!Init
  BY DEF Init, Fifo!Init, WaitingOps, WaitsForExecution, Scheduled, Linked
<1> QED
  BY <1>1, PlacesInvariant, NextKeepsFifo, PTL DEF Spec, ExecutesInOrder, Fifo!Spec

-----------------------------------------------------------------------------
(* The discipline of OrderlyShutDown makes ShutDown safe.                  *)

(* The inductive invariant behind the two.  Before the shutdown, a thread  *)
(* about to signal has left its item where NothingScheduled sees it: in    *)
(* the remote queue, or with the runner that waits for this signal ...     *)
SignalledItemWaits ==
  /\ remote_queue_read_submitted_ /\ Signallers # {} => remote_queue_ # <<>>
  /\ FirstWakeup /\ pc = "next" => local_queue_ # <<>>

(* ... so that nobody is signalling at the shutdown, nor ever after.       *)
OrderlyInv ==
  /\ ShutDownIsSafe
  /\ fault = "none" =>
       IF shutdown THEN NothingScheduled /\ Signallers = {} ELSE SignalledItemWaits

(* What holds of the context in general holds of one used with discipline. *)
LEMMA OrderlyIsContext == OrderlySpec => [](TypeOK /\ WakeupInv /\ PlacesInv)
<1>1. [OrderlyNext]_vars => [Next]_vars
  BY DEF OrderlyNext
<1>2. OrderlySpec => Spec
  BY <1>1, PTL DEF OrderlySpec, Spec
<1> QED
  BY <1>2, WakeupInvariant, PlacesInvariant, PTL

(* If nothing is scheduled the queues are empty, but for the event of the  *)
(* turn under way.                                                         *)
LEMMA NothingScheduledIsEmpty ==
  ASSUME TypeOK, PlacesInv, fault = "none", NothingScheduled
  PROVE  remote_queue_ = <<>> /\ (pc # "drain" => local_queue_ = <<>>)
<1> USE DEF PlacesInv, LinkedOnce, OnePlace, CallbackAgrees, Queued, NothingScheduled
<1>1. \A op \in Ops : execute_[op] \in Callbacks
  BY DEF TypeOK
<1>2. \A x \in Items : ~Linked(x, remote_queue_)
  BY <1>1 DEF Items
<1>3. pc # "drain" => \A x \in Items : ~Linked(x, local_queue_)
  BY <1>1 DEF Items, Callbacks
<1> QED
  BY <1>2, <1>3, EmptyLinks DEF TypeOK

(* The discipline keeps OrderlyInv.                                        *)
LEMMA NextKeepsOrderly ==
  /\ TypeOK /\ TypeOK' /\ WakeupInv /\ PlacesInv /\ OrderlyInv /\ [OrderlyNext]_vars
  => OrderlyInv'
<1> SUFFICES ASSUME TypeOK, TypeOK', WakeupInv, PlacesInv, OrderlyInv, [OrderlyNext]_vars
             PROVE  OrderlyInv'
  OBVIOUS
<1> USE ConstantsDistinct DEF OrderlyInv, ShutDownIsSafe
<1>1. CASE fault # "none"
  <2>1. UNCHANGED vars
    BY <1>1, Zenon DEF OrderlyNext, Next, RunnerStep, Faulted, Run, CanCall, EnterRunImpl, Goes, TakeLocalQueue,
       ExecuteItem, CallbackReturns, CheckRemoteQueue, StopLoop, AcquireNothing, LeaveRun,
       AcquireCompletionQueueItems, SignalRemoteQueue, RequestStop, ShutDown, Start, GrpcCompletes,
       AlarmFires
  <2> QED
    BY <1>1, <2>1 DEF vars
<1>2. CASE UNCHANGED vars
  BY <1>2 DEF vars, NothingScheduled, Signallers, SignalledItemWaits, FirstWakeup
<1>3. ASSUME fault = "none", shutdown, Next, Discipline PROVE OrderlyInv'
  <2>1. /\ NothingScheduled /\ Signallers = {} /\ remote_queue_ = <<>>
        /\ \A t \in Threads : signal[t] = Null
    BY <1>3, NothingScheduledIsEmpty DEF Signallers
  <2>2. ASSUME shutdown', fault' = "none",
               \A op \in Ops : outcome'[op] = "running" /\ execute_'[op] = "OnScheduleComplete" =>
                                 outcome[op] = "running" /\ execute_[op] = "OnScheduleComplete",
               ~Linked(StopOp, local_queue_'), remote_queue_' = <<>>, signal' = signal
        PROVE  OrderlyInv'
    BY <2>1, <2>2, EmptyLinks DEF NothingScheduled, Signallers
  <2>3. ASSUME UNCHANGED <<shutdown, fault, local_queue_, remote_queue_, signal, outcome, execute_>>
        PROVE  OrderlyInv'
    BY <1>3, <2>1, <2>2, <2>3 DEF NothingScheduled
  <2>4. CASE Run
    <3>1. ~stop_requested'
      BY <1>3, <2>4 DEF Run, Discipline
    <3> QED
      BY <2>3, <2>4, <3>1 DEF Run, remoteVars, opVars
  <2>5. CASE EnterRunImpl \/ CallbackReturns \/ StopLoop \/ AcquireNothing \/ AlarmFires
    BY <2>3, <2>5 DEF EnterRunImpl, CallbackReturns, StopLoop, AcquireNothing, AlarmFires, Goes, allButPc,
       remoteVars, opVars
  <2>6. CASE TakeLocalQueue
    <3>1. local_queue_' = <<>> /\ UNCHANGED <<shutdown, fault, remote_queue_, signal, outcome, execute_>>
      BY <2>6 DEF TakeLocalQueue, MovedFrom, remoteVars, opVars
    <3> QED
      BY <1>3, <2>1, <2>2, <3>1, EmptyLinks
  <2>7. CASE ExecuteItem
    <3> DEFINE item == Head(pending)
    <3>1. UNCHANGED <<shutdown, local_queue_, remote_queue_, signal>>
      BY <2>7 DEF ExecuteItem, remoteVars
    <3>2. item \in Items /\ Linked(item, pending)
      <4>1. pending \in Seq(Items) /\ pending # <<>> /\ Distinct(pending)
        BY <1>3, <2>7 DEF ExecuteItem, TypeOK, PlacesInv, LinkedOnce
      <4> QED
        BY <4>1, TailLinks, HeadTailProperties
    <3>3. CASE item = StopOp
      <4>1. UNCHANGED <<fault, outcome, execute_>>
        BY <2>7, <3>3 DEF ExecuteItem, OnStop, opVars
      <4> QED
        BY <2>3, <3>1, <4>1
    <3>4. ASSUME item \in Ops PROVE OrderlyInv'
      <4>1. execute_[item] = "OnRequestComplete"
        <5>1. outcome[item] = "running" /\ execute_[item] \in Callbacks
          BY <1>3, <3>2, <3>4 DEF PlacesInv, OnePlace, Queued, TypeOK
        <5> QED
          BY <2>1, <3>4, <5>1 DEF NothingScheduled, Callbacks
      <4>2. OnRequestComplete(item)
        BY <2>7, <3>4, <4>1 DEF ExecuteItem
      <4>3. /\ UNCHANGED <<execute_, fault>>
            /\ \E result \in {Outcome(event_.ok), "error"} : outcome' = [outcome EXCEPT ![item] = result]
        BY <4>2 DEF OnRequestComplete
      <4>4. \A op \in Ops : outcome'[op] = "running" => outcome[op] = "running"
        BY <3>4, <4>3 DEF Outcome, TypeOK
      <4> QED
        BY <1>3, <2>1, <2>2, <3>1, <4>3, <4>4 DEF NothingScheduled
    <3> QED
      BY <3>2, <3>3, <3>4 DEF Items
  <2>8. CASE CheckRemoteQueue
    <3>1. UNCHANGED <<shutdown, signal, outcome, execute_>>
      BY <2>8 DEF CheckRemoteQueue, opVars
    <3>2. /\ remote_queue_' = <<>>
          /\ local_queue_' \in {local_queue_, local_queue_ \o remote_queue_}
          /\ fault' \in {"none", "inactive_dequeue"}
      BY <1>3, <2>1, <2>8 DEF CheckRemoteQueue, TryScheduleRemoteQueuedItems, QueueOrder
    <3>3. \A x : Linked(x, local_queue_ \o remote_queue_) <=>
            Linked(x, local_queue_) \/ Linked(x, remote_queue_)
      BY ConcatLinks, Zenon DEF TypeOK
    <3>4. ~Linked(StopOp, local_queue_')
      BY <2>1, <3>2, <3>3 DEF NothingScheduled
    <3> QED
      BY <1>3, <2>2, <3>1, <3>2, <3>4
  <2>9. CASE LeaveRun
    <3>1. fault' = "none"
      BY <2>1, <2>9 DEF LeaveRun, NothingScheduled
    <3> QED
      BY <1>3, <2>3, <2>9, <3>1 DEF LeaveRun, remoteVars, opVars
  <2>10. ASSUME NEW tag \in Tags, AcquireCompletionQueueItems(tag) PROVE OrderlyInv'
    <3>1. UNCHANGED <<shutdown, fault, remote_queue_, signal, outcome, execute_>>
      BY <2>10 DEF AcquireCompletionQueueItems, HandleEvent, ScheduleLocal, remoteVars, opVars
    <3>2. CASE tag = Null
      BY <2>3, <2>10, <3>1, <3>2 DEF AcquireCompletionQueueItems, HandleEvent
    <3>3. CASE tag \in Ops
      <4>1. ScheduleLocal(tag)
        BY <2>10, <3>3 DEF AcquireCompletionQueueItems, HandleEvent
      <4>2. ~Linked(StopOp, local_queue_')
        BY <2>1, <3>3, <4>1, ScheduleLinks DEF NothingScheduled, Items, Threads
      <4> QED
        BY <1>3, <2>1, <2>2, <3>1, <4>2
    <3> QED
      BY <3>2, <3>3 DEF Tags
  <2>11. ASSUME NEW t \in Threads
         PROVE  ~SignalRemoteQueue(t) /\ ~RequestStop(t) /\ ~ShutDown(t)
    BY <1>3, <2>1 DEF SignalRemoteQueue, RequestStop, ShutDown, Discipline
  <2>12. ASSUME NEW t \in Threads, NEW op \in Ops
         PROVE  ~Start(t, op)
    BY <1>3 DEF Start, Discipline, TypeOK
  <2>13. ASSUME NEW op \in Ops, GrpcCompletes(op) PROVE OrderlyInv'
    BY <2>3, <2>13 DEF GrpcCompletes, remoteVars, opVars
  <2> HIDE DEF OrderlyInv
  <2> QED
    BY <1>3, <2>4, <2>5, <2>6, <2>7, <2>8, <2>9, <2>10, <2>11, <2>12, <2>13 DEF Next, RunnerStep, Faulted
<1>4. ASSUME fault = "none", ~shutdown, Next, Discipline PROVE OrderlyInv'
  <2>1. SignalledItemWaits /\ FreshIsIdle /\ WakeupIsUnique /\ FirstWakeupFindsWork
    BY <1>4 DEF WakeupInv
  <2> USE DEF SignalledItemWaits, FirstWakeup, Signallers
  <2>2. ASSUME NEW t \in Threads, ShutDown(t) PROVE OrderlyInv'
    <3>1. NothingScheduled /\ NothingScheduled' /\ fault' = "none" /\ shutdown' /\ Signallers' = Signallers
      BY <1>4, <2>2 DEF ShutDown, Discipline, NothingScheduled, remoteVars, opVars
    <3>2. remote_queue_ = <<>> /\ (pc # "drain" => local_queue_ = <<>>)
      BY <1>4, <3>1, NothingScheduledIsEmpty
    <3>3. Signallers = {}
      BY <1>4, <2>1, <3>2 DEF FirstWakeupFindsWork
    <3> QED
      BY <3>1, <3>3
  <2>3. ASSUME UNCHANGED <<shutdown, fault, remote_queue_, local_queue_, remote_queue_read_submitted_,
                           signal, work_alarm_>>,
               pc' # "next" \/ pc' = pc
        PROVE  OrderlyInv'
    BY <1>4, <2>1, <2>3
  <2>4. ASSUME UNCHANGED <<pc, shutdown, fault, remote_queue_read_submitted_, work_alarm_>>,
               NEW t \in Threads, NEW item \in Items, ScheduleLocal(item) \/ ScheduleRemote(t, item)
        PROVE  OrderlyInv'
    <3>1. CASE ScheduleLocal(item)
      <4>1. local_queue_' # <<>> /\ remote_queue_' = remote_queue_ /\ signal' = signal
        BY <3>1 DEF ScheduleLocal, remoteVars, TypeOK
      <4> QED
        BY <1>4, <2>1, <2>4, <4>1
    <3>2. CASE ScheduleRemote(t, item)
      <4>1. /\ remote_queue_' # <<>> /\ local_queue_' = local_queue_
            /\ remote_active => signal' = signal
        <5>1. Linked(item, remote_queue_')
          BY <3>2, ScheduleLinks
        <5> QED
          BY <3>2, <5>1, EmptyLinks DEF ScheduleRemote, Told
      <4>2. ~remote_active /\ ~remote_queue_read_submitted_ => pc # "next"
        BY <2>1 DEF FreshIsIdle
      <4> QED
        BY <1>4, <2>1, <2>4, <4>1, <4>2
    <3> QED
      BY <2>4, <3>1, <3>2
  <2>5. CASE Run
    <3>1. UNCHANGED <<shutdown, fault, remote_queue_read_submitted_, work_alarm_>> /\ pc' = "register"
      BY <2>5 DEF Run, grpcVars
    <3>2. CASE stop_requested'
      <4>1. ScheduleRemote(Runner, StopOp)
        BY <2>5, <3>2 DEF Run, ScheduleImpl, IsRunningOnThisThread
      <4>2. remote_queue_' # <<>>
        BY <4>1, ScheduleLinks, EmptyLinks DEF Items, Threads
      <4> QED
        BY <1>4, <3>1, <4>2
    <3>3. CASE ~stop_requested'
      BY <2>3, <2>5, <3>1, <3>3 DEF Run, remoteVars
    <3> QED
      BY <3>2, <3>3
  <2>6. CASE EnterRunImpl \/ CallbackReturns \/ StopLoop \/ AcquireNothing
    BY <2>3, <2>6 DEF EnterRunImpl, CallbackReturns, StopLoop, AcquireNothing, Goes, allButPc,
       remoteVars, grpcVars
  <2>7. CASE TakeLocalQueue
    BY <1>4, <2>1, <2>7 DEF TakeLocalQueue, remoteVars, grpcVars
  <2>8. CASE ExecuteItem
    BY <1>4, <2>1, <2>8 DEF ExecuteItem, OnStop, OnRequestComplete, OnScheduleComplete, StartAsyncRPC, remoteVars
  <2>9. CASE CheckRemoteQueue
    <3>1. pc = "exec" /\ pc' = "next" /\ UNCHANGED <<shutdown, signal, work_alarm_>>
      BY <2>9 DEF CheckRemoteQueue, grpcVars
    <3>2. CASE remote_queue_read_submitted_
      BY <1>4, <2>1, <2>9, <3>1, <3>2 DEF CheckRemoteQueue, Relies
    <3>3. CASE ~remote_queue_read_submitted_
      <4>1. /\ local_queue_' = local_queue_ \o remote_queue_
            /\ remote_queue_read_submitted_' => remote_queue_ = <<>>
            /\ fault' \in {"none", "inactive_dequeue"}
        BY <2>9, <3>3 DEF CheckRemoteQueue, Relies, TryScheduleRemoteQueuedItems, QueueOrder
      <4>2. remote_queue_ # <<>> => local_queue_' # <<>>
        BY <4>1 DEF TypeOK
      <4> QED
        BY <1>4, <2>1, <3>1, <3>3, <4>1, <4>2 DEF FirstWakeupFindsWork
    <3> QED
      BY <3>2, <3>3
  <2>10. CASE LeaveRun
    <3>1. ~Linked(StopOp, local_queue_) /\ ~Linked(StopOp, remote_queue_)
      BY <1>4, <2>10 DEF LeaveRun, PlacesInv, LoopAgrees, StopAgrees, Queued
    <3> QED
      BY <1>4, <2>3, <2>10, <3>1 DEF LeaveRun, remoteVars, grpcVars
  <2>11. ASSUME NEW tag \in Tags, AcquireCompletionQueueItems(tag) PROVE OrderlyInv'
    <3>1. pc' = "drain" /\ UNCHANGED <<shutdown, fault, remote_queue_, signal>>
      BY <2>11 DEF AcquireCompletionQueueItems, AfterEvent, HandleEvent, ScheduleLocal, remoteVars
    <3>2. remote_queue_read_submitted_' => remote_queue_read_submitted_
      BY <2>11 DEF AcquireCompletionQueueItems, HandleEvent
    <3> QED
      BY <1>4, <2>1, <3>1, <3>2
  <2>12. ASSUME NEW t \in Threads, SignalRemoteQueue(t) PROVE OrderlyInv'
    <3>1. /\ fault' \in {"none", "alarm_reset"} /\ t \in Signallers
          /\ Signallers' \subseteq Signallers
          /\ UNCHANGED <<pc, shutdown, remote_queue_, local_queue_, remote_queue_read_submitted_>>
      BY <1>4, <2>12 DEF SignalRemoteQueue, runVars, TypeOK
    <3> QED
      BY <1>4, <2>1, <3>1
  <2>13. ASSUME NEW t \in Threads, RequestStop(t) PROVE OrderlyInv'
    <3>1. UNCHANGED <<pc, shutdown, fault, remote_queue_read_submitted_, work_alarm_>>
      BY <2>13 DEF RequestStop, runVars, grpcVars
    <3>2. CASE stop_callback = "registered"
      BY <2>4, <2>13, <3>1, <3>2 DEF RequestStop, ScheduleImpl, Items
    <3>3. CASE stop_callback # "registered"
      BY <2>3, <2>13, <3>1, <3>3 DEF RequestStop, remoteVars
    <3> QED
      BY <3>2, <3>3
  <2>14. ASSUME NEW t \in Threads, NEW op \in Ops, Start(t, op) PROVE OrderlyInv'
    <3>1. UNCHANGED <<pc, shutdown, fault, remote_queue_read_submitted_, work_alarm_>>
      BY <1>4, <2>14 DEF Start, StartAsyncRPC, runVars
    <3>2. CASE IsRunningOnThisThread(t)
      BY <2>3, <2>14, <3>1, <3>2 DEF Start, remoteVars
    <3>3. CASE ~IsRunningOnThisThread(t)
      BY <2>4, <2>14, <3>1, <3>3 DEF Start, Items
    <3> QED
      BY <3>2, <3>3
  <2>15. ASSUME NEW op \in Ops, GrpcCompletes(op) PROVE OrderlyInv'
    BY <2>3, <2>15 DEF GrpcCompletes, runVars, remoteVars
  <2>16. CASE AlarmFires
    BY <1>4, <2>1, <2>16 DEF AlarmFires, runVars, remoteVars
  <2> HIDE DEF OrderlyInv
  <2> QED
    BY <1>4, <2>2, <2>5, <2>6, <2>7, <2>8, <2>9, <2>10, <2>11, <2>12, <2>13, <2>14, <2>15, <2>16
    DEF Next, RunnerStep, Faulted
<1> QED
  BY <1>1, <1>2, <1>3, <1>4 DEF OrderlyNext

(* The discipline keeps the context in order for ever.                     *)
THEOREM OrderlyInvariant == OrderlySpec => [](TypeOK /\ PlacesInv /\ OrderlyInv)
<1>1. Init => OrderlyInv
  BY DEF Init, OrderlyInv, ShutDownIsSafe, SignalledItemWaits, FirstWakeup, Signallers
<1> QED
  BY <1>1, OrderlyIsContext, NextKeepsOrderly, PTL DEF OrderlySpec

(* An application that shuts down only while nothing is scheduled, and     *)
(* schedules nothing from then on, makes ShutDown safe: nobody reaches     *)
(* gRPC or the alarm after the queue was shut down, not even a thread that *)
(* was half way through ScheduleRemote, and stop_op never dangles.         *)
THEOREM OrderlyIsSafe == OrderlySpec => []ShutDownIsSafe
<1>1. OrderlyInv => ShutDownIsSafe
  BY DEF OrderlyInv
<1> QED
  BY <1>1, OrderlyInvariant, PTL

(* A Run that then leaves through the drained queue leaves no item and no  *)
(* signalling thread behind.                                               *)
THEOREM OrderlyLeavesNothing == OrderlySpec => []NothingLeftBehind
<1>1. TypeOK /\ PlacesInv /\ OrderlyInv => NothingLeftBehind
  <2> SUFFICES ASSUME TypeOK, PlacesInv, OrderlyInv, pc = "leave", ~should_stop_, fault = "none"
               PROVE  local_queue_ = <<>> /\ remote_queue_ = <<>> /\ Signallers = {}
    BY DEF NothingLeftBehind
  <2>1. shutdown
    BY DEF PlacesInv, LoopAgrees
  <2>2. NothingScheduled /\ Signallers = {}
    BY <2>1 DEF OrderlyInv
  <2> QED
    BY <2>2, NothingScheduledIsEmpty
<1> QED
  BY <1>1, OrderlyInvariant, PTL
=============================================================================
