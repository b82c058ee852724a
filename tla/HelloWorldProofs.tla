-------------------------- MODULE HelloWorldProofs --------------------------
(* Proofs about HelloWorld: the example programs use the context and their *)
(* calls as they should, however often they go round and whatever gRPC     *)
(* answers.                                                                *)
EXTENDS HelloWorld, GrpcContextProofs

(* The inductive invariant behind NeverMisused.  The call is what the last *)
(* operation that was issued has made of it; only the first operation is   *)
(* ever scheduled instead of being issued at once ...                      *)
CallAfter(operation) ==
  CASE operation = "AsyncRequest" -> "requested"
    [] operation = "AsyncWrite" -> "accepted"
    [] OTHER -> "finished"

CallAgrees ==
  IF execute_[Op] = "OnScheduleComplete"
    THEN awaiting \in {0, 1} /\ call = (IF Loops THEN "fresh" ELSE "accepted")
    ELSE awaiting > 0 /\ call = CallAfter(Script[awaiting])

(* ... and the coroutine runs before Run or in the receiver of its         *)
(* operation, which is then over for gRPC and the context.                 *)
CoroutineAgrees ==
  /\ awaiting = 0 =>
       coroutine = "ready" /\ pc = "outside" /\ outcome[Op] = "unstarted"
  /\ coroutine = "ready" /\ awaiting > 0 => pc = "callback"
  /\ coroutine # "suspended" => outcome[Op] # "running"
  /\ coroutine = "aborted" => pc = "callback"
  /\ pc = "callback" => execute_[Op] = "OnRequestComplete"

(* The main thread does not call Run before something is scheduled, nor    *)
(* ShutDown before the coroutine is done; nobody requests stop.            *)
MainAgrees ==
  /\ awaiting > 0 => remote_active \/ remote_queue_read_submitted_
  /\ shutdown => coroutine = "returned" /\ signal[Runner] = Null
  /\ ~stop_requested /\ stop_callback # "invoked"

AppTypeOK ==
  /\ program \in {"server", "streaming", "client"}
  /\ awaiting \in 0..Len(Script)
  /\ coroutine \in {"ready", "suspended", "returned", "aborted"}

HelloInv == AppTypeOK /\ CallAgrees /\ CoroutineAgrees /\ MainAgrees /\ fault = "none"

(* A program is a context that is used by one coroutine and by main.       *)
LEMMA ProgramIsContext == AppSpec => [](TypeOK /\ WakeupInv /\ PlacesInv)
<1>1. [AppNext]_allVars => [Next]_vars
  <2>1. Op \in Ops /\ Runner \in Threads
    BY OneThread DEF Threads
  <2>2. Program => [Next]_vars
    BY <2>1 DEF Program, Begin, CallRun, ReturnToLoop, LoopStep, Signal, ServerGoesOn, ServerGivesUp,
       StreamingHandlerEnds, ClientEnds, ClientShutsDown, ClientCheckFails, Await, Next, RunnerStep
  <2>3. Answer \/ Expire => Next
    BY <2>1 DEF Answer, Expire, Next
  <2> QED
    BY <2>2, <2>3 DEF AppNext, allVars
<1>2. AppSpec => Spec
  BY <1>1, PTL DEF AppSpec, AppInit, Spec
<1> QED
  BY <1>2, WakeupInvariant, PlacesInvariant, PTL

(* The three scripts: a server's begins with the request, ends with the    *)
(* finish and has only writes in between.                                  *)
LEMMA Scripts ==
  /\ program = "server" => Script = <<"AsyncRequest", "AsyncFinish">>
  /\ program = "streaming" => Script = <<"AsyncRequest", "AsyncWrite", "AsyncWrite", "AsyncFinish">>
  /\ program = "client" => Script = <<"AsyncFinish">>
BY DEF Script

(* The first operation is one the call allows.                             *)
LEMMA FirstIsAllowed ==
  ASSUME AppTypeOK
  PROVE  /\ Len(Script) \in Nat \ {0}
         /\ Issued(1, IF Loops THEN "fresh" ELSE "accepted") = CallAfter(Script[1])
<1> USE Scripts DEF Issued, CallAfter, Loops, AsyncRequest, AsyncWrite, AsyncFinish
<1>1. CASE program = "server"
  BY <1>1
<1>2. CASE program = "streaming"
  BY <1>2
<1>3. CASE program = "client"
  BY <1>3
<1> QED
  BY <1>1, <1>2, <1>3 DEF AppTypeOK

(* So is each one after it, although only the answer to the request is     *)
(* looked at.                                                              *)
LEMMA NextIsAllowed ==
  ASSUME AppTypeOK, Loops, GoesOn, awaiting > 0, call = CallAfter(Script[awaiting])
  PROVE  /\ NextAwaited \in 1..Len(Script)
         /\ Issued(NextAwaited, ResumedCall) = CallAfter(Script[NextAwaited])
<1> USE DEF Issued, CallAfter, AsyncRequest, AsyncWrite, AsyncFinish, NextAwaited, ResumedCall, GoesOn
<1>1. CASE program = "server"
  <2>1. Script = <<"AsyncRequest", "AsyncFinish">> /\ awaiting \in {1, 2}
    <3>1. Script = <<"AsyncRequest", "AsyncFinish">>
      BY <1>1, Scripts
    <3>2. Len(Script) = 2
      BY <3>1
    <3> QED
      BY <3>1, <3>2 DEF AppTypeOK
  <2>2. CASE awaiting = 1
    BY <2>1, <2>2
  <2>3. CASE awaiting = 2
    BY <2>1, <2>3
  <2> QED
    BY <2>1, <2>2, <2>3
<1>2. CASE program = "streaming"
  <2>1. /\ Script = <<"AsyncRequest", "AsyncWrite", "AsyncWrite", "AsyncFinish">>
        /\ awaiting \in {1, 2, 3, 4}
    <3>1. Script = <<"AsyncRequest", "AsyncWrite", "AsyncWrite", "AsyncFinish">>
      BY <1>2, Scripts
    <3>2. Len(Script) = 4
      BY <3>1
    <3> QED
      BY <3>1, <3>2 DEF AppTypeOK
  <2>2. CASE awaiting = 1
    BY <2>1, <2>2
  <2>3. CASE awaiting = 2
    BY <2>1, <2>3
  <2>4. CASE awaiting = 3
    BY <2>1, <2>4
  <2>5. CASE awaiting = 4
    BY <2>1, <2>5
  <2> QED
    BY <2>1, <2>2, <2>3, <2>4, <2>5
<1> QED
  BY <1>1, <1>2 DEF AppTypeOK, Loops

(* What an item of the runner's list tells about its operation; stop_op is *)
(* never there.                                                            *)
LEMMA QueuedIsRunning ==
  ASSUME TypeOK, PlacesInv, HelloInv
  PROVE  /\ ~Linked(StopOp, local_queue_) /\ ~Linked(StopOp, remote_queue_)
         /\ pending # <<>> =>
              /\ Head(pending) = Op /\ outcome[Op] = "running" /\ Op \notin inflight
              /\ coroutine = "suspended" /\ ~shutdown /\ awaiting > 0
<1>1. ~Queued(StopOp)
  BY DEF PlacesInv, StopAgrees, HelloInv, MainAgrees
<1>2. ASSUME pending # <<>> PROVE Head(pending) = Op /\ Queued(Op)
  <2>1. Head(pending) \in Items /\ Len(pending) \in Nat \ {0} /\ Head(pending) = pending[1]
    BY <1>2, HeadTailProperties, EmptySeq, LenProperties DEF TypeOK
  <2>2. Queued(Head(pending))
    BY <2>1 DEF Queued, Linked
  <2> QED
    BY <1>1, <2>1, <2>2, OneThread DEF Items
<1>3. Queued(Op) => outcome[Op] = "running" /\ Op \notin inflight
  BY OneThread DEF PlacesInv, OnePlace, HelloInv
<1>4. outcome[Op] = "running" => coroutine = "suspended" /\ ~shutdown /\ awaiting > 0
  BY DEF HelloInv, CoroutineAgrees, MainAgrees, AppTypeOK
<1> QED
  BY <1>1, <1>2, <1>3, <1>4 DEF Queued

(* A step of the loop keeps the invariant: it may issue the first          *)
(* operation, or complete the one that is awaited.                         *)
LEMMA LoopStepKeeps ==
  ASSUME TypeOK, WakeupInv, PlacesInv, HelloInv, LoopStep
  PROVE  HelloInv'
<1> USE OneThread, ConstantsDistinct
<1>1. /\ pc # "callback" /\ RunnerStep
      /\ coroutine' = IF pc' = "callback" THEN "ready" ELSE coroutine
      /\ call' = IF inflight' \ inflight # {} THEN Issued(awaiting, call) ELSE call
      /\ UNCHANGED <<program, awaiting>>
      /\ UNCHANGED Script
  BY DEF LoopStep, Script
<1>2. /\ AppTypeOK /\ fault = "none" /\ Op \in Ops /\ execute_[Op] \in Callbacks
      /\ ~stop_requested /\ stop_callback # "invoked"
  BY DEF HelloInv, MainAgrees, TypeOK
<1>3. coroutine # "aborted" /\ (coroutine = "ready" => awaiting = 0)
  BY <1>1 DEF HelloInv, CoroutineAgrees, AppTypeOK
<1>4. ASSUME pc' # "callback", pc # "outside",
             UNCHANGED <<execute_, outcome, inflight, signal, shutdown, stop_requested>>,
             stop_callback' # "invoked", fault' = "none",
             awaiting > 0 => remote_active' \/ remote_queue_read_submitted_'
      PROVE  HelloInv'
  <2>1. coroutine' = coroutine /\ call' = call
    BY <1>1, <1>4
  <2>2. CallAgrees'
    BY <1>1, <1>4, <2>1 DEF HelloInv, CallAgrees, Loops
  <2>3. CoroutineAgrees'
    BY <1>1, <1>3, <1>4, <2>1 DEF HelloInv, CoroutineAgrees
  <2>4. MainAgrees'
    BY <1>1, <1>4, <2>1 DEF HelloInv, MainAgrees
  <2> QED
    BY <1>1, <1>4, <2>1, <2>2, <2>3, <2>4 DEF HelloInv, AppTypeOK
<1>5. awaiting > 0 => remote_active \/ remote_queue_read_submitted_
  BY DEF HelloInv, MainAgrees
<1>6. CASE EnterRunImpl \/ StopLoop \/ AcquireNothing
  BY <1>2, <1>4, <1>5, <1>6 DEF EnterRunImpl, StopLoop, AcquireNothing, Goes, allButPc, opVars, grpcVars,
     remoteVars, stopVars
<1>7. CASE TakeLocalQueue
  BY <1>2, <1>4, <1>5, <1>7 DEF TakeLocalQueue, opVars, grpcVars, remoteVars, stopVars
<1>8. CASE CheckRemoteQueue
  <2>1. awaiting > 0
    BY <1>8 DEF CheckRemoteQueue, HelloInv, CoroutineAgrees, AppTypeOK
  <2>2. CASE Relies
    BY <1>2, <1>4, <1>5, <1>8, <2>2 DEF CheckRemoteQueue, opVars, grpcVars, stopVars
  <2>3. CASE ~Relies
    <3>1. remote_active /\ TryScheduleRemoteQueuedItems
      BY <1>5, <1>8, <2>1, <2>3 DEF CheckRemoteQueue, Relies
    <3>2. fault' = "none" /\ (remote_active' \/ remote_queue_read_submitted_')
      BY <3>1 DEF TryScheduleRemoteQueuedItems, StaysActive
    <3> QED
      BY <1>2, <1>4, <1>8, <3>2 DEF CheckRemoteQueue, opVars, grpcVars, stopVars
  <2> QED
    BY <2>2, <2>3
<1>9. CASE LeaveRun
  BY <1>2, <1>4, <1>5, <1>9, QueuedIsRunning DEF LeaveRun, opVars, grpcVars, remoteVars
<1>10. ASSUME NEW tag \in Tags, AcquireCompletionQueueItems(tag) PROVE HelloInv'
  <2>1. tag = Null => remote_active
    BY <1>2, <1>10 DEF AcquireCompletionQueueItems, WakeupInv, WakeupIsUnique
  <2>2. remote_active' = remote_active /\ signal' = signal
    BY <1>10 DEF AcquireCompletionQueueItems, HandleEvent, ScheduleLocal, remoteVars
  <2>3. tag # Null => UNCHANGED remote_queue_read_submitted_
    BY <1>10 DEF AcquireCompletionQueueItems, HandleEvent
  <2> QED
    BY <1>2, <1>4, <1>5, <1>10, <2>1, <2>2, <2>3 DEF AcquireCompletionQueueItems, AfterEvent, opVars, stopVars
<1>11. CASE ExecuteItem
  <2>1. /\ pc = "exec" /\ Head(pending) = Op /\ Op # StopOp /\ outcome[Op] = "running" /\ Op \notin inflight
        /\ coroutine = "suspended" /\ ~shutdown /\ awaiting > 0
        /\ UNCHANGED <<remote_active, signal, remote_queue_read_submitted_, shutdown, stop_requested, stop_callback>>
    BY <1>11, QueuedIsRunning DEF ExecuteItem, remoteVars, stopVars
  <2>2. CASE execute_[Op] = "OnRequestComplete"
    <3>1. OnRequestComplete(Op)
      BY <1>11, <2>1, <2>2 DEF ExecuteItem
    <3>2. /\ outcome'[Op] # "running" /\ pc' = "callback" /\ UNCHANGED <<execute_, inflight, fault>>
      BY <3>1 DEF OnRequestComplete, Outcome, TypeOK
    <3>3. coroutine' = "ready" /\ call' = call
      BY <1>1, <3>2
    <3>4. CallAgrees'
      BY <1>1, <3>2, <3>3 DEF HelloInv, CallAgrees, Loops
    <3>5. CoroutineAgrees' /\ MainAgrees'
      BY <1>1, <1>2, <1>5, <2>1, <2>2, <3>2, <3>3 DEF CoroutineAgrees, MainAgrees, AppTypeOK
    <3> QED
      BY <1>1, <1>2, <3>2, <3>3, <3>4, <3>5 DEF HelloInv, AppTypeOK
  <2>3. CASE execute_[Op] = "OnScheduleComplete"
    <3>1. OnScheduleComplete(Op)
      BY <1>11, <2>1, <2>3 DEF ExecuteItem
    <3>2. /\ execute_'[Op] = "OnRequestComplete" /\ inflight' \ inflight # {} /\ fault' = "none"
          /\ UNCHANGED <<pc, outcome>>
      BY <2>1, <3>1 DEF OnScheduleComplete, StartAsyncRPC, Switched, TypeOK
    <3>3. /\ coroutine' = "suspended" /\ call' = Issued(awaiting, call)
      BY <1>1, <2>1, <3>2
    <3>4. awaiting = 1 /\ call = (IF Loops THEN "fresh" ELSE "accepted")
      BY <2>1, <2>3 DEF HelloInv, CallAgrees
    <3>5. CallAgrees'
      BY <1>1, <1>2, <3>2, <3>3, <3>4, FirstIsAllowed DEF CallAgrees
    <3>6. CoroutineAgrees' /\ MainAgrees'
      BY <1>1, <1>2, <1>5, <2>1, <3>2, <3>3 DEF CoroutineAgrees, MainAgrees, AppTypeOK
    <3> QED
      BY <1>1, <1>2, <3>2, <3>3, <3>5, <3>6 DEF HelloInv, AppTypeOK
  <2> QED
    BY <1>2, <2>2, <2>3 DEF Callbacks
<1> QED
  BY <1>1, <1>6, <1>7, <1>8, <1>9, <1>10, <1>11 DEF RunnerStep, CallbackReturns, Goes

(* A co_await inside a receiver hands its operation to gRPC at once; the   *)
(* first one, before Run, is scheduled.                                    *)
LEMMA AwaitStarts ==
  ASSUME TypeOK, HelloInv, coroutine = "ready", NEW n, Await(n)
  PROVE  /\ awaiting' = n /\ coroutine' = "suspended" /\ program' = program /\ fault' = "none"
         /\ outcome'[Op] = "running"
         /\ UNCHANGED <<pc, shutdown, stop_requested, stop_callback, remote_queue_read_submitted_>>
         /\ pc = "callback" => execute_'[Op] = "OnRequestComplete" /\ remote_active' = remote_active
         /\ pc = "outside" => execute_'[Op] = "OnScheduleComplete" /\ remote_active'
<1>1. Start(Runner, Op) /\ awaiting' = n /\ coroutine' = "suspended" /\ program' = program
  BY DEF Await
<1>2. fault = "none" /\ ~shutdown /\ Op \in Ops
  BY OneThread DEF HelloInv, MainAgrees
<1>3. /\ outcome'[Op] = "running"
      /\ UNCHANGED <<pc, shutdown, stop_requested, stop_callback, remote_queue_read_submitted_>>
  BY <1>1, <1>2 DEF Start, TypeOK, runVars, stopVars
<1>4. ASSUME pc = "callback"
      PROVE  execute_'[Op] = "OnRequestComplete" /\ remote_active' = remote_active /\ fault' = "none"
  BY <1>1, <1>2, <1>4 DEF Start, IsRunningOnThisThread, StartAsyncRPC, Switched, TypeOK, remoteVars
<1>5. ASSUME pc = "outside"
      PROVE  execute_'[Op] = "OnScheduleComplete" /\ remote_active' /\ fault' = "none"
  BY <1>1, <1>2, <1>5 DEF Start, IsRunningOnThisThread, ScheduleRemote, TypeOK
<1>6. pc \in {"callback", "outside"}
  BY <1>1 DEF Start, CanCall
<1> QED
  BY <1>1, <1>3, <1>4, <1>5, <1>6

(* Every step keeps the invariant.                                         *)
LEMMA NextKeepsHello ==
  /\ TypeOK /\ WakeupInv /\ WakeupInv' /\ PlacesInv /\ HelloInv /\ [AppNext]_allVars
  => HelloInv'
<1> SUFFICES ASSUME TypeOK, WakeupInv, WakeupInv', PlacesInv, HelloInv, [AppNext]_allVars
             PROVE  HelloInv'
  OBVIOUS
<1> USE OneThread, ConstantsDistinct
<1>1. program' = program => Script' = Script
  BY DEF Script
<1>2. CASE Begin
  <2>1. /\ pc = "outside" /\ coroutine = "ready" /\ Await(1) /\ call' = call
    BY <1>2 DEF Begin
  <2>2. awaiting = 0 /\ ~shutdown /\ ~stop_requested /\ stop_callback # "invoked" /\ AppTypeOK
    BY <2>1 DEF HelloInv, CoroutineAgrees, MainAgrees, AppTypeOK
  <2>3. call = (IF Loops THEN "fresh" ELSE "accepted")
    BY <2>2 DEF HelloInv, CallAgrees
  <2>4. /\ awaiting' = 1 /\ coroutine' = "suspended" /\ program' = program /\ fault' = "none"
        /\ UNCHANGED <<pc, shutdown, stop_requested, stop_callback>>
        /\ execute_'[Op] = "OnScheduleComplete" /\ remote_active'
    BY <2>1, AwaitStarts
  <2>5. AppTypeOK'
    BY <1>1, <2>2, <2>4, FirstIsAllowed DEF AppTypeOK
  <2>6. CallAgrees' /\ CoroutineAgrees' /\ MainAgrees'
    BY <2>1, <2>2, <2>3, <2>4 DEF CallAgrees, CoroutineAgrees, MainAgrees, Loops
  <2> QED
    BY <2>4, <2>5, <2>6 DEF HelloInv
<1>3. CASE CallRun
  <2>1. /\ coroutine # "ready" /\ Run /\ pc = "outside" /\ UNCHANGED <<program, awaiting, coroutine, call>>
    BY <1>3 DEF CallRun, appVars, Run
  <2>2. ~stop_requested'
    BY <2>1 DEF Run, HelloInv, MainAgrees
  <2>3. /\ pc' = "register" /\ stop_callback' = "registered"
        /\ UNCHANGED <<remote_active, signal, remote_queue_read_submitted_, execute_, outcome, shutdown, fault>>
    BY <2>1, <2>2 DEF Run, remoteVars, opVars
  <2>4. AppTypeOK' /\ CallAgrees' /\ CoroutineAgrees' /\ MainAgrees'
    BY <1>1, <2>1, <2>2, <2>3 DEF HelloInv, AppTypeOK, CallAgrees, CoroutineAgrees, MainAgrees, Loops
  <2> QED
    BY <2>3, <2>4 DEF HelloInv
<1>4. CASE ReturnToLoop
  <2>1. /\ coroutine \in {"suspended", "returned"} /\ pc = "callback" /\ pc' = "exec"
        /\ UNCHANGED <<program, awaiting, coroutine, call>> /\ UNCHANGED allButPc
    BY <1>4 DEF ReturnToLoop, appVars, CallbackReturns, Goes
  <2>2. AppTypeOK' /\ CallAgrees' /\ CoroutineAgrees' /\ MainAgrees'
    BY <1>1, <2>1 DEF HelloInv, AppTypeOK, CallAgrees, CoroutineAgrees, MainAgrees, Loops, allButPc,
       remoteVars, opVars, stopVars
  <2> QED
    BY <2>1, <2>2 DEF HelloInv, allButPc
<1>5. CASE LoopStep
  BY <1>5, LoopStepKeeps
<1>6. CASE Signal
  <2>1. /\ signal[Runner] # Null /\ ~shutdown
    BY <1>6 DEF Signal, SignalRemoteQueue, HelloInv, MainAgrees
  <2>2. /\ fault' \in {"none", "alarm_reset"} /\ UNCHANGED <<program, awaiting, coroutine, call>>
        /\ UNCHANGED <<pc, execute_, outcome, remote_active, remote_queue_read_submitted_, shutdown,
                       stop_requested, stop_callback>>
    BY <1>6, <2>1 DEF Signal, SignalRemoteQueue, appVars, runVars, opVars, stopVars
  <2>3. fault' = "none"
    BY <2>2 DEF WakeupInv
  <2>4. AppTypeOK' /\ CallAgrees' /\ CoroutineAgrees' /\ MainAgrees'
    BY <1>1, <2>1, <2>2 DEF HelloInv, AppTypeOK, CallAgrees, CoroutineAgrees, MainAgrees, Loops
  <2> QED
    BY <2>3, <2>4 DEF HelloInv
<1>7. CASE ServerGoesOn
  <2>1. /\ pc = "callback" /\ coroutine = "ready" /\ Loops /\ GoesOn /\ Await(NextAwaited)
        /\ call' = Issued(NextAwaited, ResumedCall)
    BY <1>7 DEF ServerGoesOn, Resumed
  <2>2. /\ awaiting > 0 /\ ~shutdown /\ ~stop_requested /\ stop_callback # "invoked" /\ AppTypeOK
        /\ remote_active \/ remote_queue_read_submitted_
    BY <2>1 DEF HelloInv, CoroutineAgrees, MainAgrees, AppTypeOK
  <2>3. call = CallAfter(Script[awaiting])
    BY <2>1 DEF HelloInv, CallAgrees, CoroutineAgrees
  <2>4. NextAwaited \in 1..Len(Script) /\ call' = CallAfter(Script[NextAwaited])
    BY <2>1, <2>2, <2>3, NextIsAllowed
  <2>5. /\ awaiting' = NextAwaited /\ coroutine' = "suspended" /\ program' = program /\ fault' = "none"
        /\ UNCHANGED <<pc, shutdown, stop_requested, stop_callback, remote_queue_read_submitted_>>
        /\ execute_'[Op] = "OnRequestComplete" /\ remote_active' = remote_active
    BY <2>1, AwaitStarts
  <2>6. PICK n : n = NextAwaited
    OBVIOUS
  <2>7. n \in 1..Len(Script) /\ Len(Script) \in Nat
    BY <2>2, <2>4, <2>6, FirstIsAllowed
  <2>8. AppTypeOK'
    BY <1>1, <2>2, <2>5, <2>6, <2>7 DEF AppTypeOK
  <2>9. CallAgrees'
    BY <1>1, <2>4, <2>5, <2>6, <2>7 DEF CallAgrees
  <2>10. CoroutineAgrees' /\ MainAgrees'
    BY <2>1, <2>2, <2>5, <2>6, <2>7 DEF CoroutineAgrees, MainAgrees
  <2> QED
    BY <2>5, <2>8, <2>9, <2>10 DEF HelloInv
<1>8. CASE ServerGivesUp \/ StreamingHandlerEnds \/ ClientCheckFails
  <2>1. /\ pc = "callback" /\ coroutine = "ready" /\ coroutine' \in {"returned", "aborted"}
        /\ UNCHANGED <<vars, program, awaiting, call>>
    BY <1>8 DEF ServerGivesUp, StreamingHandlerEnds, ClientCheckFails, Resumed
  <2>2. AppTypeOK' /\ CallAgrees' /\ CoroutineAgrees' /\ MainAgrees'
    BY <1>1, <2>1 DEF HelloInv, AppTypeOK, CallAgrees, CoroutineAgrees, MainAgrees, Loops, vars
  <2> QED
    BY <2>1, <2>2 DEF HelloInv, vars
<1>9. CASE ClientEnds
  <2>1. /\ pc = "callback" /\ coroutine = "ready" /\ coroutine' = "returned" /\ signal[Runner] = Null
        /\ UNCHANGED <<program, awaiting, call>>
        /\ UNCHANGED <<pc, execute_, outcome, remote_active, signal, remote_queue_read_submitted_,
                       stop_requested, stop_callback, fault>>
    BY <1>9 DEF ClientEnds, Resumed, ClientShutsDown, ShutDown, CanCall, runVars, remoteVars, opVars, stopVars
  <2>2. AppTypeOK' /\ CallAgrees' /\ CoroutineAgrees' /\ MainAgrees'
    BY <1>1, <2>1 DEF HelloInv, AppTypeOK, CallAgrees, CoroutineAgrees, MainAgrees, Loops
  <2> QED
    BY <2>1, <2>2 DEF HelloInv
<1>10. CASE Answer \/ Expire
  <2>1. /\ UNCHANGED <<program, awaiting, coroutine, call>>
        /\ UNCHANGED <<pc, execute_, outcome, remote_active, signal, remote_queue_read_submitted_, shutdown,
                       stop_requested, stop_callback, fault>>
    BY <1>10 DEF Answer, Expire, GrpcCompletes, AlarmFires, appVars, runVars, remoteVars, opVars, stopVars
  <2>2. AppTypeOK' /\ CallAgrees' /\ CoroutineAgrees' /\ MainAgrees'
    BY <1>1, <2>1 DEF HelloInv, AppTypeOK, CallAgrees, CoroutineAgrees, MainAgrees, Loops
  <2> QED
    BY <2>1, <2>2 DEF HelloInv
<1>11. CASE UNCHANGED allVars
  <2>1. AppTypeOK' /\ CallAgrees' /\ CoroutineAgrees' /\ MainAgrees'
    BY <1>1, <1>11 DEF HelloInv, AppTypeOK, CallAgrees, CoroutineAgrees, MainAgrees, Loops, allVars, appVars, vars
  <2> QED
    BY <1>11, <2>1 DEF HelloInv, allVars, vars
<1> QED
  BY <1>2, <1>3, <1>4, <1>5, <1>6, <1>7, <1>8, <1>9, <1>10, <1>11 DEF AppNext, Program

(* The example programs never issue an operation their call does not allow *)
(* and never break a precondition of the context, gRPC or the alarm:       *)
(* however often a server goes round, whatever the answers are, and        *)
(* although those to writes and finishes are not looked at.                *)
THEOREM ExamplesNeverMisuse == AppSpec => []NeverMisused
<1>1. AppInit => HelloInv
  <2> SUFFICES ASSUME AppInit PROVE HelloInv
    OBVIOUS
  <2>1. AppTypeOK
    <3>1. Script \in {<<"AsyncRequest", "AsyncFinish">>,
                      <<"AsyncRequest", "AsyncWrite", "AsyncWrite", "AsyncFinish">>, <<"AsyncFinish">>}
      BY Scripts DEF AppInit
    <3>2. Len(Script) \in {1, 2, 4}
      BY <3>1
    <3> QED
      BY <3>2 DEF AppInit, AppTypeOK
  <2> QED
    BY <2>1, OneThread, ConstantsDistinct
    DEF AppInit, Init, HelloInv, CallAgrees, CoroutineAgrees, MainAgrees, Threads
<1>2. HelloInv => NeverMisused
  BY DEF HelloInv, CallAgrees, CallAfter, NeverMisused
<1> QED
  BY <1>1, <1>2, ProgramIsContext, NextKeepsHello, PTL DEF AppSpec
=============================================================================
