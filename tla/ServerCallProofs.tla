-------------------------- MODULE ServerCallProofs --------------------------
(* Proofs about the RPC operations, for any number of coroutines that      *)
(* share a call.                                                           *)
EXTENDS ServerCall, TLAPS

(* What running a closure does to the type of the call.                    *)
LEMMA RunsRpcTypes ==
  ASSUME TypeOK, NEW op, RunsRpc(op)
  PROVE  call' \in [stage : Stages, recv : BOOLEAN, send : BOOLEAN, status : BOOLEAN]
BY DEF TypeOK, RunsRpc, Issued, AsyncRequest, AsyncRead, AsyncWrite, AsyncFinish,
       Batch, Stages

(* Every variable keeps its type, for any number of coroutines.            *)
THEOREM CallTypes == Spec => []TypeOK
<1>1. Init => TypeOK
  BY DEF Init, TypeOK, Context!Init, FreshCall, Stages, Responders, Servers
<1>2. TypeOK /\ [Next]_vars => TypeOK'
  <2> SUFFICES ASSUME TypeOK, [Next]_vars
               PROVE  TypeOK'
    OBVIOUS
  <2>1. ASSUME NEW co \in Coroutines, NEW op \in Operations, Await(co, op)
        PROVE  TypeOK'
    <3>1. call' \in [stage : Stages, recv : BOOLEAN, send : BOOLEAN, status : BOOLEAN]
      BY <2>1, RunsRpcTypes DEF Await, TypeOK
    <3>2. QED
      BY <2>1, <3>1 DEF Await, TypeOK, Context!Begin
  <2>2. ASSUME NEW co \in Coroutines, Issue(co)
        PROVE  TypeOK'
    <3>1. call' \in [stage : Stages, recv : BOOLEAN, send : BOOLEAN, status : BOOLEAN]
      BY <2>2, RunsRpcTypes DEF Issue
    <3>2. QED
      BY <2>2, <3>1 DEF Issue, TypeOK, Context!Issue, appVars
  <2>3. ASSUME NEW co \in Coroutines, Complete(co)
        PROVE  TypeOK'
    BY <2>3 DEF Complete, TypeOK, Context!Reply, appVars, Completed, Stages
  <2>4. ASSUME NEW co \in Coroutines, Resume(co)
        PROVE  TypeOK'
    BY <2>4 DEF Resume, TypeOK, Context!Deliver, Told
  <2>5. CASE NextCall
    BY <2>5 DEF NextCall, TypeOK, FreshCall, Stages
  <2>6. CASE UNCHANGED vars
    BY <2>6 DEF vars, TypeOK
  <2>7. QED
    BY <2>1, <2>2, <2>3, <2>4, <2>5, <2>6 DEF Next
<1>3. QED
  BY <1>1, <1>2, PTL DEF Spec

(* The closure of an operation that gRPC's rules allow now does what it    *)
(* says, or is undefined.                                                  *)
Allowed(op) ==
  /\ op = "AsyncRequest" => call.stage = "fresh"
  /\ op # "AsyncRequest" => call.stage = "accepted"
  /\ op = "AsyncRead" => ~call.recv
  /\ op \in Finishing \cup {"AsyncWrite"} => ~call.send /\ ~call.status

LEMMA AllowedRuns ==
  ASSUME TypeOK, NEW op \in Operations \ {"AsyncSendInitialMetadata"},
         Allowed(op), RunsRpc(op)
  PROVE  /\ call'.stage # "rejected"
         /\ Alive' =>
              /\ call'.stage = IF op = "AsyncRequest" THEN "requested" ELSE call.stage
              /\ call'.recv = (call.recv \/ op = "AsyncRead")
              /\ call'.send = (call.send \/ op \in Finishing \cup {"AsyncWrite"})
              /\ call'.status = (call.status \/ op \in Finishing)
BY DEF TypeOK, Allowed, RunsRpc, Issued, AsyncRequest, AsyncRead, AsyncWrite,
       AsyncFinish, Batch, CanSend, Operations, Finishing, Alive

(* Starting an operation keeps the invariant.                              *)
LEMMA AwaitKeeps ==
  ASSUME TypeOK, CallInv, NEW co \in Coroutines, NEW op \in Operations, Await(co, op)
  PROVE  CallInv'
<1>1. /\ OneAtATime /\ GrpcIsAwaited /\ ProgressAgrees
      /\ phase[co] = "idle"
      /\ \A c \in Coroutines : c # co => phase'[c] = phase[c]
      /\ phase'[co] \in {"requested", "inflight"}
      /\ awaiting' = [awaiting EXCEPT ![co] = op]
      /\ answer' = answer /\ responder' = responder
      /\ Alive /\ MayStart(op)
  BY DEF CallInv, Await, Context!Begin, TypeOK
<1>2. /\ op # "AsyncSendInitialMetadata"
      /\ responder \in Accepts(op)
      /\ progress = IF op = "AsyncRequest" THEN "fresh" ELSE "accepted"
      /\ progress' = CASE op = "AsyncRequest" -> "asked"
                       [] op \in Finishing -> "finishing"
                       [] OTHER -> "accepted"
  BY <1>1 DEF MayStart, Accepts, AsyncSendInitialMetadataCPO, Await
<1>3. /\ op = "AsyncRead" => \A c \in Coroutines : ~Busy(c, {"AsyncRead"})
      /\ op # "AsyncRead" => \A c \in Coroutines : ~Busy(c, NotReading)
  <2>1. op = "AsyncRead" => \A c \in Coroutines : ~Busy(c, {"AsyncRead"})
    BY <1>1 DEF MayStart, Awaited, Busy
  <2>2. ASSUME op # "AsyncRead", NEW c \in Coroutines, Busy(c, NotReading)
        PROVE  FALSE
    <3>1. op # "AsyncRequest" /\ progress = "accepted"
      BY <1>1, <1>2, <2>2 DEF ProgressAgrees, Busy
    <3>2. awaiting[c] # "AsyncWrite"
      BY <1>1, <2>2 DEF MayStart, Awaited, Busy
    <3>3. awaiting[c] # "AsyncSendInitialMetadata"
      BY <1>1, <2>2 DEF ProgressAgrees, Busy, Accepts, AsyncSendInitialMetadataCPO
    <3>4. awaiting[c] # "AsyncRequest" /\ awaiting[c] \notin Finishing
      BY <1>1, <2>2, <3>1 DEF ProgressAgrees, Busy
    <3>5. QED
      BY <2>2, <3>2, <3>3, <3>4 DEF Busy, NotReading, Operations, Finishing
  <2>3. QED
    BY <2>1, <2>2
<1>4. Allowed(op)
  <2>1. /\ op = "AsyncRequest" => call.stage = "fresh"
        /\ op # "AsyncRequest" => call.stage = "accepted"
    BY <1>1, <1>2 DEF ProgressAgrees
  <2>2. op = "AsyncRead" => ~call.recv
    BY <1>1, <1>3 DEF GrpcIsAwaited, InFlight, Busy, Idle
  <2>3. op # "AsyncRead" => ~call.send /\ ~call.status
    BY <1>1, <1>2, <1>3 DEF GrpcIsAwaited, InFlight, Busy, Idle, NotReading,
         Operations, Finishing
  <2>4. QED
    BY <2>1, <2>2, <2>3 DEF Allowed, Finishing
<1>5. /\ call'.stage # "rejected"
      /\ phase'[co] = "requested" => call' = call
      /\ Alive' /\ phase'[co] = "inflight" =>
           /\ call'.stage = IF op = "AsyncRequest" THEN "requested" ELSE call.stage
           /\ call'.recv = (call.recv \/ op = "AsyncRead")
           /\ call'.send = (call.send \/ op \in Finishing \cup {"AsyncWrite"})
           /\ call'.status = (call.status \/ op \in Finishing)
  BY <1>1, <1>2, <1>4, AllowedRuns DEF Await, Alive
<1>6. OneAtATime'
  BY <1>1, <1>3 DEF OneAtATime, Busy, Idle, NotReading, TypeOK
<1>7. ASSUME Alive'
      PROVE  GrpcIsAwaited'
  <2>1. \A ops : InFlight(ops) => InFlight(ops)'
    BY <1>1 DEF InFlight, TypeOK
  <2>2. phase'[co] = "inflight" => \A ops : op \in ops => InFlight(ops)'
    BY <1>1 DEF InFlight, TypeOK
  <2>3. call'.stage = "requested" => InFlight({"AsyncRequest"})'
    BY <1>1, <1>5, <1>7, <2>1, <2>2 DEF GrpcIsAwaited
  <2>4. call'.recv => InFlight({"AsyncRead"})'
    BY <1>1, <1>5, <1>7, <2>1, <2>2 DEF GrpcIsAwaited
  <2>5. call'.send => InFlight(Finishing \cup {"AsyncWrite"})'
    BY <1>1, <1>5, <1>7, <2>1, <2>2 DEF GrpcIsAwaited
  <2>6. call'.status =>
          \E c \in Coroutines : /\ phase'[c] \in {"inflight", "answered"}
                                /\ awaiting'[c] \in Finishing
    BY <1>1, <1>2, <1>5, <1>7 DEF GrpcIsAwaited, TypeOK
  <2>7. QED
    BY <2>3, <2>4, <2>5, <2>6 DEF GrpcIsAwaited
<1>8. ASSUME Alive'
      PROVE  ProgressAgrees'
  BY <1>1, <1>2, <1>3, <1>5, <1>8 DEF ProgressAgrees, TypeOK, Busy, Idle,
       NotReading, Operations, Finishing
<1>9. QED
  BY <1>5, <1>6, <1>7, <1>8 DEF CallInv, NeverRejected

(* Executing an operation that was started elsewhere keeps the invariant.  *)
LEMMA IssueKeeps ==
  ASSUME TypeOK, CallInv, NEW co \in Coroutines, Issue(co)
  PROVE  CallInv'
<1> DEFINE op == awaiting[co]
<1>1. /\ OneAtATime /\ GrpcIsAwaited /\ ProgressAgrees
      /\ phase[co] = "requested"
      /\ phase' = [phase EXCEPT ![co] = "inflight"]
      /\ awaiting' = awaiting /\ answer' = answer
      /\ responder' = responder /\ progress' = progress
      /\ RunsRpc(op)
  BY DEF CallInv, Issue, Context!Issue, appVars
<1>2. /\ op \in Operations \ {"AsyncSendInitialMetadata"}
      /\ op = "AsyncRequest" => progress = "asked" /\ call.stage = "fresh"
      /\ op # "AsyncRequest" => call.stage = "accepted"
      /\ op \in Finishing => progress = "finishing"
      /\ progress = "finished" => op = "AsyncRead"
  BY <1>1 DEF ProgressAgrees, Idle, Accepts, AsyncSendInitialMetadataCPO, TypeOK
<1>3. Allowed(op)
  <2>1. op = "AsyncRead" => ~call.recv
    BY <1>1 DEF GrpcIsAwaited, InFlight, OneAtATime, Busy, Idle
  <2>2. op \in Finishing \cup {"AsyncWrite"} => ~call.send /\ ~call.status
    BY <1>1, <1>2 DEF GrpcIsAwaited, InFlight, OneAtATime, Busy, Idle, NotReading,
         Operations, Finishing
  <2>3. QED
    BY <1>2, <2>1, <2>2 DEF Allowed
<1>4. /\ call'.stage # "rejected"
      /\ Alive' =>
           /\ call'.stage = IF op = "AsyncRequest" THEN "requested" ELSE call.stage
           /\ call'.recv = (call.recv \/ op = "AsyncRead")
           /\ call'.send = (call.send \/ op \in Finishing \cup {"AsyncWrite"})
           /\ call'.status = (call.status \/ op \in Finishing)
  BY <1>1, <1>2, <1>3, AllowedRuns
<1> HIDE DEF op
<1>5. OneAtATime'
  BY <1>1 DEF OneAtATime, Busy, Idle, TypeOK
<1>6. ASSUME Alive'
      PROVE  GrpcIsAwaited'
  <2>1. \A ops : InFlight(ops) \/ op \in ops => InFlight(ops)'
    BY <1>1 DEF InFlight, TypeOK, op
  <2>2. /\ call'.stage = "requested" => InFlight({"AsyncRequest"})'
        /\ call'.recv => InFlight({"AsyncRead"})'
        /\ call'.send => InFlight(Finishing \cup {"AsyncWrite"})'
    BY <1>1, <1>4, <1>6, <2>1 DEF GrpcIsAwaited
  <2>3. call'.status =>
          \/ progress' = "finished"
          \/ \E c \in Coroutines : /\ phase'[c] \in {"inflight", "answered"}
                                   /\ awaiting'[c] \in Finishing
    BY <1>1, <1>4, <1>6 DEF GrpcIsAwaited, TypeOK, op
  <2>4. QED
    BY <2>2, <2>3 DEF GrpcIsAwaited
<1>7. ASSUME Alive'
      PROVE  ProgressAgrees'
  <2>1. \A c \in Coroutines : awaiting[c] = "AsyncRequest" /\ ~Idle(c) /\ c # co =>
          op # "AsyncRequest"
    BY <1>1 DEF OneAtATime, Busy, Idle, NotReading, Operations, op
  <2>2. op = "AsyncRequest" => progress = "asked" /\ call'.stage = "requested"
    BY <1>2, <1>4, <1>7
  <2>3. op # "AsyncRequest" => call'.stage = call.stage
    BY <1>4, <1>7
  <2>4. QED
    BY <1>1, <1>2, <2>1, <2>2, <2>3 DEF ProgressAgrees, Idle, TypeOK, op
<1>8. QED
  BY <1>4, <1>5, <1>6, <1>7 DEF CallInv, NeverRejected

(* An answer of gRPC keeps the invariant.                                  *)
LEMMA CompleteKeeps ==
  ASSUME TypeOK, CallInv, NEW co \in Coroutines, Complete(co)
  PROVE  CallInv'
<1> DEFINE op == awaiting[co]
<1>1. /\ OneAtATime /\ GrpcIsAwaited /\ ProgressAgrees
      /\ phase[co] = "inflight"
      /\ phase' = [phase EXCEPT ![co] = "answered"]
      /\ awaiting' = awaiting /\ responder' = responder /\ progress' = progress
      /\ \A c \in Coroutines : c # co => answer'[c] = answer[c]
      /\ call' = Completed(op, answer'[co], call)
  BY DEF CallInv, Complete, Context!Reply, appVars, TypeOK
<1>2. /\ call'.stage = IF op = "AsyncRequest"
                         THEN IF answer'[co] THEN "accepted" ELSE "failed"
                         ELSE call.stage
      /\ call'.recv = (call.recv /\ op # "AsyncRead")
      /\ call'.send = (call.send /\ op \in {"AsyncRequest", "AsyncRead"})
      /\ call'.status = call.status
  BY <1>1 DEF Completed, TypeOK
<1>3. /\ op \in Operations
      /\ op = "AsyncRequest" => progress = "asked"
      /\ call'.stage # "rejected"
  BY <1>1, <1>2 DEF ProgressAgrees, Idle, TypeOK, CallInv, NeverRejected
<1> HIDE DEF op
<1>4. OneAtATime'
  BY <1>1 DEF OneAtATime, Busy, Idle, TypeOK
<1>5. GrpcIsAwaited'
  <2>1. \A ops : InFlight(ops) /\ op \notin ops => InFlight(ops)'
    BY <1>1 DEF InFlight, TypeOK, op
  <2>2. call'.stage = "requested" => InFlight({"AsyncRequest"})'
    BY <1>1, <1>2, <2>1 DEF GrpcIsAwaited
  <2>3. call'.recv => InFlight({"AsyncRead"})'
    BY <1>1, <1>2, <2>1 DEF GrpcIsAwaited
  <2>4. call'.send => InFlight(Finishing \cup {"AsyncWrite"})'
    BY <1>1, <1>2, <2>1 DEF GrpcIsAwaited, Finishing
  <2>5. call'.status =>
          \/ progress' = "finished"
          \/ \E c \in Coroutines : /\ phase'[c] \in {"inflight", "answered"}
                                   /\ awaiting'[c] \in Finishing
    BY <1>1, <1>2 DEF GrpcIsAwaited, TypeOK
  <2>6. QED
    BY <2>2, <2>3, <2>4, <2>5 DEF GrpcIsAwaited
<1>6. ProgressAgrees'
  <2>1. \A c \in Coroutines : awaiting[c] = "AsyncRequest" /\ ~Idle(c) /\ c # co =>
          op # "AsyncRequest"
    BY <1>1 DEF OneAtATime, Busy, Idle, NotReading, Operations, op
  <2>2. QED
    BY <1>1, <1>2, <1>3, <2>1 DEF ProgressAgrees, Idle, TypeOK, op
<1>7. QED
  BY <1>3, <1>4, <1>5, <1>6 DEF CallInv, NeverRejected

(* Resuming the coroutine keeps the invariant.                             *)
LEMMA ResumeKeeps ==
  ASSUME TypeOK, CallInv, NEW co \in Coroutines, Resume(co)
  PROVE  CallInv'
<1> DEFINE op == awaiting[co]
<1>1. /\ OneAtATime /\ GrpcIsAwaited /\ ProgressAgrees /\ NeverRejected
      /\ phase[co] = "answered"
      /\ phase' = [phase EXCEPT ![co] = "idle"]
      /\ awaiting' = awaiting /\ responder' = responder /\ call' = call
      /\ answer' = answer
      /\ outcome'[co] = IF answer[co] THEN "ok" ELSE "not_ok"
      /\ progress' = Told(op, outcome'[co])
  BY DEF CallInv, Resume, Context!Deliver, TypeOK
<1>2. /\ op \in Operations
      /\ op = "AsyncRequest" =>
           /\ progress = "asked"
           /\ call.stage = IF answer[co] THEN "accepted" ELSE "failed"
           /\ progress' = IF answer[co] THEN "accepted" ELSE "refused"
      /\ op \in Finishing => progress = "finishing" /\ progress' = "finished"
      /\ op \notin Finishing \cup {"AsyncRequest"} => progress' = progress
      /\ op # "AsyncRequest" => progress # "asked"
  BY <1>1 DEF ProgressAgrees, Idle, Told, Finishing
<1> HIDE DEF op
<1>3. \A c \in Coroutines :
        ~Idle(c) /\ c # co /\ op # "AsyncRead" => awaiting[c] = "AsyncRead"
  BY <1>1, <1>2 DEF OneAtATime, ProgressAgrees, Busy, Idle, NotReading, Operations, op
<1>4. OneAtATime'
  BY <1>1 DEF OneAtATime, Busy, Idle, TypeOK
<1>5. GrpcIsAwaited'
  <2>1. \A ops : InFlight(ops) => InFlight(ops)'
    BY <1>1 DEF InFlight, TypeOK
  <2>2. call'.status =>
          \/ progress' = "finished"
          \/ \E c \in Coroutines : /\ phase'[c] \in {"inflight", "answered"}
                                   /\ awaiting'[c] \in Finishing
    BY <1>1, <1>2 DEF GrpcIsAwaited, TypeOK, op
  <2>3. QED
    BY <1>1, <2>1, <2>2 DEF GrpcIsAwaited
<1>6. ProgressAgrees'
  <2>1. ASSUME op = "AsyncRequest"
        PROVE  \A c \in Coroutines : c # co => Idle(c)
    BY <1>1, <1>2, <1>3, <2>1 DEF ProgressAgrees, Idle
  <2>2. QED
    BY <1>1, <1>2, <1>3, <2>1 DEF ProgressAgrees, Idle, TypeOK, op, Finishing
<1>7. QED
  BY <1>1, <1>4, <1>5, <1>6 DEF CallInv, NeverRejected

(* The invariant holds, for any number of coroutines.                      *)
THEOREM CallInvariant == Spec => [](TypeOK /\ CallInv)
<1>1. Init => CallInv
  BY DEF Init, CallInv, NeverRejected, Alive, OneAtATime, GrpcIsAwaited,
         ProgressAgrees, Busy, Idle, FreshCall, Context!Init
<1>2. TypeOK /\ CallInv /\ [Next]_vars => CallInv'
  <2> SUFFICES ASSUME TypeOK, CallInv, [Next]_vars
               PROVE  CallInv'
    OBVIOUS
  <2>1. CASE NextCall
    <3>1. /\ call' = FreshCall("fresh") /\ progress' = "fresh"
          /\ phase' = phase /\ \A co \in Coroutines : phase[co] = "idle"
      BY <2>1 DEF NextCall, Idle
    <3>2. QED
      BY <3>1 DEF CallInv, NeverRejected, OneAtATime, GrpcIsAwaited,
           ProgressAgrees, Busy, Idle, FreshCall
  <2>2. CASE UNCHANGED vars
    BY <2>2 DEF vars, CallInv, NeverRejected, Alive, OneAtATime, GrpcIsAwaited,
         ProgressAgrees, Busy, Idle, InFlight
  <2>3. QED
    BY <2>1, <2>2, AwaitKeeps, IssueKeeps, CompleteKeeps, ResumeKeeps DEF Next
<1>3. QED
  BY <1>1, <1>2, CallTypes, PTL DEF Spec

(* gRPC never gets an operation it has to reject, although closures run    *)
(* after, and in another order than, the operations were started.          *)
THEOREM OperationsNeverRejected == Spec => []NeverRejected
<1>1. CallInv => NeverRejected
  BY DEF CallInv
<1>2. QED
  BY <1>1, CallInvariant, PTL

(* A call nobody awaits anything of is of no interest to gRPC: its objects *)
(* may die.                                                                *)
THEOREM IdleCallIsQuiet == Spec => []QuietWhenIdle
<1>1. TypeOK /\ CallInv => QuietWhenIdle
  BY DEF CallInv, QuietWhenIdle, GrpcIsAwaited, InFlight, Idle, TypeOK
<1>2. QED
  BY <1>1, CallInvariant, PTL
=============================================================================
