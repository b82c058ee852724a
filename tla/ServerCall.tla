----------------------------- MODULE ServerCall -----------------------------
(***************************************************************************)
(* The RPC operations (agrpc/context/rpcs.h and the tag_invoke overloads   *)
(* in grpc_context.h) on one gRPC call at a time, awaited by coroutines    *)
(* that share the call, such as a reader and a writer of a bidirectional   *)
(* stream.                                                                 *)
(*                                                                         *)
(* An operation is started at one moment and its closure rpc_ reaches gRPC *)
(* at another, perhaps through the remote queue of the context.  The       *)
(* context appears as OperationContract, which GrpcContext implements.     *)
(* The application keeps to gRPC's rules at the moment it starts an        *)
(* operation, going by what it has started and been told.                  *)
(***************************************************************************)
CONSTANT Coroutines

VARIABLES
  phase, answer, outcome,   \* the awaited operations, see OperationContract
  responder,                \* the type of the responder object
  awaiting,                 \* the operation each coroutine awaits last
  progress,                 \* the call as far as the application knows
  call                      \* the call as gRPC knows it

appVars == <<responder, awaiting, progress>>
vars == <<phase, answer, outcome, responder, awaiting, progress, call>>

Context == INSTANCE OperationContract WITH Ops <- Coroutines

Servers == {"ServerAsyncResponseWriter", "ServerAsyncWriter",
            "ServerAsyncReader", "ServerAsyncReaderWriter"}
Responders == Servers \cup {"ClientAsyncResponseReader"}

-----------------------------------------------------------------------------
(* The responders each customization point accepts: those for which its    *)
(* declared result type exists.  AsyncFinishWithError asks for the result  *)
(* of AsyncFinish on a reader without a response, and                      *)
(* AsyncSendInitialMetadata for that of AsyncFinishWithError without a     *)
(* status; there are no such overloads.                                    *)
AsyncRequestCPO == Servers
AsyncReadCPO == {"ServerAsyncReader", "ServerAsyncReaderWriter"}
AsyncWriteCPO == {"ServerAsyncWriter", "ServerAsyncReaderWriter"}
AsyncFinishCPO == Responders
AsyncWriteAndFinishCPO == {"ServerAsyncWriter", "ServerAsyncReaderWriter"}
AsyncFinishWithErrorCPO == {"ServerAsyncResponseWriter"}
AsyncSendInitialMetadataCPO == {}

Operations == {"AsyncRequest", "AsyncRead", "AsyncWrite", "AsyncFinish",
               "AsyncWriteAndFinish", "AsyncFinishWithError",
               "AsyncSendInitialMetadata"}
Finishing == {"AsyncFinish", "AsyncWriteAndFinish", "AsyncFinishWithError"}

Accepts(op) ==
  CASE op = "AsyncRequest" -> AsyncRequestCPO
    [] op = "AsyncRead" -> AsyncReadCPO
    [] op = "AsyncWrite" -> AsyncWriteCPO
    [] op = "AsyncFinish" -> AsyncFinishCPO
    [] op = "AsyncWriteAndFinish" -> AsyncWriteAndFinishCPO
    [] op = "AsyncFinishWithError" -> AsyncFinishWithErrorCPO
    [] OTHER -> AsyncSendInitialMetadataCPO

(* The overloads whose closure refers to a parameter passed by value (the  *)
(* options, the writer), gone when the overload has returned the sender.   *)
ByValue == {"AsyncWriteAndFinish", "AsyncFinishWithError"}

-----------------------------------------------------------------------------
(* gRPC's call: one request, one receive and one send at a time, nothing   *)
(* sent after the status.  gRPC aborts on anything else.                   *)
FreshCall(stage) == [stage |-> stage, recv |-> FALSE, send |-> FALSE, status |-> FALSE]
CanSend(c) == c.stage = "accepted" /\ ~c.send /\ ~c.status
Batch(allowed, c, next) == IF allowed THEN next ELSE [c EXCEPT !.stage = "rejected"]

AsyncRequest(c) == Batch(c.stage = "fresh", c, [c EXCEPT !.stage = "requested"])
AsyncRead(c) == Batch(c.stage = "accepted" /\ ~c.recv, c, [c EXCEPT !.recv = TRUE])
AsyncWrite(c) == Batch(CanSend(c), c, [c EXCEPT !.send = TRUE])
AsyncFinish(c) == Batch(CanSend(c), c, [c EXCEPT !.send = TRUE, !.status = TRUE])

Issued(op, c) ==
  CASE op = "AsyncRequest" -> AsyncRequest(c)
    [] op = "AsyncRead" -> AsyncRead(c)
    [] op = "AsyncWrite" -> AsyncWrite(c)
    [] OTHER -> AsyncFinish(c)

(* rpc_ runs: it does what it says, or anything if it reads a dead object. *)
RunsRpc(op) ==
  \/ call' = Issued(op, call)
  \/ op \in ByValue /\ call' = [call EXCEPT !.stage = "undefined"]

Completed(op, ok, c) ==
  CASE op = "AsyncRequest" -> [c EXCEPT !.stage = IF ok THEN "accepted" ELSE "failed"]
    [] op = "AsyncRead" -> [c EXCEPT !.recv = FALSE]
    [] OTHER -> [c EXCEPT !.send = FALSE]

Alive == call.stage \notin {"rejected", "undefined"}

-----------------------------------------------------------------------------
Idle(co) == phase[co] = "idle"
Awaited(ops) == \E co \in Coroutines : ~Idle(co) /\ awaiting[co] \in ops

(* What a careful application may start now.                               *)
MayStart(op) ==
  /\ responder \in Accepts(op)
  /\ progress = (IF op = "AsyncRequest" THEN "fresh" ELSE "accepted")
  /\ op = "AsyncRead" => ~Awaited({"AsyncRead"})
  /\ op # "AsyncRead" => ~Awaited({"AsyncWrite"})

(* A client's stub has begun its call before the operation is awaited.     *)
Init ==
  /\ Context!Init
  /\ responder \in Responders
  /\ awaiting = [co \in Coroutines |-> "none"]
  /\ progress = IF responder \in Servers THEN "fresh" ELSE "accepted"
  /\ call = FreshCall(progress)

(* co_await: connect and start.  On the thread of Run rpc_ runs at once.   *)
Await(co, op) ==
  /\ Alive
  /\ MayStart(op)
  /\ Context!Begin(co)
  /\ awaiting' = [awaiting EXCEPT ![co] = op]
  /\ progress' = CASE op = "AsyncRequest" -> "asked"
                   [] op \in Finishing -> "finishing"
                   [] OTHER -> progress
  /\ IF phase'[co] = "inflight" THEN RunsRpc(op) ELSE UNCHANGED call
  /\ UNCHANGED responder

(* The runner executes an operation that was started elsewhere.            *)
Issue(co) ==
  /\ Alive
  /\ Context!Issue(co)
  /\ RunsRpc(awaiting[co])
  /\ UNCHANGED appVars

Complete(co) ==
  /\ Alive
  /\ Context!Reply(co)
  /\ call' = Completed(awaiting[co], answer'[co], call)
  /\ UNCHANGED appVars

(* Mutant of Told: the result of a request is taken for granted.           *)
TakesForGranted(op, result) ==
  CASE op = "AsyncRequest" -> "accepted"
    [] op \in Finishing -> "finished"
    [] OTHER -> progress

Told(op, result) ==
  CASE op = "AsyncRequest" -> (IF result = "ok" THEN "accepted" ELSE "refused")
    [] op \in Finishing -> "finished"
    [] OTHER -> progress

(* Mutant of Resume: the receiver is called when rpc_ has returned.        *)
ResumeAtOnce(co) ==
  /\ Alive
  /\ phase[co] = "inflight"
  /\ phase' = [phase EXCEPT ![co] = "idle"]
  /\ outcome' = [outcome EXCEPT ![co] = "ok"]
  /\ progress' = Told(awaiting[co], "ok")
  /\ UNCHANGED <<answer, responder, awaiting, call>>

(* The result resumes the coroutine, whose receiver does not throw.        *)
Resume(co) ==
  /\ Alive
  /\ Context!Deliver(co)
  /\ outcome'[co] # "error"
  /\ progress' = Told(awaiting[co], outcome'[co])
  /\ UNCHANGED <<responder, awaiting, call>>

(* A server's loop: the objects of this call die, new ones are made.       *)
NextCall ==
  /\ Alive
  /\ progress = "finished" /\ responder \in Servers
  /\ \A co \in Coroutines : Idle(co)
  /\ progress' = "fresh"
  /\ call' = FreshCall("fresh")
  /\ UNCHANGED <<phase, answer, outcome, responder, awaiting>>

Next ==
  \/ \E co \in Coroutines :
       \/ \E op \in Operations : Await(co, op)
       \/ Issue(co) \/ Complete(co) \/ Resume(co)
  \/ NextCall

Spec == Init /\ [][Next]_vars

-----------------------------------------------------------------------------
Stages == {"fresh", "requested", "accepted", "failed", "rejected", "undefined"}

(* Every variable keeps its type.                                          *)
TypeOK ==
  /\ phase \in [Coroutines -> {"idle", "requested", "inflight", "answered"}]
  /\ answer \in [Coroutines -> BOOLEAN]
  /\ outcome \in [Coroutines -> {"unstarted", "running", "ok", "not_ok", "error"}]
  /\ responder \in Responders
  /\ awaiting \in [Coroutines -> Operations \cup {"none"}]
  /\ progress \in {"fresh", "asked", "accepted", "refused", "finishing", "finished"}
  /\ call \in [stage : Stages, recv : BOOLEAN, send : BOOLEAN, status : BOOLEAN]

(* gRPC never sees two receives or two sends at once, a send after the     *)
(* status, or anything on a call that was not accepted, although rpc_ runs *)
(* later than the application looked, and in any order.                    *)
NeverRejected == call.stage # "rejected"

(* Once no coroutine awaits anything gRPC holds no pointer into the call:  *)
(* the loop may let request, response and responder die.                   *)
QuietWhenIdle ==
  Alive /\ (\A co \in Coroutines : Idle(co)) =>
    ~call.recv /\ ~call.send /\ call.stage # "requested"

(* The inductive invariant behind the two properties above: what the       *)
(* application awaits covers what gRPC is doing.                           *)
Busy(co, ops) == ~Idle(co) /\ awaiting[co] \in ops
NotReading == Operations \ {"AsyncRead"}

OneAtATime ==
  \A co, other \in Coroutines :
    /\ Busy(co, {"AsyncRead"}) /\ Busy(other, {"AsyncRead"}) => co = other
    /\ Busy(co, NotReading) /\ Busy(other, NotReading) => co = other

InFlight(ops) == \E co \in Coroutines : phase[co] = "inflight" /\ awaiting[co] \in ops

GrpcIsAwaited ==
  /\ call.stage = "requested" => InFlight({"AsyncRequest"})
  /\ call.recv => InFlight({"AsyncRead"})
  /\ call.send => InFlight(Finishing \cup {"AsyncWrite"})
  /\ call.status =>
       \/ progress = "finished"
       \/ \E co \in Coroutines : /\ phase[co] \in {"inflight", "answered"}
                                 /\ awaiting[co] \in Finishing

ProgressAgrees ==
  /\ progress \in {"fresh", "refused"} => \A co \in Coroutines : Idle(co)
  /\ progress = "fresh" => call.stage = "fresh"
  /\ progress \in {"accepted", "finishing", "finished"} => call.stage = "accepted"
  /\ \A co \in Coroutines : ~Idle(co) =>
       /\ responder \in Accepts(awaiting[co])
       /\ awaiting[co] \in Operations
       /\ progress = "asked" => awaiting[co] = "AsyncRequest"
       /\ progress = "finished" => awaiting[co] = "AsyncRead"
       /\ awaiting[co] \in Finishing => progress = "finishing"
       /\ awaiting[co] = "AsyncRequest" =>
            /\ progress = "asked"
            /\ phase[co] = "requested" => call.stage = "fresh"
            /\ phase[co] = "answered" =>
                 call.stage = IF answer[co] THEN "accepted" ELSE "failed"

CallInv ==
  /\ NeverRejected
  /\ Alive => OneAtATime /\ GrpcIsAwaited /\ ProgressAgrees
=============================================================================
