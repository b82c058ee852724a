----------------------------- MODULE HelloWorld -----------------------------
(***************************************************************************)
(* The example programs (agrpc/example): one coroutine that awaits agrpc   *)
(* operations, started by when_all on the main thread, which then calls    *)
(* Run.  The servers loop over request, handle, finish; the client makes   *)
(* one call and shuts the completion queue down.                           *)
(*                                                                         *)
(* The module composes the coroutine with GrpcContext.  A co_await starts  *)
(* an operation; the coroutine goes on in the receiver of that operation,  *)
(* on the runner.  The coroutine's receiver takes a bool and cannot throw. *)
(* Nobody else uses the context and nobody requests stop.                  *)
(***************************************************************************)
EXTENDS GrpcContext

CONSTANT Op      \* the operation being awaited: one at a time

ASSUME OneThread == Ops = {Op} /\ Producers = {}

VARIABLES
  program,       \* the program that runs: server, streaming or client
  awaiting,      \* index in Script of the awaited operation, 0 before the first
  coroutine,     \* ready, suspended, returned or aborted
  call           \* gRPC's view of the call of this iteration

appVars == <<program, awaiting, coroutine, call>>
allVars == <<vars, appVars>>

Loops == program # "client"

(* The operations the coroutine awaits, in order.                          *)
Script ==
  [server |-> <<"AsyncRequest", "AsyncFinish">>,
   streaming |-> <<"AsyncRequest", "AsyncWrite", "AsyncWrite", "AsyncFinish">>,
   client |-> <<"AsyncFinish">>][program]

(* A server's responder is fresh until a request arrives; the client's     *)
(* stub has started the call already.                                      *)
AppInit ==
  /\ Init
  /\ program \in {"server", "streaming", "client"}
  /\ awaiting = 0
  /\ coroutine = "ready"
  /\ call = IF Loops THEN "fresh" ELSE "accepted"

-----------------------------------------------------------------------------
(* What an operation does to the call when rpc_ hands it to gRPC.          *)
AsyncRequest(c) == IF c = "fresh" THEN "requested" ELSE "misused"
AsyncWrite(c) == IF c = "accepted" THEN "accepted" ELSE "misused"
AsyncFinish(c) == IF c = "accepted" THEN "finished" ELSE "misused"

Issued(i, c) ==
  CASE Script[i] = "AsyncRequest" -> AsyncRequest(c)
    [] Script[i] = "AsyncWrite" -> AsyncWrite(c)
    [] OTHER -> AsyncFinish(c)

Await(i) ==
  /\ Start(Runner, Op)
  /\ awaiting' = i
  /\ coroutine' = "suspended"
  /\ UNCHANGED program

(* when_all starts the coroutine first: its operation is scheduled         *)
(* remotely, by the thread that is going to call Run.                      *)
Begin ==
  /\ pc = "outside" /\ coroutine = "ready"
  /\ Await(1)
  /\ UNCHANGED call

CallRun ==
  /\ coroutine # "ready"
  /\ Run
  /\ UNCHANGED appVars

Resumed == pc = "callback" /\ coroutine = "ready"
Ok == outcome[Op] = "ok"

(* The call a server coroutine finds when it is resumed: a request that    *)
(* failed brought none, and after the finish the locals of the iteration   *)
(* die and new ones are made.                                              *)
ResumedCall ==
  CASE awaiting = 1 -> (IF Ok THEN "accepted" ELSE "dead")
    [] awaiting = Len(Script) -> "fresh"
    [] OTHER -> call

(* Only the result of the request is looked at.  Two mutants: no result    *)
(* is; the coroutine returns after one call.                               *)
NothingMatters == TRUE
OnlyOnce == (awaiting = 1 => Ok) /\ awaiting # Len(Script)
GoesOn == awaiting = 1 => Ok

(* The operation awaited next: after the finish, the next request.         *)
NextAwaited == (awaiting % Len(Script)) + 1

(* The servers go on; the results of writes and of the finish are ignored. *)
ServerGoesOn ==
  /\ Resumed /\ Loops
  /\ GoesOn
  /\ Await(NextAwaited)
  /\ call' = Issued(NextAwaited, ResumedCall)

ServerGivesUp ==
  /\ Resumed /\ Loops
  /\ ~GoesOn
  /\ coroutine' = "returned"
  /\ UNCHANGED <<vars, program, awaiting, call>>

(* The streaming HandleRequest is a task<HelloReply> that runs off its end *)
(* without co_return, which is undefined: the caller, who does not use the *)
(* result, goes on (ServerGoesOn) or the process is terminated.            *)
StreamingHandlerEnds ==
  /\ Resumed /\ program = "streaming"
  /\ awaiting = 3
  /\ coroutine' = "aborted"
  /\ UNCHANGED <<vars, program, awaiting, call>>

(* The client: AGRPC_CHECK(ok), then ShutDown.  Mutant of ClientShutsDown: *)
(* the completion queue is not shut down.                                  *)
Forgets == UNCHANGED vars
ClientShutsDown == ShutDown(Runner)

ClientEnds ==
  /\ Resumed /\ ~Loops
  /\ Ok
  /\ ClientShutsDown
  /\ coroutine' = "returned"
  /\ UNCHANGED <<program, awaiting, call>>

ClientCheckFails ==
  /\ Resumed /\ ~Loops
  /\ ~Ok
  /\ coroutine' = "aborted"
  /\ UNCHANGED <<vars, program, awaiting, call>>

-----------------------------------------------------------------------------
(* The receiver returns to the loop when the coroutine is suspended again. *)
ReturnToLoop ==
  /\ coroutine \in {"suspended", "returned"}
  /\ CallbackReturns
  /\ UNCHANGED appVars

(* A step of the loop: issuing the operation moves the call on, completing *)
(* it resumes the coroutine.                                               *)
LoopStep ==
  /\ pc # "callback"
  /\ RunnerStep
  /\ outcome'[Op] # "error"
  /\ coroutine' = IF pc' = "callback" THEN "ready" ELSE coroutine
  /\ call' = IF inflight' \ inflight # {} THEN Issued(awaiting, call) ELSE call
  /\ UNCHANGED <<program, awaiting>>

(* gRPC answers, the alarm expires, the main thread leaves                 *)
(* SignalRemoteQueue.                                                      *)
Answer == coroutine # "aborted" /\ GrpcCompletes(Op) /\ UNCHANGED appVars
Expire == coroutine # "aborted" /\ AlarmFires /\ UNCHANGED appVars
Signal == SignalRemoteQueue(Runner) /\ UNCHANGED appVars

Program ==
  \/ Begin \/ CallRun \/ ReturnToLoop \/ LoopStep \/ Signal
  \/ ServerGoesOn \/ ServerGivesUp \/ StreamingHandlerEnds
  \/ ClientEnds \/ ClientCheckFails

AppNext == Program \/ Answer \/ Expire

(* The main thread runs, the alarm expires, and gRPC completes whatever    *)
(* does not have to wait for a client to call.                             *)
AppSpec ==
  /\ AppInit /\ [][AppNext]_allVars
  /\ WF_allVars(Program) /\ WF_allVars(Expire)
  /\ WF_allVars(call # "requested" /\ Answer)

-----------------------------------------------------------------------------
(* No example issues an operation its call does not allow: nothing before  *)
(* a request has arrived, nothing after the finish, no call finished twice *)
(* even though the results of writes and finishes are not looked at.  Nor  *)
(* does one break a precondition of the queues, the alarm or the           *)
(* completion queue on the way.                                            *)
NeverMisused == call # "misused" /\ fault = "none"

(* A server finishes every call it has accepted, unless it was terminated  *)
(* by its handler, and then asks for the next one.                         *)
ServesForEver ==
  /\ (Loops /\ call = "accepted") ~> (call = "finished" \/ coroutine = "aborted")
  /\ (Loops /\ call = "finished") ~> call = "requested"

(* The client's Run returns after its call, so that main ends.             *)
ClientTerminates ==
  program = "client" ~>
    \/ coroutine = "returned" /\ pc = "outside"
    \/ coroutine = "aborted"
=============================================================================
