------------------------- MODULE OperationContract -------------------------
(***************************************************************************)
(* What AsyncRPCSender promises the coroutine or receiver that awaits it,  *)
(* with no queue, thread or alarm in sight: a started operation is handed  *)
(* to gRPC once, gRPC answers it once, and its receiver is called once,    *)
(* with that answer or with the exception thrown while taking it.          *)
(***************************************************************************)
CONSTANT Ops

VARIABLES
  phase,     \* idle, requested, inflight (with gRPC), answered (by gRPC)
  answer,    \* gRPC's last answer to each operation
  outcome    \* what the receiver was told last

vars == <<phase, answer, outcome>>

Init ==
  /\ phase = [op \in Ops |-> "idle"]
  /\ answer = [op \in Ops |-> FALSE]
  /\ outcome = [op \in Ops |-> "unstarted"]

(* A start on the running thread reaches gRPC at once.                     *)
Begin(op) ==
  /\ phase[op] = "idle"
  /\ \E p \in {"requested", "inflight"} : phase' = [phase EXCEPT ![op] = p]
  /\ outcome' = [outcome EXCEPT ![op] = "running"]
  /\ UNCHANGED answer

Issue(op) ==
  /\ phase[op] = "requested"
  /\ phase' = [phase EXCEPT ![op] = "inflight"]
  /\ UNCHANGED <<answer, outcome>>

Reply(op) ==
  /\ phase[op] = "inflight"
  /\ phase' = [phase EXCEPT ![op] = "answered"]
  /\ \E ok \in BOOLEAN : answer' = [answer EXCEPT ![op] = ok]
  /\ UNCHANGED outcome

Deliver(op) ==
  /\ phase[op] = "answered"
  /\ phase' = [phase EXCEPT ![op] = "idle"]
  /\ \E result \in {IF answer[op] THEN "ok" ELSE "not_ok", "error"} :
       outcome' = [outcome EXCEPT ![op] = result]
  /\ UNCHANGED answer

Next == \E op \in Ops : Begin(op) \/ Issue(op) \/ Reply(op) \/ Deliver(op)

Spec == Init /\ [][Next]_vars
=============================================================================
