----------------------------- MODULE NestedRuns -----------------------------
(***************************************************************************)
(* Several contexts on several threads: what current_thread_context of     *)
(* agrpc/context/grpc_context.cc is for.  A receiver may call Run of       *)
(* another context, or of its own, and so on; RunImpl exchanges the        *)
(* thread's current context with itself and its scope guard puts the old   *)
(* one back.  ScheduleImpl compares it with the context that is meant, and *)
(* only if they are the same it touches local_queue_, which has no lock.   *)
(*                                                                         *)
(* The application runs a context on one thread at a time.  The wakeup of  *)
(* the loop is the subject of GrpcContext: here a loop looks at the remote *)
(* queue and leaves at any time its code allows.  The order of the items   *)
(* is left out.                                                            *)
(***************************************************************************)
EXTENDS Naturals, Sequences, SequencesExt

CONSTANTS
  Contexts,
  Threads,
  Items,         \* the operations, the stop operations included
  Nullptr,
  MaxDepth       \* bound: how deep the calls of Run are nested on a thread
ASSUME NestingAssumption == Nullptr \notin Contexts /\ MaxDepth \in Nat

VARIABLES
  current_thread_context,  \* of each thread
  frames,                  \* the frames of Run on each thread's stack
  local_queue_,            \* the items in each context's queue
  remote_queue_

vars == <<current_thread_context, frames, local_queue_, remote_queue_>>

Init ==
  /\ current_thread_context = [t \in Threads |-> Nullptr]
  /\ frames = [t \in Threads |-> <<>>]
  /\ local_queue_ = [c \in Contexts |-> {}]
  /\ remote_queue_ = [c \in Contexts |-> {}]

(* A frame: the context, the old one it has to put back, where it is and   *)
(* the items taken by ExecutePendingLocal.                                 *)
Frame(c, old, at, pending) == [ctx |-> c, old |-> old, at |-> at, pending |-> pending]

Depth(t) == Len(frames[t])
Top(t) == Last(frames[t])
At(t, at) == Depth(t) > 0 /\ Top(t).at = at
TopBecomes(t, frame) == frames' = [frames EXCEPT ![t] = Append(Front(@), frame)]

(* Application code runs outside Run and in a receiver.                    *)
InApplication(t) == Depth(t) = 0 \/ At(t, "receiver")
RunsOn(t, c) == \E i \in 1..Depth(t) : frames[t][i].ctx = c

Queued(i) ==
  \/ \E c \in Contexts : i \in local_queue_[c] \cup remote_queue_[c]
  \/ \E t \in Threads : \E k \in 1..Depth(t) : i \in frames[t][k].pending

-----------------------------------------------------------------------------
(* The variable is thread_local.  Mutant: all threads share it.            *)
NotThreadLocal(t, c) == \E u \in Threads : current_thread_context[u] = c
IsRunningOnThisThread(t, c) == current_thread_context[t] = c

ScheduleImpl(t, c, i) ==
  IF IsRunningOnThisThread(t, c)
    THEN /\ local_queue_' = [local_queue_ EXCEPT ![c] = @ \cup {i}]
         /\ UNCHANGED remote_queue_
    ELSE /\ remote_queue_' = [remote_queue_ EXCEPT ![c] = @ \cup {i}]
         /\ UNCHANGED local_queue_

(* The application schedules; the constructor of the stop callback does    *)
(* so, too, before RunImpl is entered.                                     *)
Schedule(t, c, i) ==
  /\ InApplication(t) \/ (At(t, "register") /\ Top(t).ctx = c)
  /\ ~Queued(i)
  /\ ScheduleImpl(t, c, i)
  /\ UNCHANGED <<current_thread_context, frames>>

Run(t, c) ==
  /\ InApplication(t) /\ Depth(t) < MaxDepth
  /\ \A u \in Threads \ {t} : ~RunsOn(u, c)
  /\ frames' = [frames EXCEPT ![t] = Append(@, Frame(c, Nullptr, "register", {}))]
  /\ UNCHANGED <<current_thread_context, local_queue_, remote_queue_>>

(* The exchange.  Mutant: the old context is not kept.                     *)
NotKept(t) == Nullptr
OldContext(t) == current_thread_context[t]

EnterRunImpl(t) ==
  /\ At(t, "register")
  /\ TopBecomes(t, Frame(Top(t).ctx, OldContext(t), "drain", {}))
  /\ current_thread_context' = [current_thread_context EXCEPT ![t] = Top(t).ctx]
  /\ UNCHANGED <<local_queue_, remote_queue_>>

ExecutePendingLocal(t) ==
  /\ At(t, "drain")
  /\ TopBecomes(t, [Top(t) EXCEPT !.at = "exec", !.pending = local_queue_[Top(t).ctx]])
  /\ local_queue_' = [local_queue_ EXCEPT ![Top(t).ctx] = {}]
  /\ UNCHANGED <<current_thread_context, remote_queue_>>

(* An item only hands over its call, or calls a receiver.                  *)
ExecuteItem(t, i, at) ==
  /\ At(t, "exec") /\ i \in Top(t).pending
  /\ at \in {"exec", "receiver"}
  /\ TopBecomes(t, [Top(t) EXCEPT !.at = at, !.pending = @ \ {i}])
  /\ UNCHANGED <<current_thread_context, local_queue_, remote_queue_>>

ReceiverReturns(t) ==
  /\ At(t, "receiver")
  /\ TopBecomes(t, [Top(t) EXCEPT !.at = "exec"])
  /\ UNCHANGED <<current_thread_context, local_queue_, remote_queue_>>

(* The rest of a turn moves items to the local queue: those of the remote  *)
(* queue if the loop looks there, and the one an event is for, if any.     *)
Moves(c, look, event) ==
  LET taken == IF look THEN remote_queue_[c] ELSE {}
  IN  /\ local_queue_' = [local_queue_ EXCEPT ![c] = @ \cup taken \cup event]
      /\ remote_queue_' = [remote_queue_ EXCEPT ![c] = @ \ taken]

NextTurn(t, look, event) ==
  /\ At(t, "exec") /\ Top(t).pending = {}
  /\ \A i \in event : ~Queued(i)
  /\ Moves(Top(t).ctx, look, event)
  /\ TopBecomes(t, [Top(t) EXCEPT !.at = "drain"])
  /\ UNCHANGED current_thread_context

(* Run is left before the look at the remote queue, if it should stop, or  *)
(* after it, if Next finds the queue shut down: then the items taken stay  *)
(* in the local queue.  The scope guard puts the old context back.         *)
PutBack(t) == Top(t).old

LeaveRun(t, look) ==
  /\ At(t, "exec") /\ Top(t).pending = {}
  /\ Moves(Top(t).ctx, look, {})
  /\ current_thread_context' = [current_thread_context EXCEPT ![t] = PutBack(t)]
  /\ frames' = [frames EXCEPT ![t] = Front(@)]

Loop(t) ==
  \/ EnterRunImpl(t) \/ ExecutePendingLocal(t) \/ ReceiverReturns(t)
  \/ \E i \in Items, at \in {"exec", "receiver"} : ExecuteItem(t, i, at)
  \/ \E look \in BOOLEAN : \/ LeaveRun(t, look)
                          \/ \E event \in {{}} \cup {{i} : i \in Items} : NextTurn(t, look, event)

(* Everything thread t does.                                               *)
Step(t) == Loop(t) \/ \E c \in Contexts : Run(t, c) \/ \E i \in Items : Schedule(t, c, i)

Next == \E t \in Threads : Step(t)

Spec == Init /\ [][Next]_vars

-----------------------------------------------------------------------------
(* The contexts whose loops a thread is in, innermost last.                *)
Entered(t) == {i \in 1..Depth(t) : frames[t][i].at # "register"}
Innermost(t) == CHOOSE i \in Entered(t) : \A j \in Entered(t) : j <= i

(* The current context of a thread is that of its innermost loop, however  *)
(* the calls of Run are nested and whichever of them have returned: work   *)
(* for the running context stays local, work for an outer one, whose loop  *)
(* is waiting on the same thread, does not, and the check in StartAsyncRPC *)
(* that an item is executed on a thread that runs its context never fails. *)
CurrentIsInnermost ==
  \A t \in Threads :
    current_thread_context[t] =
      IF Entered(t) = {} THEN Nullptr ELSE frames[t][Innermost(t)].ctx

(* local_queue_ is only touched by the thread whose innermost loop is that *)
(* of its context: a thread that takes a step which changes it is in such  *)
(* a loop, be it the loop that moves items or a receiver that schedules.   *)
(* So nothing is put where no loop will look for it, and since a context   *)
(* runs on one thread at a time no two threads meet at the unlocked queue. *)
LocalQueueIsOwned ==
  [][\A t \in Threads, c \in Contexts :
       Step(t) /\ local_queue_'[c] # local_queue_[c] =>
         Entered(t) # {} /\ frames[t][Innermost(t)].ctx = c]_vars
=============================================================================
