---------------------------- MODULE FifoSchedule ----------------------------
(***************************************************************************)
(* The order promised to threads that schedule work on a context they do   *)
(* not run: whatever the remote queue, the local queue and the list under  *)
(* execution do with them, operations are executed in the order in which   *)
(* they were enqueued.  An operation waits at most once at a time, so that *)
(* the queue is a set and the order on it.                                 *)
(***************************************************************************)
CONSTANT Ops
VARIABLES
  waiting,       \* the operations enqueued and not executed yet
  before         \* the pairs of them of which the first was enqueued first

vars == <<waiting, before>>

Init == waiting = {} /\ before = {}

Enqueue(op) ==
  /\ op \notin waiting
  /\ waiting' = waiting \cup {op}
  /\ before' = before \cup (waiting \X {op})

Execute(op) ==
  /\ op \in waiting
  /\ \A first \in waiting : <<first, op>> \notin before
  /\ waiting' = waiting \ {op}
  /\ before' = before \ ({op} \X waiting)

Next == \E op \in Ops : Enqueue(op) \/ Execute(op)

Spec == Init /\ [][Next]_vars
=============================================================================
