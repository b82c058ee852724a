-------------------------- MODULE NestedRunsProofs --------------------------
(* Proofs about NestedRuns: current_thread_context, for any contexts, any  *)
(* threads and any depth of nesting.                                       *)
EXTENDS NestedRuns, SequenceTheorems, TLAPS

(* The inductive invariant behind the two, for a stack and the current     *)
(* context of its thread: only the last call of Run is not waiting in a    *)
(* receiver, and each loop puts back the context of the one below.         *)
ContextAt(stack, k) == IF k = 0 THEN Nullptr ELSE stack[k].ctx
LoopsIn(stack) ==
  IF stack # <<>> /\ stack[Len(stack)].at = "register" THEN Len(stack) - 1 ELSE Len(stack)
StackAgrees(stack, current) ==
  /\ \A k \in 1..Len(stack) - 1 : stack[k].at = "receiver"
  /\ \A k \in 1..Len(stack) :
       stack[k].at # "register" => stack[k].old = ContextAt(stack, k - 1)
  /\ current = ContextAt(stack, LoopsIn(stack))

RunsOnOneThread ==
  \A c \in Contexts : \A t, u \in Threads : RunsOn(t, c) /\ RunsOn(u, c) => t = u

Frames == [ctx : Contexts, old : Contexts \cup {Nullptr},
           at : {"register", "drain", "exec", "receiver"}, pending : SUBSET Items]

NestedTypeOK ==
  /\ frames \in [Threads -> Seq(Frames)]
  /\ current_thread_context \in [Threads -> Contexts \cup {Nullptr}]
  /\ local_queue_ \in [Contexts -> SUBSET Items]
  /\ remote_queue_ \in [Contexts -> SUBSET Items]

NestedInv ==
  /\ NestedTypeOK
  /\ \A t \in Threads : StackAgrees(frames[t], current_thread_context[t])
  /\ RunsOnOneThread

(* What pushing, popping and changing the last frame do to a stack.        *)
LEMMA Pushed ==
  ASSUME NEW S, NEW stack \in Seq(S), NEW e \in S
  PROVE  /\ Append(stack, e) \in Seq(S)
         /\ Len(stack) \in Nat
         /\ Len(Append(stack, e)) = Len(stack) + 1
         /\ Append(stack, e)[Len(stack) + 1] = e
         /\ \A k \in 1..Len(stack) : Append(stack, e)[k] = stack[k]
BY AppendProperties, LenProperties

LEMMA Popped ==
  ASSUME NEW S, NEW stack \in Seq(S), Len(stack) > 0
  PROVE  /\ Front(stack) \in Seq(S)
         /\ Len(stack) \in Nat \ {0}
         /\ Len(Front(stack)) = Len(stack) - 1
         /\ \A k \in 1..Len(stack) - 1 : Front(stack)[k] = stack[k]
         /\ Last(stack) = stack[Len(stack)] /\ Last(stack) \in S
<1>1. Len(stack) \in Nat \ {0} /\ \A k \in 1..Len(stack) : stack[k] \in S
  BY ElementOfSeq, LenProperties
<1>2. PICK n : n = Len(stack) - 1
  OBVIOUS
<1>3. /\ SubSeq(stack, 1, n) \in Seq(S)
      /\ Len(SubSeq(stack, 1, n)) = n
      /\ \A k \in 1..n : SubSeq(stack, 1, n)[k] = stack[k]
  <2>1. n \in 0..Len(stack)
    BY <1>1, <1>2
  <2> QED
    BY <2>1, SMT
<1> QED
  BY <1>1, <1>2, <1>3, SMT DEF Front, Last

LEMMA Replaced ==
  ASSUME NEW S, NEW stack \in Seq(S), Len(stack) > 0, NEW e \in S
  PROVE  /\ Append(Front(stack), e) \in Seq(S)
         /\ Len(stack) \in Nat \ {0}
         /\ Len(Append(Front(stack), e)) = Len(stack)
         /\ Append(Front(stack), e)[Len(stack)] = e
         /\ \A k \in 1..Len(stack) - 1 : Append(Front(stack), e)[k] = stack[k]
<1>1. /\ Front(stack) \in Seq(S) /\ Len(stack) \in Nat \ {0}
      /\ Len(Front(stack)) = Len(stack) - 1
      /\ \A k \in 1..Len(stack) - 1 : Front(stack)[k] = stack[k]
  BY Popped
<1>2. /\ Append(Front(stack), e) \in Seq(S)
      /\ Len(Append(Front(stack), e)) = Len(Front(stack)) + 1
      /\ Append(Front(stack), e)[Len(Front(stack)) + 1] = e
      /\ \A k \in 1..Len(Front(stack)) : Append(Front(stack), e)[k] = Front(stack)[k]
  BY <1>1, Pushed
<1> QED
  BY <1>1, <1>2, SMT

(* The invariant of a stack under the same three changes.                  *)
LEMMA PushAgrees ==
  ASSUME NEW stack, NEW pushed, NEW n \in Nat, NEW current,
         Len(stack) = n, Len(pushed) = n + 1, \A k \in 1..n : pushed[k] = stack[k],
         pushed[n + 1].at = "register",
         n > 0 => stack[n].at = "receiver",
         StackAgrees(stack, current)
  PROVE  StackAgrees(pushed, current)
<1>1. LoopsIn(pushed) = n /\ LoopsIn(stack) = n
  BY DEF LoopsIn
<1>2. \A k \in 0..n : ContextAt(pushed, k) = ContextAt(stack, k)
  BY DEF ContextAt
<1>3. \A k \in 1..n : stack[k].at = "receiver"
  BY DEF StackAgrees
<1>4. \A k \in 1..n : stack[k].at # "register" => stack[k].old = ContextAt(stack, k - 1)
  BY DEF StackAgrees
<1>5. \A k \in 1..n + 1 : pushed[k].at # "register" => pushed[k].old = ContextAt(pushed, k - 1)
  BY <1>2, <1>4
<1>6. current = ContextAt(pushed, n)
  BY <1>1, <1>2 DEF StackAgrees
<1> QED
  BY <1>1, <1>3, <1>5, <1>6 DEF StackAgrees

LEMMA PopAgrees ==
  ASSUME NEW stack, NEW popped, NEW n \in Nat \ {0}, NEW current,
         Len(stack) = n, Len(popped) = n - 1, \A k \in 1..n - 1 : popped[k] = stack[k],
         stack[n].at # "register",
         StackAgrees(stack, current)
  PROVE  StackAgrees(popped, stack[n].old)
<1>1. \A k \in 1..n - 1 : popped[k].at = "receiver"
  BY DEF StackAgrees
<1>2. LoopsIn(popped) = n - 1
  BY <1>1 DEF LoopsIn
<1>3. \A k \in 0..n - 1 : ContextAt(popped, k) = ContextAt(stack, k)
  BY DEF ContextAt
<1>4. \A k \in 1..n : stack[k].at # "register" => stack[k].old = ContextAt(stack, k - 1)
  BY DEF StackAgrees
<1>5. \A k \in 1..n - 1 : popped[k].at # "register" => popped[k].old = ContextAt(popped, k - 1)
  BY <1>3, <1>4
<1>6. stack[n].old = ContextAt(popped, n - 1)
  BY <1>3, <1>4
<1> QED
  BY <1>1, <1>2, <1>5, <1>6 DEF StackAgrees

LEMMA ReplaceAgrees ==
  ASSUME NEW stack, NEW other, NEW n \in Nat \ {0}, NEW current,
         Len(stack) = n, Len(other) = n, \A k \in 1..n - 1 : other[k] = stack[k],
         other[n].ctx = stack[n].ctx, other[n].at # "register",
         other[n].old = IF stack[n].at = "register" THEN current ELSE stack[n].old,
         StackAgrees(stack, current)
  PROVE  StackAgrees(other, stack[n].ctx)
<1>1. \A k \in 1..n - 1 : other[k].at = "receiver"
  BY DEF StackAgrees
<1>2. LoopsIn(other) = n /\ (stack[n].at = "register" => LoopsIn(stack) = n - 1)
  BY DEF LoopsIn
<1>3. /\ \A k \in 0..n - 1 : ContextAt(other, k) = ContextAt(stack, k)
      /\ ContextAt(other, n) = stack[n].ctx
  BY DEF ContextAt
<1>4. \A k \in 1..n : stack[k].at # "register" => stack[k].old = ContextAt(stack, k - 1)
  BY DEF StackAgrees
<1>5. other[n].old = ContextAt(other, n - 1)
  BY <1>2, <1>3, <1>4 DEF StackAgrees
<1>6. \A k \in 1..n : other[k].at # "register" => other[k].old = ContextAt(other, k - 1)
  BY <1>3, <1>4, <1>5
<1> QED
  BY <1>1, <1>2, <1>3, <1>6 DEF StackAgrees

(* The frame on top of a thread's stack, and a step that changes only it.  *)
LEMMA TopFrame ==
  ASSUME NestedTypeOK, NEW t \in Threads, Depth(t) > 0
  PROVE  Depth(t) \in Nat \ {0} /\ Top(t) = frames[t][Depth(t)] /\ Top(t) \in Frames
BY Popped DEF NestedTypeOK, Depth, Top

LEMMA TopChanges ==
  ASSUME NestedTypeOK, NEW t \in Threads, Depth(t) > 0, NEW frame \in Frames, TopBecomes(t, frame)
  PROVE  /\ frames' \in [Threads -> Seq(Frames)]
         /\ \A u \in Threads : u # t => frames'[u] = frames[u]
         /\ Len(frames'[t]) = Depth(t)
         /\ frames'[t][Depth(t)] = frame
         /\ \A k \in 1..Depth(t) - 1 : frames'[t][k] = frames[t][k]
<1>1. frames[t] \in Seq(Frames) /\ Len(frames[t]) > 0
  BY DEF NestedTypeOK, Depth
<1>2. /\ \A u \in Threads : u # t => frames'[u] = frames[u]
      /\ frames'[t] = Append(Front(frames[t]), frame)
  BY DEF NestedTypeOK, TopBecomes
<1>3. /\ frames'[t] \in Seq(Frames)
      /\ Len(frames'[t]) = Depth(t)
      /\ frames'[t][Depth(t)] = frame
      /\ \A k \in 1..Depth(t) - 1 : frames'[t][k] = frames[t][k]
  BY <1>1, <1>2, Replaced DEF Depth
<1>4. frames' \in [Threads -> Seq(Frames)]
  BY <1>2, <1>3 DEF NestedTypeOK, TopBecomes
<1> QED
  BY <1>2, <1>3, <1>4

(* A thread whose frame on top changes stays in the same calls of Run.     *)
LEMMA TopKeepsContexts ==
  ASSUME NestedInv, NEW t \in Threads, Depth(t) > 0, NEW frame \in Frames, TopBecomes(t, frame),
         frame.ctx = Top(t).ctx
  PROVE  RunsOnOneThread'
<1>1. Depth(t) \in Nat \ {0} /\ Top(t) = frames[t][Depth(t)]
  BY TopFrame DEF NestedInv
<1>2. /\ \A u \in Threads : u # t => frames'[u] = frames[u]
      /\ Len(frames'[t]) = Depth(t)
      /\ frames'[t][Depth(t)] = frame
      /\ \A k \in 1..Depth(t) - 1 : frames'[t][k] = frames[t][k]
  BY TopChanges DEF NestedInv
<1>3. \A k \in 1..Depth(t) : frames'[t][k].ctx = frames[t][k].ctx
  BY <1>1, <1>2
<1>4. \A u \in Threads, c \in Contexts : RunsOn(u, c)' <=> RunsOn(u, c)
  BY <1>2, <1>3 DEF RunsOn, Depth
<1> QED
  BY <1>4 DEF NestedInv, RunsOnOneThread

(* A loop that goes on keeps the stacks as they should be.                 *)
LEMMA LoopMoves ==
  ASSUME NestedInv, NEW t \in Threads, Depth(t) > 0, Top(t).at # "register",
         NEW frame \in Frames, TopBecomes(t, frame),
         frame.ctx = Top(t).ctx, frame.old = Top(t).old, frame.at # "register",
         UNCHANGED current_thread_context
  PROVE  /\ frames' \in [Threads -> Seq(Frames)]
         /\ \A u \in Threads : StackAgrees(frames[u], current_thread_context[u])'
         /\ RunsOnOneThread'
<1>1. Depth(t) \in Nat \ {0} /\ Top(t) = frames[t][Depth(t)]
  BY TopFrame DEF NestedInv
<1>2. /\ frames' \in [Threads -> Seq(Frames)]
      /\ \A u \in Threads : u # t => frames'[u] = frames[u]
      /\ Len(frames'[t]) = Depth(t)
      /\ frames'[t][Depth(t)] = frame
      /\ \A k \in 1..Depth(t) - 1 : frames'[t][k] = frames[t][k]
  BY TopChanges DEF NestedInv
<1>3. StackAgrees(frames'[t], current_thread_context'[t])
  <2>1. StackAgrees(frames[t], current_thread_context[t])
    BY DEF NestedInv
  <2>2. current_thread_context[t] = Top(t).ctx
    BY <1>1, <2>1 DEF StackAgrees, LoopsIn, ContextAt, Depth
  <2>3. Len(frames[t]) = Depth(t)
    BY DEF Depth
  <2>4. /\ frames'[t][Depth(t)].ctx = frames[t][Depth(t)].ctx
        /\ frames'[t][Depth(t)].at # "register"
        /\ frames'[t][Depth(t)].old =
             IF frames[t][Depth(t)].at = "register" THEN current_thread_context[t]
             ELSE frames[t][Depth(t)].old
    BY <1>1, <1>2
  <2>5. StackAgrees(frames'[t], frames[t][Depth(t)].ctx)
    BY <1>1, <1>2, <2>1, <2>3, <2>4, ReplaceAgrees
  <2> QED
    BY <1>1, <2>2, <2>5
<1>4. \A u \in Threads : StackAgrees(frames'[u], current_thread_context'[u])
  BY <1>2, <1>3 DEF NestedInv
<1> QED
  BY <1>2, <1>4, TopKeepsContexts

(* Items are moved between queues of the right kind.                       *)
LEMMA MovesKeepType ==
  ASSUME NestedTypeOK, NEW c \in Contexts, NEW look \in BOOLEAN, NEW event \in SUBSET Items,
         Moves(c, look, event)
  PROVE  local_queue_' \in [Contexts -> SUBSET Items] /\ remote_queue_' \in [Contexts -> SUBSET Items]
<1> DEFINE taken == IF look THEN remote_queue_[c] ELSE {}
<1>1. /\ local_queue_' = [local_queue_ EXCEPT ![c] = @ \cup taken \cup event]
      /\ remote_queue_' = [remote_queue_ EXCEPT ![c] = @ \ taken]
  BY DEF Moves
<1>2. taken \in SUBSET Items
  BY DEF NestedTypeOK
<1> HIDE DEF taken
<1> QED
  BY <1>1, <1>2 DEF NestedTypeOK

(* Every step keeps the invariant.                                         *)
LEMMA NextKeepsNested == NestedInv /\ [Next]_vars => NestedInv'
<1> SUFFICES ASSUME NestedInv, [Next]_vars PROVE NestedInv'
  OBVIOUS
<1> USE NestingAssumption
<1>1. ASSUME NEW t \in Threads, NEW c \in Contexts, NEW i \in Items, Schedule(t, c, i) PROVE NestedInv'
  <2>1. NestedTypeOK'
    <3>1. /\ frames \in [Threads -> Seq(Frames)] /\ UNCHANGED <<frames, current_thread_context>>
          /\ current_thread_context \in [Threads -> Contexts \cup {Nullptr}]
      BY <1>1 DEF Schedule, NestedInv, NestedTypeOK
    <3>2. local_queue_' \in [Contexts -> SUBSET Items]
      BY <1>1 DEF Schedule, ScheduleImpl, NestedInv, NestedTypeOK
    <3>3. remote_queue_' \in [Contexts -> SUBSET Items]
      BY <1>1 DEF Schedule, ScheduleImpl, NestedInv, NestedTypeOK
    <3> QED
      BY <3>1, <3>2, <3>3 DEF NestedTypeOK
  <2>2. UNCHANGED <<frames, current_thread_context>>
    BY <1>1 DEF Schedule
  <2> QED
    BY <2>1, <2>2 DEF NestedInv, RunsOnOneThread, RunsOn, Depth
<1>2. ASSUME NEW t \in Threads, NEW c \in Contexts, Run(t, c) PROVE NestedInv'
  <2> DEFINE frame == Frame(c, Nullptr, "register", {})
  <2>1. frame \in Frames /\ frame.ctx = c /\ frame.at = "register"
    BY DEF Frame, Frames
  <2>2. /\ frames[t] \in Seq(Frames)
        /\ frames'[t] = Append(frames[t], frame) /\ \A u \in Threads : u # t => frames'[u] = frames[u]
        /\ UNCHANGED <<current_thread_context, local_queue_, remote_queue_>>
    BY <1>2 DEF Run, NestedInv, NestedTypeOK
  <2> HIDE DEF frame
  <2>3. /\ frames'[t] \in Seq(Frames)
        /\ Depth(t) \in Nat
        /\ Len(frames'[t]) = Depth(t) + 1
        /\ frames'[t][Depth(t) + 1] = frame
        /\ \A k \in 1..Depth(t) : frames'[t][k] = frames[t][k]
    BY <2>1, <2>2, Pushed DEF Depth
  <2>4. NestedTypeOK'
    <3>1. frames' \in [Threads -> Seq(Frames)]
      BY <1>2, <2>2, <2>3 DEF Run, NestedInv, NestedTypeOK
    <3> QED
      BY <2>2, <3>1 DEF NestedInv, NestedTypeOK
  <2>6. StackAgrees(frames'[t], current_thread_context'[t])
    <3>1. StackAgrees(frames[t], current_thread_context[t]) /\ Len(frames[t]) = Depth(t)
      BY DEF NestedInv, Depth
    <3>2. Depth(t) > 0 => frames[t][Depth(t)].at = "receiver"
      BY <1>2, TopFrame DEF Run, InApplication, At, NestedInv
    <3>3. frames'[t][Depth(t) + 1].at = "register"
      BY <2>1, <2>3
    <3>4. StackAgrees(frames'[t], current_thread_context[t])
      BY <2>3, <3>1, <3>2, <3>3, PushAgrees
    <3> QED
      BY <2>2, <3>4
  <2>7. RunsOnOneThread'
    <3>1. \A d \in Contexts : RunsOn(t, d)' => RunsOn(t, d) \/ d = c
      <4>1. ASSUME NEW d \in Contexts, NEW k \in 1..Depth(t) + 1, frames'[t][k].ctx = d
            PROVE  RunsOn(t, d) \/ d = c
        BY <2>1, <2>3, <4>1 DEF RunsOn
      <4> QED
        BY <2>3, <4>1 DEF RunsOn, Depth
    <3>2. \A u \in Threads, d \in Contexts : u # t => (RunsOn(u, d)' <=> RunsOn(u, d))
      BY <2>2 DEF RunsOn, Depth
    <3>3. \A u \in Threads : u # t => ~RunsOn(u, c)
      BY <1>2 DEF Run
    <3> QED
      BY <3>1, <3>2, <3>3 DEF NestedInv, RunsOnOneThread
  <2> QED
    BY <2>2, <2>4, <2>6, <2>7 DEF NestedInv
<1>3. ASSUME NEW t \in Threads, EnterRunImpl(t) PROVE NestedInv'
  <2> DEFINE frame == Frame(Top(t).ctx, OldContext(t), "drain", {})
  <2>1. /\ Depth(t) \in Nat \ {0} /\ Top(t) = frames[t][Depth(t)] /\ Top(t) \in Frames
        /\ Top(t).at = "register" /\ TopBecomes(t, frame)
        /\ current_thread_context' = [current_thread_context EXCEPT ![t] = Top(t).ctx]
        /\ UNCHANGED <<local_queue_, remote_queue_>>
    BY <1>3, TopFrame DEF EnterRunImpl, At, NestedInv
  <2>2. /\ frame \in Frames /\ frame.ctx = Top(t).ctx /\ frame.at = "drain"
        /\ frame.old = current_thread_context[t]
    BY <2>1 DEF Frame, Frames, OldContext, NestedInv, NestedTypeOK
  <2> HIDE DEF frame
  <2>3. /\ frames' \in [Threads -> Seq(Frames)]
        /\ \A u \in Threads : u # t => frames'[u] = frames[u]
        /\ Len(frames'[t]) = Depth(t)
        /\ frames'[t][Depth(t)] = frame
        /\ \A k \in 1..Depth(t) - 1 : frames'[t][k] = frames[t][k]
    BY <2>1, <2>2, TopChanges DEF NestedInv
  <2>4. NestedTypeOK'
    BY <2>1, <2>3 DEF NestedInv, NestedTypeOK, Frames
  <2>5. StackAgrees(frames'[t], current_thread_context'[t])
    <3>1. /\ StackAgrees(frames[t], current_thread_context[t])
          /\ current_thread_context'[t] = Top(t).ctx
      BY <2>1 DEF NestedInv, NestedTypeOK
    <3>2. Len(frames[t]) = Depth(t)
      BY DEF Depth
    <3>3. /\ frames'[t][Depth(t)].ctx = frames[t][Depth(t)].ctx
          /\ frames'[t][Depth(t)].at # "register"
          /\ frames'[t][Depth(t)].old =
               IF frames[t][Depth(t)].at = "register" THEN current_thread_context[t]
               ELSE frames[t][Depth(t)].old
      BY <2>1, <2>2, <2>3
    <3>4. StackAgrees(frames'[t], frames[t][Depth(t)].ctx)
      BY <2>1, <2>3, <3>1, <3>2, <3>3, ReplaceAgrees
    <3> QED
      BY <2>1, <3>1, <3>4
  <2>6. \A u \in Threads : u # t => StackAgrees(frames'[u], current_thread_context'[u])
    BY <2>1, <2>3 DEF NestedInv, NestedTypeOK
  <2>7. RunsOnOneThread'
    BY <2>1, <2>2, TopKeepsContexts
  <2> QED
    BY <2>4, <2>5, <2>6, <2>7 DEF NestedInv
<1>4. ASSUME NEW t \in Threads, ExecutePendingLocal(t) PROVE NestedInv'
  <2> DEFINE frame == [Top(t) EXCEPT !.at = "exec", !.pending = local_queue_[Top(t).ctx]]
  <2>1. /\ Depth(t) > 0 /\ Top(t) \in Frames /\ Top(t).at = "drain" /\ TopBecomes(t, frame)
        /\ local_queue_' = [local_queue_ EXCEPT ![Top(t).ctx] = {}]
        /\ UNCHANGED <<current_thread_context, remote_queue_>>
    BY <1>4, TopFrame DEF ExecutePendingLocal, At, NestedInv
  <2>2. /\ frame \in Frames /\ frame.ctx = Top(t).ctx /\ frame.at # "register" /\ frame.old = Top(t).old
    BY <2>1 DEF Frames, NestedInv, NestedTypeOK
  <2> HIDE DEF frame
  <2> QED
    BY <2>1, <2>2, LoopMoves DEF NestedInv, NestedTypeOK, Frames
<1>5. ASSUME NEW t \in Threads, NEW i \in Items, NEW at \in {"exec", "receiver"}, ExecuteItem(t, i, at)
      PROVE  NestedInv'
  <2> DEFINE frame == [Top(t) EXCEPT !.at = at, !.pending = @ \ {i}]
  <2>1. /\ Depth(t) > 0 /\ Top(t) \in Frames /\ Top(t).at = "exec" /\ TopBecomes(t, frame)
        /\ UNCHANGED <<current_thread_context, local_queue_, remote_queue_>>
    BY <1>5, TopFrame DEF ExecuteItem, At, NestedInv
  <2>2. /\ frame \in Frames /\ frame.ctx = Top(t).ctx /\ frame.at # "register" /\ frame.old = Top(t).old
    BY <2>1 DEF Frames
  <2> HIDE DEF frame
  <2> QED
    BY <2>1, <2>2, LoopMoves DEF NestedInv, NestedTypeOK
<1>6. ASSUME NEW t \in Threads, ReceiverReturns(t) PROVE NestedInv'
  <2> DEFINE frame == [Top(t) EXCEPT !.at = "exec"]
  <2>1. /\ Depth(t) > 0 /\ Top(t) \in Frames /\ Top(t).at = "receiver" /\ TopBecomes(t, frame)
        /\ UNCHANGED <<current_thread_context, local_queue_, remote_queue_>>
    BY <1>6, TopFrame DEF ReceiverReturns, At, NestedInv
  <2>2. /\ frame \in Frames /\ frame.ctx = Top(t).ctx /\ frame.at # "register" /\ frame.old = Top(t).old
    BY <2>1 DEF Frames
  <2> HIDE DEF frame
  <2> QED
    BY <2>1, <2>2, LoopMoves DEF NestedInv, NestedTypeOK
<1>7. ASSUME NEW t \in Threads, NEW look \in BOOLEAN, NEW event \in {{}} \cup {{i} : i \in Items},
             NextTurn(t, look, event)
      PROVE  NestedInv'
  <2> DEFINE frame == [Top(t) EXCEPT !.at = "drain"]
  <2>1. /\ Depth(t) > 0 /\ Top(t) \in Frames /\ Top(t).at = "exec" /\ TopBecomes(t, frame)
        /\ Moves(Top(t).ctx, look, event) /\ UNCHANGED current_thread_context
    BY <1>7, TopFrame DEF NextTurn, At, NestedInv
  <2>2. /\ frame \in Frames /\ frame.ctx = Top(t).ctx /\ frame.at # "register" /\ frame.old = Top(t).old
    BY <2>1 DEF Frames
  <2> HIDE DEF frame
  <2>3. local_queue_' \in [Contexts -> SUBSET Items] /\ remote_queue_' \in [Contexts -> SUBSET Items]
    BY <2>1, MovesKeepType DEF NestedInv, Frames
  <2> QED
    BY <2>1, <2>2, <2>3, LoopMoves DEF NestedInv, NestedTypeOK
<1>8. ASSUME NEW t \in Threads, NEW look \in BOOLEAN, LeaveRun(t, look) PROVE NestedInv'
  <2>1. /\ Depth(t) \in Nat \ {0} /\ Top(t) = frames[t][Depth(t)] /\ Top(t) \in Frames
        /\ Top(t).at = "exec"
        /\ current_thread_context' = [current_thread_context EXCEPT ![t] = Top(t).old]
        /\ frames' = [frames EXCEPT ![t] = Front(@)]
        /\ Moves(Top(t).ctx, look, {})
    BY <1>8, TopFrame DEF LeaveRun, PutBack, At, NestedInv
  <2>2. /\ frames'[t] \in Seq(Frames) /\ Len(frames'[t]) = Depth(t) - 1
        /\ \A k \in 1..Depth(t) - 1 : frames'[t][k] = frames[t][k]
        /\ \A u \in Threads : u # t => frames'[u] = frames[u]
    <3>1. frames[t] \in Seq(Frames) /\ Len(frames[t]) > 0
      BY <2>1 DEF NestedInv, NestedTypeOK, Depth
    <3>2. frames'[t] = Front(frames[t]) /\ \A u \in Threads : u # t => frames'[u] = frames[u]
      BY <2>1 DEF NestedInv, NestedTypeOK
    <3> QED
      BY <3>1, <3>2, Popped DEF Depth
  <2>3. NestedTypeOK'
    <3>1. frames' \in [Threads -> Seq(Frames)]
      BY <2>1, <2>2 DEF NestedInv, NestedTypeOK
    <3>2. local_queue_' \in [Contexts -> SUBSET Items] /\ remote_queue_' \in [Contexts -> SUBSET Items]
      BY <2>1, MovesKeepType DEF NestedInv, Frames
    <3> QED
      BY <2>1, <3>1, <3>2 DEF NestedInv, NestedTypeOK, Frames
  <2>4. StackAgrees(frames'[t], current_thread_context'[t])
    <3>1. /\ StackAgrees(frames[t], current_thread_context[t])
          /\ current_thread_context'[t] = Top(t).old
      BY <2>1 DEF NestedInv, NestedTypeOK
    <3>2. Len(frames[t]) = Depth(t)
      BY DEF Depth
    <3>3. frames[t][Depth(t)].at # "register"
      BY <2>1
    <3>4. StackAgrees(frames'[t], frames[t][Depth(t)].old)
      BY <2>1, <2>2, <3>1, <3>2, <3>3, PopAgrees
    <3> QED
      BY <2>1, <3>1, <3>4
  <2>5. \A u \in Threads : u # t => StackAgrees(frames'[u], current_thread_context'[u])
    BY <2>1, <2>2 DEF NestedInv, NestedTypeOK
  <2>6. RunsOnOneThread'
    <3>1. \A u \in Threads, c \in Contexts : RunsOn(u, c)' => RunsOn(u, c)
      BY <2>1, <2>2 DEF RunsOn, Depth
    <3> QED
      BY <3>1 DEF NestedInv, RunsOnOneThread
  <2> QED
    BY <2>3, <2>4, <2>5, <2>6 DEF NestedInv
<1>9. CASE UNCHANGED vars
  BY <1>9 DEF vars, NestedInv, NestedTypeOK, RunsOnOneThread, RunsOn, Depth
<1> QED
  BY <1>1, <1>2, <1>3, <1>4, <1>5, <1>6, <1>7, <1>8, <1>9 DEF Next, Step, Loop

(* Whatever contexts there are, however many threads and however deep the  *)
(* calls of Run of grpc_context.cc are nested: only the last call on a     *)
(* stack is not waiting in a receiver, each loop puts back the context of  *)
(* the one below it, and no context runs on two threads.                   *)
THEOREM NestedInvariant == Spec => []NestedInv
<1>1. Init => NestedInv
  <2> SUFFICES ASSUME Init PROVE NestedInv
    OBVIOUS
  <2>1. \A t \in Threads : frames[t] = <<>> /\ current_thread_context[t] = Nullptr
    BY DEF Init
  <2>2. NestedTypeOK
    <3>1. <<>> \in Seq(Frames)
      BY EmptySeq
    <3> QED
      BY <3>1 DEF Init, NestedTypeOK
  <2>3. \A t \in Threads : StackAgrees(frames[t], current_thread_context[t])
    <3>1. Len(<<>>) = 0
      BY EmptySeq
    <3> QED
      BY <2>1, <3>1 DEF StackAgrees, LoopsIn, ContextAt
  <2>4. RunsOnOneThread
    BY <2>1, EmptySeq DEF RunsOnOneThread, RunsOn, Depth
  <2> QED
    BY <2>2, <2>3, <2>4 DEF NestedInv
<1> QED
  BY <1>1, NextKeepsNested, PTL DEF Spec

(* The loops a thread is in are the frames up to the innermost one.        *)
LEMMA EnteredLoops ==
  ASSUME NestedInv, NEW t \in Threads
  PROVE  /\ LoopsIn(frames[t]) \in 0..Depth(t) /\ Depth(t) \in Nat
         /\ Entered(t) = 1..LoopsIn(frames[t])
         /\ current_thread_context[t] = ContextAt(frames[t], LoopsIn(frames[t]))
<1>1. /\ Depth(t) \in Nat /\ Len(frames[t]) = Depth(t)
      /\ frames[t] = <<>> => Depth(t) = 0
      /\ Depth(t) = 0 => frames[t] = <<>>
  BY EmptySeq, LenProperties DEF NestedInv, NestedTypeOK, Depth
<1>2. /\ \A k \in 1..Depth(t) - 1 : frames[t][k].at = "receiver"
      /\ current_thread_context[t] = ContextAt(frames[t], LoopsIn(frames[t]))
  BY <1>1 DEF NestedInv, StackAgrees
<1>3. CASE Depth(t) > 0 /\ frames[t][Depth(t)].at = "register"
  <2>1. LoopsIn(frames[t]) = Depth(t) - 1
    BY <1>1, <1>3 DEF LoopsIn
  <2> QED
    BY <1>1, <1>2, <1>3, <2>1 DEF Entered
<1>4. CASE ~(Depth(t) > 0 /\ frames[t][Depth(t)].at = "register")
  <2>1. LoopsIn(frames[t]) = Depth(t)
    BY <1>1, <1>4 DEF LoopsIn
  <2> QED
    BY <1>1, <1>2, <1>4, <2>1 DEF Entered
<1> QED
  BY <1>3, <1>4

(* A thread that is in a loop is, innermost, in that of its current        *)
(* context.                                                                *)
LEMMA CurrentIsOfInnermost ==
  ASSUME NestedInv, NEW t \in Threads
  PROVE  /\ Entered(t) = {} => current_thread_context[t] = Nullptr
         /\ Entered(t) # {} =>
              /\ current_thread_context[t] = frames[t][Innermost(t)].ctx
              /\ current_thread_context[t] \in Contexts
<1>1. PICK n : n = LoopsIn(frames[t])
  OBVIOUS
<1>2. /\ n \in Nat /\ Entered(t) = 1..n /\ n \in 0..Depth(t) /\ Depth(t) \in Nat
      /\ current_thread_context[t] = ContextAt(frames[t], n)
  BY <1>1, EnteredLoops
<1>3. CASE n = 0
  BY <1>2, <1>3 DEF ContextAt
<1>4. CASE n > 0
  <2>1. n \in Entered(t) /\ \A j \in Entered(t) : j <= n
    BY <1>2, <1>4
  <2>2. Innermost(t) \in Entered(t) /\ \A j \in Entered(t) : j <= Innermost(t)
    BY <2>1 DEF Innermost
  <2>3. Innermost(t) = n
    BY <1>2, <2>1, <2>2
  <2>4. current_thread_context[t] = frames[t][n].ctx
    BY <1>2, <1>4 DEF ContextAt
  <2>5. frames[t][n].ctx \in Contexts
    <3>1. frames[t] \in Seq(Frames) /\ n \in 1..Len(frames[t])
      BY <1>2, <1>4 DEF NestedInv, NestedTypeOK, Depth
    <3>2. frames[t][n] \in Frames
      BY <3>1, ElementOfSeq
    <3> QED
      BY <3>2 DEF Frames
  <2> QED
    BY <2>1, <2>3, <2>4, <2>5
<1> QED
  BY <1>2, <1>3, <1>4

(* The current context is that of the innermost loop: what ScheduleImpl,   *)
(* IsRunningOnThisThread and the check in StartAsyncRPC rely on.           *)
THEOREM CurrentContextIsInnermost == Spec => []CurrentIsInnermost
<1>1. NestedInv => CurrentIsInnermost
  BY CurrentIsOfInnermost DEF CurrentIsInnermost
<1> QED
  BY <1>1, NestedInvariant, PTL

(* A loop past the registration of its stop callback is the innermost one  *)
(* of its thread.                                                          *)
LEMMA TopIsInnermost ==
  ASSUME NestedInv, NEW t \in Threads, Depth(t) > 0, Top(t).at # "register"
  PROVE  Entered(t) # {} /\ frames[t][Innermost(t)].ctx = Top(t).ctx
<1>1. Depth(t) \in Nat \ {0} /\ Top(t) = frames[t][Depth(t)]
  BY TopFrame DEF NestedInv
<1>2. Depth(t) \in Entered(t) /\ \A j \in Entered(t) : j <= Depth(t)
  BY <1>1 DEF Entered
<1>3. Innermost(t) \in Entered(t) /\ \A j \in Entered(t) : j <= Innermost(t)
  BY <1>2 DEF Innermost
<1>4. Innermost(t) = Depth(t)
  BY <1>1, <1>2, <1>3 DEF Entered
<1> QED
  BY <1>1, <1>2, <1>4

(* Whichever thread changes local_queue_ of grpc_context.h, which has no   *)
(* lock, is itself in a loop of that context, innermost: from whatever     *)
(* thread and nesting ScheduleImpl is called, and whatever the loop moves. *)
THEOREM LocalQueueHasOneOwner == Spec => LocalQueueIsOwned
<1> DEFINE Owns(t, c) == Entered(t) # {} /\ frames[t][Innermost(t)].ctx = c
<1>1. ASSUME NestedInv, NEW t \in Threads, NEW c \in Contexts, Step(t),
             local_queue_'[c] # local_queue_[c]
      PROVE  Owns(t, c)
  <2> USE <1>1, NestingAssumption
  <2>1. ASSUME NEW d \in Contexts, NEW i \in Items, Schedule(t, d, i)
        PROVE  Owns(t, c)
    <3>1. c = d /\ current_thread_context[t] = c
      BY <2>1 DEF Schedule, ScheduleImpl, IsRunningOnThisThread, NestedInv, NestedTypeOK
    <3>2. current_thread_context[t] # Nullptr
      BY <3>1
    <3> QED
      BY <3>1, <3>2, CurrentIsOfInnermost
  <2>2. ASSUME Depth(t) > 0, Top(t).at # "register",
               NEW q, local_queue_' = [local_queue_ EXCEPT ![Top(t).ctx] = q]
        PROVE  Owns(t, c)
    <3>1. c = Top(t).ctx
      BY <2>2 DEF NestedInv, NestedTypeOK
    <3> QED
      BY <2>2, <3>1, TopIsInnermost
  <2>3. ASSUME ExecutePendingLocal(t) PROVE Owns(t, c)
    BY <2>2, <2>3 DEF ExecutePendingLocal, At
  <2>4. ASSUME NEW look, NEW event, NextTurn(t, look, event) PROVE Owns(t, c)
    BY <2>2, <2>4 DEF NextTurn, Moves, At
  <2>5. ASSUME NEW look, LeaveRun(t, look) PROVE Owns(t, c)
    BY <2>2, <2>5 DEF LeaveRun, Moves, At
  <2>6. ~UNCHANGED local_queue_
    OBVIOUS
  <2>7. \/ ExecutePendingLocal(t)
        \/ \E look \in BOOLEAN : LeaveRun(t, look)
        \/ \E look \in BOOLEAN, event \in {{}} \cup {{i} : i \in Items} : NextTurn(t, look, event)
        \/ \E d \in Contexts, i \in Items : Schedule(t, d, i)
    BY <2>6 DEF Step, Loop, EnterRunImpl, ReceiverReturns, ExecuteItem, Run
  <2> HIDE DEF Owns
  <2> QED
    BY <2>1, <2>3, <2>4, <2>5, <2>7
<1>2. NestedInv /\ [Next]_vars =>
        [\A t \in Threads, c \in Contexts :
           Step(t) /\ local_queue_'[c] # local_queue_[c] => Owns(t, c)]_vars
  BY <1>1
<1> QED
  BY <1>2, NestedInvariant, PTL DEF Spec, LocalQueueIsOwned
=============================================================================
