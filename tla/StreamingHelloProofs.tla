------------------------ MODULE StreamingHelloProofs ------------------------
(* Proofs about StreamingHello: what the client returns, for any number of *)
(* clients, whichever calls fail and wherever they do.                     *)
EXTENDS StreamingHello, SequenceTheorems, TLAPS

(* The inductive invariant behind AllOrNothing: what a client has read and *)
(* what is under way to it make up what the coroutine has sent, unless the *)
(* call has failed; and OK is only sent behind both greetings.             *)
Messages == {"Hello", "Hello_again"}
Greetings == <<"Hello", "Hello_again">>
SentBefore(at) ==
  CASE at = "Hello_again" -> <<"Hello">> [] at = "AsyncFinish" -> Greetings [] OTHER -> <<>>

StreamTypeOK ==
  /\ results \in [Clients -> Seq(Messages)]
  /\ wire \in [Clients -> Seq(Messages)]
  /\ returned \in [Clients -> Seq(Messages)]
  /\ status \in [Clients -> {"none", "ok", "error"}]
  /\ step \in {"AsyncRequest", "Hello", "Hello_again", "AsyncFinish", "terminated", "shut_down"}
  /\ serving = Nobody <=> step \in {"AsyncRequest", "terminated", "shut_down"}
  /\ serving \in Clients \cup {Nobody}

StreamAgrees(c) ==
  LET stream == results[c] \o wire[c]
  IN  /\ status[c] = "none" /\ serving = c => stream = SentBefore(step)
      /\ status[c] = "none" /\ serving # c /\ step # "terminated" => stream = <<>>
      /\ status[c] = "ok" => stream = Greetings

StreamInv == StreamTypeOK /\ AllOrNothing /\ \A c \in Clients : StreamAgrees(c)

(* Reading a message, and sending one, as seen from both ends of a stream. *)
LEMMA ReadKeepsStream ==
  ASSUME NEW S, NEW read \in Seq(S), NEW under \in Seq(S), under # <<>>
  PROVE  /\ Append(read, Head(under)) \o Tail(under) = read \o under
         /\ Append(read, Head(under)) \in Seq(S) /\ Tail(under) \in Seq(S)
<1>1. /\ Len(under) \in Nat \ {0} /\ Head(under) = under[1] /\ Head(under) \in S
      /\ Tail(under) \in Seq(S) /\ Len(Tail(under)) = Len(under) - 1
      /\ \A k \in 1..Len(under) - 1 : Tail(under)[k] = under[k + 1]
  BY HeadTailProperties, EmptySeq, LenProperties
<1>2. /\ Append(read, Head(under)) \in Seq(S) /\ Len(read) \in Nat
      /\ Len(Append(read, Head(under))) = Len(read) + 1
      /\ Append(read, Head(under))[Len(read) + 1] = Head(under)
      /\ \A k \in 1..Len(read) : Append(read, Head(under))[k] = read[k]
  BY <1>1, AppendProperties, LenProperties
<1>3. PICK a : a = Append(read, Head(under))
  OBVIOUS
<1>4. PICK b : b = Tail(under)
  OBVIOUS
<1>5. a \o b = read \o under
  <2>1. /\ a \o b \in Seq(S) /\ Len(a \o b) = Len(a) + Len(b)
        /\ \A k \in 1..Len(a) + Len(b) : (a \o b)[k] = IF k <= Len(a) THEN a[k] ELSE b[k - Len(a)]
    BY <1>1, <1>2, <1>3, <1>4, ConcatProperties
  <2>2. /\ read \o under \in Seq(S) /\ Len(read \o under) = Len(read) + Len(under)
        /\ \A k \in 1..Len(read) + Len(under) :
             (read \o under)[k] = IF k <= Len(read) THEN read[k] ELSE under[k - Len(read)]
    BY ConcatProperties
  <2>3. Len(a) = Len(read) + 1 /\ Len(b) = Len(under) - 1
    BY <1>1, <1>2, <1>3, <1>4
  <2>4. Len(a \o b) = Len(read \o under)
    BY <1>1, <1>2, <2>1, <2>2, <2>3
  <2>5. ASSUME NEW k \in 1..Len(a \o b) PROVE (a \o b)[k] = (read \o under)[k]
    <3>1. k \in 1..Len(read) + Len(under) /\ k \in 1..Len(a) + Len(b)
      BY <2>1, <2>2, <2>4
    <3>2. CASE k <= Len(read)
      BY <1>1, <1>2, <1>3, <2>1, <2>2, <2>3, <3>1, <3>2
    <3>3. CASE k = Len(read) + 1
      BY <1>1, <1>2, <1>3, <2>1, <2>2, <2>3, <3>1, <3>3
    <3>4. CASE k > Len(read) + 1
      <4>1. k - Len(a) \in 1..Len(under) - 1 /\ (k - Len(a)) + 1 = k - Len(read)
        BY <1>1, <1>2, <2>3, <3>1, <3>4
      <4>2. (a \o b)[k] = b[k - Len(a)] /\ (read \o under)[k] = under[k - Len(read)]
        BY <1>1, <1>2, <2>1, <2>2, <2>3, <3>1, <3>4
      <4> QED
        BY <1>1, <1>4, <4>1, <4>2
    <3> QED
      BY <1>2, <3>1, <3>2, <3>3, <3>4
  <2> QED
    BY <2>1, <2>2, <2>4, <2>5, SeqEqual
<1> QED
  BY <1>1, <1>2, <1>3, <1>4, <1>5

LEMMA SendExtendsStream ==
  ASSUME NEW S, NEW read \in Seq(S), NEW under \in Seq(S), NEW m \in S
  PROVE  /\ read \o Append(under, m) = Append(read \o under, m)
         /\ Append(under, m) \in Seq(S)
BY AppendProperties, ConcatProperties, LenProperties, SeqEqual

(* Nothing is read yet and nothing sent, and nothing is under way.         *)
LEMMA EmptyStream ==
  ASSUME NEW S, NEW read \in Seq(S)
  PROVE  read \o <<>> = read /\ <<>> \in Seq(S)
BY ConcatEmptySeq, EmptySeq

LEMMA GreetingsInOrder ==
  Append(<<>>, "Hello") = <<"Hello">> /\ Append(<<"Hello">>, "Hello_again") = Greetings
<1>1. /\ <<>> \in Seq(Messages) /\ <<"Hello">> \in Seq(Messages) /\ Greetings \in Seq(Messages)
      /\ Len(<<>>) = 0 /\ Len(<<"Hello">>) = 1 /\ Len(Greetings) = 2
      /\ Greetings[1] = "Hello" /\ Greetings[2] = "Hello_again" /\ <<"Hello">>[1] = "Hello"
      /\ "Hello" \in Messages /\ "Hello_again" \in Messages
  BY DEF Greetings, Messages
<1>2. PICK one : one = <<"Hello">>
  OBVIOUS
<1>3. Append(<<>>, "Hello") = one
  BY <1>1, <1>2, AppendProperties, SeqEqual
<1>4. Append(one, "Hello_again") = Greetings
  BY <1>1, <1>2, AppendProperties, SeqEqual
<1> QED
  BY <1>2, <1>3, <1>4

(* Every step keeps the invariant.                                         *)
LEMMA NextKeepsStream == StreamInv /\ [Next]_vars => StreamInv'
<1> SUFFICES ASSUME StreamInv, [Next]_vars PROVE StreamInv'
  OBVIOUS
<1> USE NobodyAssumption DEF callVars
<1>1. ASSUME NEW c \in Clients, NEW arg, Main(c, arg) PROVE StreamInv'
  BY <1>1 DEF Main, StreamInv, StreamTypeOK, AllOrNothing, StreamAgrees
<1>2. ASSUME NEW c \in Clients, Read(c) PROVE StreamInv'
  <2>1. /\ results[c] \in Seq(Messages) /\ wire[c] \in Seq(Messages) /\ wire[c] # <<>>
        /\ results'[c] = Append(results[c], Head(wire[c])) /\ wire'[c] = Tail(wire[c])
        /\ \A u \in Clients : u # c => results'[u] = results[u] /\ wire'[u] = wire[u]
        /\ UNCHANGED <<client, returned, status, serving, step>>
    BY <1>2 DEF Read, StreamInv, StreamTypeOK
  <2>2. /\ results'[c] \o wire'[c] = results[c] \o wire[c]
        /\ results'[c] \in Seq(Messages) /\ wire'[c] \in Seq(Messages)
    <3>1. results[c] \in Seq(Messages) /\ wire[c] \in Seq(Messages) /\ wire[c] # <<>>
      BY <2>1
    <3>2. /\ Append(results[c], Head(wire[c])) \o Tail(wire[c]) = results[c] \o wire[c]
          /\ Append(results[c], Head(wire[c])) \in Seq(Messages) /\ Tail(wire[c]) \in Seq(Messages)
      BY <3>1, ReadKeepsStream, Zenon
    <3> QED
      BY <2>1, <3>2, Zenon
  <2>3. StreamTypeOK'
    BY <1>2, <2>1, <2>2 DEF Read, StreamInv, StreamTypeOK
  <2>4. \A u \in Clients : StreamAgrees(u)'
    BY <2>1, <2>2 DEF StreamInv, StreamAgrees
  <2> QED
    BY <2>1, <2>3, <2>4 DEF StreamInv, AllOrNothing
<1>3. ASSUME NEW c \in Clients, ReadFails(c) PROVE StreamInv'
  <2>1. /\ wire[c] = <<>> /\ results[c] \in Seq(Messages)
        /\ returned'[c] = (IF status[c] = "ok" THEN results[c] ELSE <<>>)
        /\ \A u \in Clients : u # c => returned'[u] = returned[u]
        /\ UNCHANGED <<results, wire, status, serving, step>>
    BY <1>3 DEF ReadFails, SayHello, StreamInv, StreamTypeOK
  <2>2. results[c] \o wire[c] = results[c] /\ <<>> \in Seq(Messages)
    BY <2>1, EmptyStream
  <2>3. returned'[c] \in {<<>>, Greetings}
    BY <2>1, <2>2 DEF StreamInv, StreamAgrees
  <2>4. StreamTypeOK'
    <3>1. returned'[c] \in Seq(Messages)
      BY <2>1, <2>2
    <3>2. returned' \in [Clients -> Seq(Messages)]
      BY <1>3, <2>1, <3>1 DEF ReadFails, StreamInv, StreamTypeOK
    <3> QED
      BY <2>1, <3>2 DEF StreamInv, StreamTypeOK
  <2>5. AllOrNothing'
    BY <2>1, <2>3 DEF StreamInv, AllOrNothing, Greetings
  <2> QED
    BY <2>1, <2>4, <2>5 DEF StreamInv, StreamAgrees
<1>4. ASSUME NEW c \in Clients, AsyncRequest(c) PROVE StreamInv'
  <2>1. /\ step = "AsyncRequest" /\ serving = Nobody /\ serving' = c /\ step' = "Hello"
        /\ UNCHANGED <<client, results, wire, status, returned>>
    BY <1>4 DEF AsyncRequest
  <2>2. StreamTypeOK' /\ AllOrNothing'
    BY <2>1 DEF StreamInv, StreamTypeOK, AllOrNothing
  <2>3. \A u \in Clients : StreamAgrees(u)'
    BY <2>1 DEF StreamInv, StreamAgrees, SentBefore
  <2> QED
    BY <2>2, <2>3 DEF StreamInv
<1>5. CASE HandleRequest
  <2>1. /\ step \in {"Hello", "Hello_again"} /\ serving \in Clients /\ step' = AfterWrite(step)
        /\ results[serving] \in Seq(Messages) /\ wire[serving] \in Seq(Messages) /\ step \in Messages
        /\ wire'[serving] = Sent(serving, step)
        /\ \A u \in Clients : u # serving => wire'[u] = wire[u]
        /\ UNCHANGED <<client, results, returned, status, serving>>
    BY <1>5 DEF HandleRequest, StreamInv, StreamTypeOK, Messages
  <2>2. /\ results[serving] \o Append(wire[serving], step) = Append(results[serving] \o wire[serving], step)
        /\ Append(wire[serving], step) \in Seq(Messages)
    <3>1. results[serving] \in Seq(Messages) /\ wire[serving] \in Seq(Messages) /\ step \in Messages
      BY <2>1
    <3>2. PICK read \in Seq(Messages), under \in Seq(Messages), m \in Messages :
            read = results[serving] /\ under = wire[serving] /\ m = step
      BY <3>1
    <3>3. read \o Append(under, m) = Append(read \o under, m) /\ Append(under, m) \in Seq(Messages)
      BY SendExtendsStream
    <3> QED
      BY <3>2, <3>3
  <2>3. /\ step' \in {"Hello_again", "AsyncFinish"}
        /\ Append(SentBefore(step), step) = SentBefore(step')
    BY <2>1, GreetingsInOrder DEF AfterWrite, SentBefore
  <2>4. StreamTypeOK'
    <3>1. wire'[serving] \in Seq(Messages)
      BY <2>1, <2>2 DEF Sent
    <3>2. wire' \in [Clients -> Seq(Messages)]
      BY <1>5, <2>1, <3>1 DEF HandleRequest, StreamInv, StreamTypeOK
    <3> QED
      BY <2>1, <2>3, <3>2 DEF StreamInv, StreamTypeOK
  <2>5. StreamAgrees(serving)'
    <3>1. CASE status[serving] = "none"
      <4>1. wire'[serving] = Append(wire[serving], step)
        BY <2>1, <3>1 DEF Sent
      <4>2. results[serving] \o wire[serving] = SentBefore(step)
        BY <2>1, <3>1 DEF StreamInv, StreamAgrees
      <4> QED
        BY <2>1, <2>2, <2>3, <3>1, <4>1, <4>2 DEF StreamAgrees
    <3>2. CASE status[serving] # "none"
      BY <2>1, <3>2 DEF Sent, StreamInv, StreamAgrees
    <3> QED
      BY <3>1, <3>2
  <2>6. \A u \in Clients : u # serving => StreamAgrees(u)'
    BY <2>1 DEF StreamInv, StreamAgrees
  <2> QED
    BY <2>1, <2>4, <2>5, <2>6 DEF StreamInv, AllOrNothing
<1>6. CASE AsyncFinish
  <2>1. /\ step = "AsyncFinish" /\ serving \in Clients
        /\ status'[serving] = (IF status[serving] = "none" THEN "ok" ELSE status[serving])
        /\ \A u \in Clients : u # serving => status'[u] = status[u]
        /\ serving' = Nobody /\ step' = "AsyncRequest"
        /\ UNCHANGED <<client, results, returned, wire>>
    BY <1>6 DEF AsyncFinish, NextCall, StreamInv, StreamTypeOK
  <2>2. StreamTypeOK' /\ AllOrNothing'
    BY <1>6, <2>1 DEF AsyncFinish, StreamInv, StreamTypeOK, AllOrNothing
  <2>3. StreamAgrees(serving) /\ SentBefore(step) = Greetings
    BY <2>1 DEF StreamInv, SentBefore
  <2>4. PICK s : s = serving
    OBVIOUS
  <2>5. StreamAgrees(s)'
    BY <2>1, <2>3, <2>4 DEF StreamAgrees, StreamInv, StreamTypeOK
  <2>6. \A u \in Clients : u # s => StreamAgrees(u)'
    BY <2>1, <2>4 DEF StreamInv, StreamAgrees
  <2> QED
    BY <2>2, <2>5, <2>6 DEF StreamInv
<1>7. CASE HandlerEnds
  <2>1. StreamTypeOK' /\ AllOrNothing'
    BY <1>7 DEF HandlerEnds, StreamInv, StreamTypeOK, AllOrNothing
  <2> QED
    BY <1>7, <2>1 DEF HandlerEnds, StreamInv, StreamAgrees
<1>8. ASSUME NEW c \in Clients, CallFails(c) PROVE StreamInv'
  <2>1. PICK received \in Prefixes(wire[c]) : wire' = [wire EXCEPT ![c] = received]
    BY <1>8 DEF CallFails
  <2>2. received \in Seq(Messages)
    <3>1. PICK l \in 0..Len(wire[c]) : received = SubSeq(wire[c], 1, l)
      BY <2>1 DEF Prefixes
    <3>2. wire[c] \in Seq(Messages)
      BY DEF StreamInv, StreamTypeOK
    <3> QED
      BY <3>1, <3>2, SMT
  <2>3. /\ status'[c] = "error" /\ status' \in [Clients -> {"none", "ok", "error"}]
        /\ wire' \in [Clients -> Seq(Messages)]
        /\ \A u \in Clients : u # c => status'[u] = status[u] /\ wire'[u] = wire[u]
        /\ UNCHANGED <<client, results, returned, serving, step>>
    BY <1>8, <2>1, <2>2 DEF CallFails, StreamInv, StreamTypeOK
  <2>4. StreamTypeOK' /\ AllOrNothing'
    BY <2>3 DEF StreamInv, StreamTypeOK, AllOrNothing
  <2> QED
    BY <2>3, <2>4 DEF StreamInv, StreamAgrees
<1>9. CASE RequestFails
  <2>1. StreamTypeOK' /\ AllOrNothing'
    BY <1>9 DEF RequestFails, StreamInv, StreamTypeOK, AllOrNothing
  <2> QED
    BY <1>9, <2>1 DEF RequestFails, StreamInv, StreamAgrees
<1>10. CASE UNCHANGED vars
  BY <1>10 DEF vars, StreamInv, StreamTypeOK, AllOrNothing, StreamAgrees
<1> QED
  BY <1>1, <1>2, <1>3, <1>4, <1>5, <1>6, <1>7, <1>8, <1>9, <1>10 DEF Next, Server, Reader

(* Whatever clients there are and whichever calls fail: SayHello of        *)
(* hellostreamingworld/client.cc returns both greetings or nothing.  The   *)
(* server's coroutine, which ignores the results of its writes, sends OK   *)
(* only behind both, and gRPC delivers the status behind the messages.     *)
THEOREM ClientsGetAllOrNothing == Spec => []AllOrNothing
<1>1. Init => StreamInv
  <2> SUFFICES ASSUME Init PROVE StreamInv
    OBVIOUS
  <2>1. <<>> \in Seq(Messages) /\ <<>> \o <<>> = <<>>
    BY EmptyStream, EmptySeq
  <2> QED
    BY <2>1, NobodyAssumption DEF Init, StreamInv, StreamTypeOK, AllOrNothing, StreamAgrees
<1>2. StreamInv => AllOrNothing
  BY DEF StreamInv
<1> QED
  BY <1>1, <1>2, NextKeepsStream, PTL DEF Spec
=============================================================================
