--------------------------- MODULE StreamingHello ---------------------------
(***************************************************************************)
(* The streaming example as its users see it: client programs              *)
(* (agrpc/example/hellostreamingworld/client.cc) that each make one call,  *)
(* and the server of server.cc, whose coroutine serves one call at a time  *)
(* and looks at no result but that of the request.  How the coroutine runs *)
(* on its context is the subject of HelloWorld.                            *)
(*                                                                         *)
(* gRPC between the two is external: it delivers the messages of a call in *)
(* order and the status after them; a call may fail until its status has   *)
(* reached the client, and then ends with an error after some of the       *)
(* messages under way.                                                     *)
(***************************************************************************)
EXTENDS Naturals, Sequences, SequencesExt

CONSTANTS Clients, Nobody
ASSUME NobodyAssumption == Nobody \notin Clients

(* The command lines of the client: no argument, one that holds --target=, *)
(* --target without the equals sign, and anything else.                    *)
Arguments == {"none", "target_is", "target", "other"}

VARIABLES
  client,        \* where each client program is
  results,       \* the replies SayHello has read
  returned,      \* what SayHello returned
  wire,          \* the messages of each call that are under way
  status,        \* the status of each call, once gRPC knows it
  serving,       \* the client whose call the coroutine serves
  step           \* the operation the coroutine awaits

vars == <<client, results, returned, wire, status, serving, step>>
callVars == <<results, wire, status>>

Init ==
  /\ client = [c \in Clients |-> "start"]
  /\ results = [c \in Clients |-> <<>>]
  /\ returned = [c \in Clients |-> <<>>]
  /\ wire = [c \in Clients |-> <<>>]
  /\ status = [c \in Clients |-> "none"]
  /\ serving = Nobody /\ step = "AsyncRequest"

-----------------------------------------------------------------------------
(* The client: parse the argument, call, read until Read fails, ask for    *)
(* the status.                                                             *)
HasTarget(arg) == arg \in {"none", "target_is"}

Main(c, arg) ==
  /\ client[c] = "start"
  /\ client' = [client EXCEPT ![c] = IF HasTarget(arg) THEN "read" ELSE "exited"]
  /\ UNCHANGED <<callVars, returned, serving, step>>

Read(c) ==
  /\ client[c] = "read"
  /\ wire[c] # <<>>
  /\ results' = [results EXCEPT ![c] = Append(@, Head(wire[c]))]
  /\ wire' = [wire EXCEPT ![c] = Tail(@)]
  /\ UNCHANGED <<client, returned, status, serving, step>>

(* What SayHello returns, and a mutant: the status is not looked at.       *)
WhatWasRead(c) == results[c]
SayHello(c) == IF status[c] = "ok" THEN results[c] ELSE <<>>

ReadFails(c) ==
  /\ client[c] = "read"
  /\ wire[c] = <<>> /\ status[c] # "none"
  /\ returned' = [returned EXCEPT ![c] = SayHello(c)]
  /\ client' = [client EXCEPT ![c] = "exited"]
  /\ UNCHANGED <<callVars, serving, step>>

-----------------------------------------------------------------------------
(* The server.                                                             *)
Open(c) == client[c] = "read" /\ status[c] = "none"

AsyncRequest(c) ==
  /\ step = "AsyncRequest" /\ serving = Nobody
  /\ Open(c)
  /\ serving' = c /\ step' = "Hello"
  /\ UNCHANGED <<client, callVars, returned>>

(* The request fails, which gRPC only does when the server is shut down:   *)
(* the coroutine returns.                                                  *)
RequestFails ==
  /\ step = "AsyncRequest" /\ serving = Nobody
  /\ step' = "shut_down"
  /\ UNCHANGED <<client, callVars, returned, serving>>

(* A write reaches a call that is still alive; its result is ignored.      *)
Sent(c, message) == IF status[c] = "none" THEN Append(wire[c], message) ELSE wire[c]

AfterWrite(message) == IF message = "Hello" THEN "Hello_again" ELSE "AsyncFinish"

HandleRequest ==
  /\ step \in {"Hello", "Hello_again"}
  /\ wire' = [wire EXCEPT ![serving] = Sent(serving, step)]
  /\ step' = AfterWrite(step)
  /\ UNCHANGED <<client, results, returned, status, serving>>

(* Mutant of NextCall: the coroutine returns after its first call.         *)
ServeOnce == "returned"
NextCall == "AsyncRequest"

AsyncFinish ==
  /\ step = "AsyncFinish"
  /\ status' = [status EXCEPT ![serving] = IF @ = "none" THEN "ok" ELSE @]
  /\ serving' = Nobody /\ step' = NextCall
  /\ UNCHANGED <<client, results, returned, wire>>

(* HandleRequest runs off its end without co_return, which is undefined:   *)
(* its caller goes on (AsyncFinish), or the process is terminated.         *)
HandlerEnds ==
  /\ step = "AsyncFinish"
  /\ serving' = Nobody /\ step' = "terminated"
  /\ UNCHANGED <<client, callVars, returned>>

(* A call is lost, with any of the messages and the status under way; so   *)
(* is one to a server that is not there.                                   *)
Gone == step \in {"terminated", "shut_down"}

CallFails(c) ==
  /\ client[c] = "read" /\ status[c] # "error"
  /\ status' = [status EXCEPT ![c] = "error"]
  /\ \E received \in Prefixes(wire[c]) : wire' = [wire EXCEPT ![c] = received]
  /\ UNCHANGED <<client, results, returned, serving, step>>

Server == HandleRequest \/ AsyncFinish \/ \E c \in Clients : AsyncRequest(c)
Reader(c) == Read(c) \/ ReadFails(c)

Next ==
  \/ Server \/ RequestFails \/ HandlerEnds
  \/ \E c \in Clients : \/ Reader(c) \/ CallFails(c)
                        \/ \E arg \in Arguments : Main(c, arg)

(* Both programs run; calls need not fail, except those a server that is   *)
(* gone did not finish, and requests need not.                             *)
Spec ==
  /\ Init /\ [][Next]_vars
  /\ WF_vars(Server)
  /\ \A c \in Clients : /\ WF_vars(Reader(c))
                         /\ WF_vars(Gone /\ Open(c) /\ CallFails(c))

-----------------------------------------------------------------------------
(* A client prints both greetings in their order or nothing: although the  *)
(* server ignores failed writes and finishes with OK, and the client reads *)
(* until the stream breaks, it never returns a part of the replies.        *)
AllOrNothing == \A c \in Clients : returned[c] \in {<<>>, <<"Hello", "Hello_again">>}

(* Every client that made its call ends, also when it has to wait for the  *)
(* calls of others, when those fail half way, and when the server returns  *)
(* from a failed request or dies: the server goes on, or the calls end.    *)
ClientsEnd == \A c \in Clients : client[c] = "read" ~> client[c] = "exited"
=============================================================================
