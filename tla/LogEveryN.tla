----------------------------- MODULE LogEveryN -----------------------------
(***************************************************************************)
(* One AGRPC_LOG_..._EVERY_N site (agrpc/base/logging.h) called by many    *)
(* threads.  Its counter is a plain static int: ++counter and counter -= N *)
(* are a load and a store each, and the comparisons look at the value just *)
(* stored or at the counter again, whichever the compiler chose.  Calls    *)
(* that overlap race with each other; calls made one at a time do not.     *)
(***************************************************************************)
EXTENDS LogSite

CONSTANTS
  MaxRaces,      \* bound: calls that begin while another is under way
  MaxSilent      \* bound: silent calls are counted up to here
ASSUME EveryNAssumption ==
  /\ MaxRaces \in Nat
  /\ MaxSilent \in Nat /\ \A k \in Arguments : MaxSilent > k

VARIABLES
  counter,       \* logged_counter_mod_n
  reg,           \* the copy of the counter each thread works on
  races,         \* how many calls began while another was under way
  silent,        \* calls without a message since the last message
  spoken         \* there has been a message

everyNOwn == <<counter, reg, races, silent, spoken>>
everyNVars == <<macro, pc, everyNOwn>>

(* Where the counter starts, and a mutant: like after the first message.   *)
StartsAtOne == 1
InitialValue == 0

EveryNInit ==
  /\ SiteInit("EVERY_N") /\ n # 0
  /\ counter = InitialValue
  /\ reg = [t \in Threads |-> 0]
  /\ races = 0
  /\ silent = 0 /\ spoken = FALSE

NobodyInside == \A t \in Threads : pc[t] = "idle"

(* ++counter ...                                                           *)
LoadForIncrement(t) ==
  /\ Calls("EVERY_N", t)
  /\ NobodyInside \/ races < MaxRaces
  /\ races' = IF NobodyInside THEN races ELSE races + 1
  /\ reg' = [reg EXCEPT ![t] = counter]
  /\ Goto(t, "increment")
  /\ UNCHANGED <<macro, counter, silent, spoken>>

StoreIncremented(t) ==
  /\ pc[t] = "increment"
  /\ counter' = reg[t] + 1
  /\ reg' = [reg EXCEPT ![t] = reg[t] + 1]
  /\ Goto(t, "test_n")
  /\ UNCHANGED <<macro, races, silent, spoken>>

(* A comparison sees what the thread stored or what is stored now.         *)
Seen(t) == {reg[t], counter}

OneMoreSilent == IF silent < MaxSilent THEN silent + 1 ELSE silent

(* ... > N, or not.                                                        *)
UpToN(t) ==
  /\ pc[t] = "test_n"
  /\ \E value \in Seen(t) : value <= n
  /\ Goto(t, "idle")
  /\ silent' = OneMoreSilent
  /\ UNCHANGED <<macro, counter, reg, races, spoken>>

AboveN(t) ==
  /\ pc[t] = "test_n"
  /\ \E value \in Seen(t) : value > n
  /\ Goto(t, "load")
  /\ UNCHANGED <<macro, counter, reg, races, silent, spoken>>

(* counter -= N                                                            *)
LoadForSubtract(t) ==
  /\ pc[t] = "load"
  /\ reg' = [reg EXCEPT ![t] = counter]
  /\ Goto(t, "subtract")
  /\ UNCHANGED <<macro, counter, races, silent, spoken>>

(* The difference, and a mutant: one more is taken away.                   *)
LessOneMore(value) == value - (n + 1)
LessN(value) == value - n

StoreSubtracted(t) ==
  /\ pc[t] = "subtract"
  /\ counter' = LessN(reg[t])
  /\ reg' = [reg EXCEPT ![t] = LessN(reg[t])]
  /\ Goto(t, "test_one")
  /\ UNCHANGED <<macro, races, silent, spoken>>

(* The message is written if the counter is back at 1.                     *)
WriteMessage(t) ==
  /\ pc[t] = "test_one"
  /\ 1 \in Seen(t)
  /\ Goto(t, "idle")
  /\ silent' = 0 /\ spoken' = TRUE
  /\ UNCHANGED <<macro, counter, reg, races>>

NoMessage(t) ==
  /\ pc[t] = "test_one"
  /\ Seen(t) # {1}
  /\ Goto(t, "idle")
  /\ silent' = OneMoreSilent
  /\ UNCHANGED <<macro, counter, reg, races, spoken>>

Step(t) ==
  \/ LoadForIncrement(t) \/ StoreIncremented(t) \/ UpToN(t) \/ AboveN(t)
  \/ LoadForSubtract(t) \/ StoreSubtracted(t) \/ WriteMessage(t) \/ NoMessage(t)

EveryNNext == \E t \in Threads : Step(t)

EveryNSpec == EveryNInit /\ [][EveryNNext]_everyNVars

(* The site keeps being called, and no thread stays inside for ever.       *)
EveryNFairness == WF_everyNVars(EveryNNext)

-----------------------------------------------------------------------------
Registers == {"increment", "test_n", "load", "subtract", "test_one"}

(* Every variable keeps its type.                                          *)
EveryNTypeOK ==
  /\ site = "EVERY_N" /\ n \in Arguments \ {0}
  /\ counter \in Int
  /\ pc \in [Threads -> {"idle"} \cup Registers]
  /\ reg \in [Threads -> Int]
  /\ races \in 0..MaxRaces
  /\ silent \in 0..MaxSilent /\ spoken \in BOOLEAN

(* The counter left behind by the last message.                            *)
Base == IF spoken THEN 1 ELSE 0

(* Calls that do not overlap are never silent for longer than the macro    *)
(* promises: the message comes at the latest with every N-th call, the     *)
(* first one with call N + 1.                                              *)
Cadence == races = 0 => silent + Base <= n

(* ... and it never comes earlier.                                         *)
EveryNth ==
  [][\A t \in Threads :
       WriteMessage(t) /\ races = 0 => silent + Base = n]_everyNVars

(* The inductive invariant behind the two: one thread is inside, and the   *)
(* counter stands for the silent calls.                                    *)
SerialInv ==
  races = 0 =>
    /\ \A t, u \in Threads : pc[t] # "idle" /\ pc[u] # "idle" => t = u
    /\ silent + Base <= n
    /\ NobodyInside => counter = silent + Base
    /\ \A t \in Threads :
         /\ pc[t] = "increment" => counter = silent + Base /\ reg[t] = counter
         /\ pc[t] = "test_n" => counter = silent + Base + 1 /\ reg[t] = counter
         /\ pc[t] = "load" => counter = n + 1 /\ silent + Base = n
         /\ pc[t] = "subtract" => counter = n + 1 /\ reg[t] = n + 1 /\ silent + Base = n
         /\ pc[t] = "test_one" => counter = 1 /\ reg[t] = 1 /\ silent + Base = n

(* Calls that overlapped leave the counter too high, too low or negative.  *)
(* Once the calls come one at a time again the site recovers and goes on   *)
(* writing messages, with one exception: a site with N = 1 whose counter   *)
(* was left above 1 never says anything again.                             *)
SilencedOnlyIfDrifted ==
  site = "EVERY_N" =>
    []<>(silent = 0 /\ spoken) \/ (n = 1 /\ <>[](counter > 1))
=============================================================================
