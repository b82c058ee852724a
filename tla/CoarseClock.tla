---------------------------- MODULE CoarseClock ----------------------------
(***************************************************************************)
(* The coarse clock (agrpc/base/chrono.{h,cc}): a worker thread publishes  *)
(* std::chrono::steady_clock::now() about every 4ms.  Its life is that of  *)
(* the static object coarse_clock_initializer, which the main thread       *)
(* constructs before main and destroys after it.                           *)
(*                                                                         *)
(* The system clock's timestamp is sampled and stored right after the      *)
(* steady one in the same way; nothing outside the tests reads it and it   *)
(* is left out.  sleep_for may last arbitrarily longer than 4ms, so its    *)
(* length is left open.                                                    *)
(***************************************************************************)
EXTENDS Naturals

CONSTANT MaxTime       \* bound: the steady clock stops here
ASSUME MaxTimeIsNat == MaxTime \in Nat

Updaters == {"main", "worker"}

VARIABLES
  now,                 \* the steady clock
  timestamp,           \* async_updated_timestamps.steady_clock_time_since_epoch
  sample,              \* the value an UpdateCoarseTimestamps is about to store
  main,                \* where the main thread is
  worker_,             \* where the worker thread is
  exiting_

vars == <<now, timestamp, sample, main, worker_, exiting_>>

Init ==
  /\ now \in 0..MaxTime
  /\ timestamp = 0
  /\ sample = [p \in Updaters |-> 0]
  /\ main = "before"
  /\ worker_ = "absent"
  /\ exiting_ = FALSE

Tick ==
  /\ now < MaxTime
  /\ now' = now + 1
  /\ UNCHANGED <<timestamp, sample, main, worker_, exiting_>>

(* UpdateCoarseTimestamps reads the clock, and stores what it read.        *)
ReadSteadyClock(p) ==
  /\ sample' = [sample EXCEPT ![p] = now]
  /\ UNCHANGED <<now, timestamp, exiting_>>

StoreTimestamp(p) ==
  /\ timestamp' = sample[p]
  /\ UNCHANGED <<now, sample, exiting_>>

(* The constructor: publish a first timestamp, then start the worker.      *)
(* Mutant of NoWorkerYet: the worker is started first.                     *)
WorkerFirst == "test"
NoWorkerYet == worker_

ConstructRead ==
  /\ main = "before" /\ main' = "constructing"
  /\ ReadSteadyClock("main")
  /\ worker_' = NoWorkerYet

ConstructStore ==
  /\ main = "constructing" /\ main' = "running"
  /\ StoreTimestamp("main")
  /\ worker_' = "test"

(* The condition of the worker's loop, and a mutant: it is inverted.       *)
Inverted == exiting_
KeepsRunning == ~exiting_

WorkerTest ==
  /\ worker_ = "test"
  /\ worker_' = IF KeepsRunning THEN "sleep" ELSE "exited"
  /\ UNCHANGED <<now, timestamp, sample, main, exiting_>>

WorkerRead ==
  /\ worker_ = "sleep" /\ worker_' = "store"
  /\ ReadSteadyClock("worker")
  /\ UNCHANGED main

WorkerStore ==
  /\ worker_ = "store" /\ worker_' = "test"
  /\ StoreTimestamp("worker")
  /\ UNCHANGED main

(* The destructor: ask the worker to exit, then join it.  Two mutants: the *)
(* worker is not told to exit; it is detached.                             *)
NotTold == exiting_
ToldToExit == TRUE
Detached == TRUE
Joinable == worker_ = "exited"

Destroy ==
  /\ main = "running" /\ main' = "joining"
  /\ exiting_' = ToldToExit
  /\ UNCHANGED <<now, timestamp, sample, worker_>>

Join ==
  /\ main = "joining" /\ Joinable
  /\ main' = "destroyed"
  /\ UNCHANGED <<now, timestamp, sample, worker_, exiting_>>

Worker == WorkerTest \/ WorkerRead \/ WorkerStore
Next == Tick \/ ConstructRead \/ ConstructStore \/ Worker \/ Destroy \/ Join

Spec == Init /\ [][Next]_vars

-----------------------------------------------------------------------------
(* Every variable keeps its type.                                          *)
TypeOK ==
  /\ now \in 0..MaxTime /\ timestamp \in 0..MaxTime
  /\ sample \in [Updaters -> 0..MaxTime]
  /\ main \in {"before", "constructing", "running", "joining", "destroyed"}
  /\ worker_ \in {"absent", "test", "sleep", "store", "exited"}
  /\ exiting_ \in BOOLEAN

(* Two threads store samples taken at different times, and yet nobody ever *)
(* reads a time older than one read before, or one that is still to come.  *)
Clock == INSTANCE MonotoneClock
PublishesMonotoneTime == Clock!Spec

(* Once the destructor has joined the worker, nothing touches the          *)
(* timestamps any more.                                                    *)
NoStoreAfterJoin == [][main = "destroyed" => timestamp' = timestamp]_vars

(* The destructor returns, whatever the worker was doing.                  *)
JoinReturns == main = "joining" ~> main = "destroyed"

(* While the object lives the published time keeps up: a reading of the    *)
(* clock is published, or passed by a later one, or the program exits.     *)
KeepsUp ==
  \A t \in 0..MaxTime :
    (main = "running" /\ now = t) ~> (timestamp >= t \/ main # "running")
=============================================================================
