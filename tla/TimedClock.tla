----------------------------- MODULE TimedClock -----------------------------
(***************************************************************************)
(* CoarseClock with the lengths of its steps: sleep_for lasts 4ms and at   *)
(* most Late longer, and every other step of the worker, or of the         *)
(* constructor, follows the one before within Delay.  How long a real      *)
(* machine takes is up to its load, so both are parameters, and on an      *)
(* overloaded one neither holds; the unit is a millisecond.                *)
(***************************************************************************)
EXTENDS CoarseClock

CONSTANTS
  Late,          \* how much longer than asked for sleep_for lasts
  Delay          \* between two steps, the second timestamp's update included

VARIABLES
  overloaded,    \* steps take as long as they take
  wake,          \* the sleep does not end before
  due            \* the next step is taken by then

timedVars == <<vars, overloaded, wake, due>>

(* Mutant of SleepTime: the interval is the deviation that is allowed.     *)
SleepTenMs == 10

SleepTime == 4

ASSUME LoadAssumption ==
  /\ Late \in Nat /\ Delay \in Nat
  /\ 4 + Late + 3 * Delay < 10

TimedInit == Init /\ overloaded \in BOOLEAN /\ wake = 0 /\ due = 0

(* Somebody is between two steps: the constructor, or the worker until it  *)
(* has left its loop.                                                      *)
Busy == main = "constructing" \/ worker_ \in {"test", "sleep", "store"}

TimedTick ==
  /\ Tick
  /\ Busy /\ ~overloaded => now < due
  /\ UNCHANGED <<overloaded, wake, due>>

SoonNext == due' = now + Delay /\ UNCHANGED <<overloaded, wake>>

TimedTest ==
  /\ WorkerTest
  /\ wake' = now + SleepTime
  /\ due' = now + SleepTime + Late
  /\ UNCHANGED overloaded

(* The last sleep ends where the clock's bound does.                       *)
TimedRead == WorkerRead /\ (now >= wake \/ now = MaxTime) /\ SoonNext

TimedConstructStore == ConstructStore /\ SoonNext
TimedWorker == TimedTest \/ TimedRead \/ (WorkerStore /\ SoonNext)

TimedNext ==
  \/ TimedTick
  \/ ConstructRead /\ SoonNext
  \/ TimedConstructStore
  \/ TimedWorker
  \/ (Destroy \/ Join) /\ UNCHANGED <<overloaded, wake, due>>

TimedSpec == TimedInit /\ [][TimedNext]_timedVars

(* Time passes, the worker thread runs, and so does a main thread that is  *)
(* in the constructor or the destructor; whether the program exits is left *)
(* open.                                                                   *)
FairTimedSpec ==
  /\ TimedSpec
  /\ WF_timedVars(TimedTick)
  /\ WF_timedVars(TimedWorker) /\ WF_timedVars(TimedConstructStore)
  /\ WF_timedVars(Join /\ UNCHANGED <<overloaded, wake, due>>)

-----------------------------------------------------------------------------
(* While the clock's static object lives, and the load is as assumed, what *)
(* ReadCoarseSteadyClock returns deviates less than 10ms from the clock it *)
(* stands for.  The worker may sample the time, be held up, and store it   *)
(* late: the delay counts for the sample and again for the one that        *)
(* replaces it.                                                            *)
DeviatesLess == main = "running" /\ ~overloaded => now - timestamp < 10

(* The inductive invariant behind it: how far the next step lies from the  *)
(* time that is published, or about to be.                                 *)
TimedInv ==
  /\ main \in {"before", "constructing"} => worker_ = "absent" /\ ~exiting_
  /\ main = "constructing" /\ ~overloaded => now <= due /\ due <= sample["main"] + Delay
  /\ main = "running" /\ ~overloaded =>
       /\ ~exiting_
       /\ worker_ \in {"test", "sleep", "store"}
       /\ now <= due
       /\ worker_ = "test" => due <= timestamp + 2 * Delay
       /\ worker_ = "sleep" => due <= timestamp + 2 * Delay + 4 + Late
       /\ worker_ = "store" =>
            /\ sample["worker"] <= timestamp + 2 * Delay + 4 + Late
            /\ due <= sample["worker"] + Delay
=============================================================================
