------------------------- MODULE CoarseClockProofs -------------------------
(* Proofs about CoarseClock and TimedClock: the published time is          *)
(* monotone, and deviates less than 10ms under the assumption on the load. *)
EXTENDS TimedClock, TLAPS

(* Every variable of the clock keeps its type, and the worker's samples    *)
(* stay in the range of the clock.                                         *)
THEOREM ClockTypes == Spec => []TypeOK
<1> USE MaxTimeIsNat
<1>1. Init => TypeOK
  <2>1. Init => exiting_ \in BOOLEAN
    BY DEF Init
  <2>2. Init => /\ now \in 0..MaxTime /\ timestamp \in 0..MaxTime
                /\ sample \in [Updaters -> 0..MaxTime]
    BY SMT DEF Init, Updaters
  <2>3. Init => main = "before" /\ worker_ = "absent"
    BY DEF Init
  <2> QED BY <2>1, <2>2, <2>3 DEF TypeOK
<1>2. TypeOK /\ [Next]_vars => TypeOK'
  <2> SUFFICES ASSUME TypeOK, [Next]_vars PROVE TypeOK'
    OBVIOUS
  <2> USE DEF TypeOK, Updaters
  <2>1. CASE Tick
    BY <2>1 DEF Tick
  <2>2. CASE ConstructRead
    BY <2>2 DEF ConstructRead, NoWorkerYet, ReadSteadyClock
  <2>3. CASE ConstructStore
    BY <2>3 DEF ConstructStore, StoreTimestamp
  <2>4. CASE WorkerTest
    BY <2>4 DEF WorkerTest, KeepsRunning
  <2>5. CASE WorkerRead
    BY <2>5 DEF WorkerRead, ReadSteadyClock
  <2>6. CASE WorkerStore
    BY <2>6 DEF WorkerStore, StoreTimestamp
  <2>7. CASE Destroy
    BY <2>7 DEF Destroy, ToldToExit
  <2>8. CASE Join
    BY <2>8 DEF Join, Joinable
  <2>9. CASE UNCHANGED vars
    BY <2>9 DEF vars
  <2> QED BY <2>1, <2>2, <2>3, <2>4, <2>5, <2>6, <2>7, <2>8, <2>9 DEF Next, Worker
<1> QED BY <1>1, <1>2, PTL DEF Spec

(* Where a sample about to be stored lies: between the published time and  *)
(* the clock.  The constructor stores before there is a worker.            *)
SampleInv ==
  /\ timestamp <= now
  /\ main \in {"before", "constructing"} => worker_ = "absent"
  /\ main = "constructing" => timestamp <= sample["main"] /\ sample["main"] <= now
  /\ worker_ = "store" => timestamp <= sample["worker"] /\ sample["worker"] <= now

LEMMA SamplesInOrder == Spec => []SampleInv
<1>1. Init => SampleInv
  BY MaxTimeIsNat DEF Init, SampleInv
<1>2. TypeOK /\ SampleInv /\ [Next]_vars => SampleInv'
  <2> SUFFICES ASSUME TypeOK, SampleInv, [Next]_vars PROVE SampleInv'
    OBVIOUS
  <2> USE MaxTimeIsNat DEF TypeOK, Updaters, SampleInv
  <2>1. CASE Tick
    BY <2>1 DEF Tick
  <2>2. CASE ConstructRead
    BY <2>2 DEF ConstructRead, NoWorkerYet, ReadSteadyClock
  <2>3. CASE ConstructStore
    BY <2>3 DEF ConstructStore, StoreTimestamp
  <2>4. CASE WorkerTest
    BY <2>4 DEF WorkerTest, KeepsRunning
  <2>5. CASE WorkerRead
    BY <2>5 DEF WorkerRead, ReadSteadyClock
  <2>6. CASE WorkerStore
    BY <2>6 DEF WorkerStore, StoreTimestamp
  <2>7. CASE Destroy
    BY <2>7 DEF Destroy, ToldToExit
  <2>8. CASE Join
    BY <2>8 DEF Join, Joinable
  <2>9. CASE UNCHANGED vars
    BY <2>9 DEF vars
  <2> QED BY <2>1, <2>2, <2>3, <2>4, <2>5, <2>6, <2>7, <2>8, <2>9 DEF Next, Worker
<1> QED BY <1>1, <1>2, ClockTypes, PTL DEF Spec

(* The clock implements MonotoneClock: although two threads store times    *)
(* they sampled earlier, the published time never goes back and never runs *)
(* ahead of the steady clock.                                              *)
THEOREM TimeIsMonotone == Spec => PublishesMonotoneTime
<1>1. Init => Clock!Init
  BY MaxTimeIsNat DEF Init, Clock!Init
<1>2. TypeOK /\ SampleInv /\ SampleInv' /\ [Next]_vars => [Clock!Next]_<<now, timestamp>>
  <2> SUFFICES ASSUME TypeOK, SampleInv, SampleInv', [Next]_vars
               PROVE  now' >= now /\ timestamp' >= timestamp /\ timestamp' <= now'
    BY DEF Clock!Next
  <2> USE MaxTimeIsNat DEF TypeOK, Updaters, SampleInv
  <2>1. CASE Tick
    BY <2>1 DEF Tick
  <2>2. CASE ConstructRead
    BY <2>2 DEF ConstructRead, NoWorkerYet, ReadSteadyClock
  <2>3. CASE ConstructStore
    BY <2>3 DEF ConstructStore, StoreTimestamp
  <2>4. CASE WorkerStore
    BY <2>4 DEF WorkerStore, StoreTimestamp
  <2>5. CASE WorkerTest \/ WorkerRead \/ Destroy \/ Join \/ UNCHANGED vars
    BY <2>5 DEF WorkerTest, KeepsRunning, WorkerRead, ReadSteadyClock, Destroy, ToldToExit, Join, Joinable, vars
  <2> QED BY <2>1, <2>2, <2>3, <2>4, <2>5 DEF Next, Worker
<1> QED BY <1>1, <1>2, ClockTypes, SamplesInOrder, PTL
        DEF Spec, PublishesMonotoneTime, Clock!Spec

(* The destructor joins a worker that has ended for good.                  *)
JoinInv == main = "destroyed" => worker_ = "exited"

LEMMA WorkerEnds == Spec => []JoinInv
<1>1. Init => JoinInv
  BY DEF Init, JoinInv
<1>2. JoinInv /\ [Next]_vars => JoinInv'
  BY DEF JoinInv, Next, Tick, ConstructRead, ReadSteadyClock, ConstructStore, StoreTimestamp, Worker,
     WorkerTest, WorkerRead, WorkerStore, Destroy, Join, Joinable, vars
<1> QED BY <1>1, <1>2, PTL DEF Spec

(* Nothing touches the timestamps once the destructor has returned:        *)
(* however late the worker was told to exit, its last store precedes the   *)
(* join.                                                                   *)
THEOREM NothingStoredAfterJoin == Spec => NoStoreAfterJoin
<1>1. JoinInv /\ [Next]_vars => [main = "destroyed" => timestamp' = timestamp]_vars
  BY DEF JoinInv, Next, Tick, ConstructRead, ReadSteadyClock, ConstructStore, StoreTimestamp, Worker,
     WorkerTest, WorkerRead, WorkerStore, Destroy, Join, vars
<1> QED BY <1>1, WorkerEnds, PTL DEF Spec, NoStoreAfterJoin

-----------------------------------------------------------------------------
(* Timing only restricts the clock: what holds of Spec holds of TimedSpec. *)
LEMMA TimedIsClock == TimedSpec => Spec
<1>1. [TimedNext]_timedVars => [Next]_vars
  BY DEF TimedNext, timedVars, TimedTick, TimedConstructStore, TimedWorker, TimedTest, TimedRead, Next, Worker
<1> QED BY <1>1, PTL DEF TimedSpec, TimedInit, Spec

LEMMA DeadlinesKept == TimedSpec => [](TypeOK /\ due \in Nat /\ wake \in Nat /\ TimedInv)
<1> DEFINE Inv == due \in Nat /\ wake \in Nat /\ TimedInv
<1>1. TimedInit => Inv
  BY LoadAssumption DEF TimedInit, Init, TimedInv
<1>2. TypeOK /\ Inv /\ [TimedNext]_timedVars => Inv'
  <2> SUFFICES ASSUME TypeOK, Inv, [TimedNext]_timedVars PROVE Inv'
    OBVIOUS
  <2> USE MaxTimeIsNat, LoadAssumption DEF TypeOK, Updaters, TimedInv, SleepTime
  <2>1. CASE TimedTick
    BY <2>1 DEF TimedTick, Tick, Busy
  <2>2. CASE ConstructRead /\ SoonNext
    BY <2>2 DEF ConstructRead, NoWorkerYet, ReadSteadyClock, SoonNext
  <2>3. CASE ConstructStore /\ SoonNext
    BY <2>3 DEF ConstructStore, StoreTimestamp, SoonNext
  <2>4. CASE WorkerStore /\ SoonNext
    BY <2>4 DEF WorkerStore, StoreTimestamp, SoonNext
  <2>5. CASE TimedTest
    BY <2>5 DEF TimedTest, WorkerTest, KeepsRunning
  <2>6. CASE TimedRead
    BY <2>6 DEF TimedRead, WorkerRead, ReadSteadyClock, SoonNext
  <2>7. CASE Destroy /\ UNCHANGED <<overloaded, wake, due>>
    BY <2>7 DEF Destroy, ToldToExit
  <2>8. CASE Join /\ UNCHANGED <<overloaded, wake, due>>
    BY <2>8 DEF Join, Joinable
  <2>9. CASE UNCHANGED timedVars
    BY <2>9 DEF timedVars, vars
  <2> QED BY <2>1, <2>2, <2>3, <2>4, <2>5, <2>6, <2>7, <2>8, <2>9
         DEF TimedNext, TimedConstructStore, TimedWorker
<1> QED BY <1>1, <1>2, TimedIsClock, ClockTypes, PTL DEF TimedSpec

(* ReadCoarseSteadyClock deviates less than 10ms for every load with       *)
(* 4 + Late + 3 * Delay < 10.                                              *)
THEOREM DeviationBounded == TimedSpec => []DeviatesLess
<1>1. TypeOK /\ due \in Nat /\ TimedInv => DeviatesLess
  BY MaxTimeIsNat, LoadAssumption DEF TypeOK, Updaters, TimedInv, DeviatesLess
<1> QED BY <1>1, DeadlinesKept, PTL
=============================================================================
