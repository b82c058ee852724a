--------------------------- MODULE LogSiteProofs ---------------------------
(* Proofs about the three kinds of rate limited log sites, for any set of  *)
(* threads: ONCE writes at most once whatever stale values its loads       *)
(* return, EVERY_N writes with every N-th call as long as calls do not     *)
(* overlap, and EVERY_SECOND keeps its distance for any N and any length   *)
(* of the run.                                                             *)
EXTENDS LogOnce, LogEveryN, LogEverySecond, TLAPS
-----------------------------------------------------------------------------
(* ONCE.                                                                   *)

(* Every variable of the site keeps its type: no step of the macro, and no *)
(* end of the process in the middle of it, leaves the states listed.       *)
THEOREM OnceTypes == OnceSpec => []OnceTypeOK
<1>1. OnceInit => OnceTypeOK
  <2>1. OnceInit => /\ site = "ONCE" /\ fatal \in BOOLEAN /\ logged \in BOOLEAN /\ aborted \in BOOLEAN
                /\ seen \in SUBSET Threads
    BY DEF OnceInit, SiteInit
  <2>2. OnceInit => /\ pc \in [Threads -> {"idle", "exchange", "format", "write", "abort"}]
                /\ lines \in Nat
    BY SMT DEF OnceInit, SiteInit
  <2> QED BY <2>1, <2>2 DEF OnceTypeOK
<1>2. OnceTypeOK /\ [OnceNext]_onceVars => OnceTypeOK'
  <2> SUFFICES ASSUME OnceTypeOK, [OnceNext]_onceVars PROVE OnceTypeOK'
    OBVIOUS
  <2> USE DEF OnceTypeOK, Goto, macro
  <2>1. ASSUME NEW t \in Threads, NEW value \in BOOLEAN, LoadFlag(t, value) PROVE OnceTypeOK'
    BY <2>1 DEF LoadFlag, Calls
  <2>2. ASSUME NEW t \in Threads, Exchange(t) PROVE OnceTypeOK'
    BY <2>2 DEF Exchange, AfterExchange
  <2>3. ASSUME NEW t \in Threads, FormatLog(t) PROVE OnceTypeOK'
    BY <2>3 DEF FormatLog, CannotFormat
  <2>4. ASSUME NEW t \in Threads, WriteLine(t) PROVE OnceTypeOK'
    BY <2>4 DEF WriteLine, AfterWrite
  <2>5. ASSUME NEW t \in Threads, Abort(t) PROVE OnceTypeOK'
    BY <2>5 DEF Abort
  <2>6. CASE UNCHANGED onceVars
    BY <2>6 DEF onceVars, onceOwn
  <2> QED BY <2>1, <2>2, <2>3, <2>4, <2>5, <2>6 DEF OnceNext, InOnce
<1> QED BY <1>1, <1>2, PTL DEF OnceSpec

(* The exchange chooses one thread: the message of a ONCE site is written  *)
(* at most once, although any number of threads may have found the flag    *)
(* unset.                                                                  *)
THEOREM WrittenOnce == OnceSpec => []OnceOnly
<1>1. OnceInit => OnceInv
  BY DEF OnceInit, SiteInit, OnceInv, OnceOnly, Chosen
<1>2. OnceTypeOK /\ OnceInv /\ [OnceNext]_onceVars => OnceInv'
  <2> SUFFICES ASSUME OnceTypeOK, OnceInv, [OnceNext]_onceVars PROVE OnceInv'
    OBVIOUS
  <2> USE DEF OnceTypeOK, Goto, macro, OnceInv, OnceOnly, Chosen
  <2>1. ASSUME NEW t \in Threads, NEW value \in BOOLEAN, LoadFlag(t, value) PROVE OnceInv'
    BY <2>1 DEF LoadFlag, Calls
  <2>2. ASSUME NEW t \in Threads, Exchange(t) PROVE OnceInv'
    BY <2>2 DEF Exchange, AfterExchange
  <2>3. ASSUME NEW t \in Threads, FormatLog(t) PROVE OnceInv'
    BY <2>3 DEF FormatLog, CannotFormat
  <2>4. ASSUME NEW t \in Threads, WriteLine(t) PROVE OnceInv'
    BY <2>4 DEF WriteLine, AfterWrite
  <2>5. ASSUME NEW t \in Threads, Abort(t) PROVE OnceInv'
    BY <2>5 DEF Abort
  <2>6. CASE UNCHANGED onceVars
    BY <2>6 DEF onceVars, onceOwn
  <2> QED BY <2>1, <2>2, <2>3, <2>4, <2>5, <2>6 DEF OnceNext, InOnce
<1>3. OnceInv => OnceOnly
  BY DEF OnceInv
<1> QED BY <1>1, <1>2, <1>3, OnceTypes, PTL DEF OnceSpec
-----------------------------------------------------------------------------
(* EVERY_N.                                                                *)

(* Every variable of the site keeps its type, races included.              *)
THEOREM CounterTypes == EveryNSpec => []EveryNTypeOK
<1> USE EveryNAssumption, ArgumentsAreNat
<1>1. EveryNInit => EveryNTypeOK
  <2>1. EveryNInit => site = "EVERY_N" /\ n \in Arguments \ {0} /\ spoken \in BOOLEAN
    BY DEF EveryNInit, SiteInit, InitialValue
  <2>2. EveryNInit => /\ counter \in Int /\ reg \in [Threads -> Int]
                /\ races \in 0..MaxRaces /\ silent \in 0..MaxSilent
                /\ pc \in [Threads -> {"idle"} \cup Registers]
    BY SMT DEF EveryNInit, SiteInit, InitialValue, Registers
  <2> QED BY <2>1, <2>2 DEF EveryNTypeOK
<1>2. EveryNTypeOK /\ [EveryNNext]_everyNVars => EveryNTypeOK'
  <2> SUFFICES ASSUME EveryNTypeOK, [EveryNNext]_everyNVars PROVE EveryNTypeOK'
    OBVIOUS
  <2> USE DEF EveryNTypeOK, Goto, macro, Registers
  <2>1. ASSUME NEW t \in Threads, LoadForIncrement(t) PROVE EveryNTypeOK'
    BY <2>1 DEF LoadForIncrement, Calls
  <2>2. ASSUME NEW t \in Threads, StoreIncremented(t) PROVE EveryNTypeOK'
    BY <2>2 DEF StoreIncremented
  <2>3. ASSUME NEW t \in Threads, UpToN(t) PROVE EveryNTypeOK'
    BY <2>3 DEF UpToN, OneMoreSilent
  <2>4. ASSUME NEW t \in Threads, AboveN(t) PROVE EveryNTypeOK'
    BY <2>4 DEF AboveN
  <2>5. ASSUME NEW t \in Threads, LoadForSubtract(t) PROVE EveryNTypeOK'
    BY <2>5 DEF LoadForSubtract
  <2>6. ASSUME NEW t \in Threads, StoreSubtracted(t) PROVE EveryNTypeOK'
    BY <2>6 DEF StoreSubtracted, LessN
  <2>7. ASSUME NEW t \in Threads, WriteMessage(t) PROVE EveryNTypeOK'
    BY <2>7 DEF WriteMessage
  <2>8. ASSUME NEW t \in Threads, NoMessage(t) PROVE EveryNTypeOK'
    BY <2>8 DEF NoMessage, OneMoreSilent
  <2>9. CASE UNCHANGED everyNVars
    BY <2>9 DEF everyNVars, everyNOwn
  <2> QED BY <2>1, <2>2, <2>3, <2>4, <2>5, <2>6, <2>7, <2>8, <2>9 DEF EveryNNext, Step
<1> QED BY <1>1, <1>2, PTL DEF EveryNSpec

LEMMA SerialInvariant == EveryNSpec => []SerialInv
<1> USE EveryNAssumption, ArgumentsAreNat
<1>1. EveryNInit => SerialInv
  BY DEF EveryNInit, SiteInit, InitialValue, SerialInv, NobodyInside, Base
<1>2. EveryNTypeOK /\ SerialInv /\ [EveryNNext]_everyNVars => SerialInv'
  <2> SUFFICES ASSUME EveryNTypeOK, SerialInv, [EveryNNext]_everyNVars, races' = 0 PROVE SerialInv'
    BY DEF SerialInv
  <2> USE DEF EveryNTypeOK, Goto, macro, Registers, SerialInv, NobodyInside, Base
  <2>1. ASSUME NEW t \in Threads, LoadForIncrement(t) PROVE SerialInv'
    BY <2>1 DEF LoadForIncrement, Calls
  <2>2. ASSUME NEW t \in Threads, StoreIncremented(t) PROVE SerialInv'
    BY <2>2 DEF StoreIncremented
  <2>3. ASSUME NEW t \in Threads, UpToN(t) PROVE SerialInv'
    BY <2>3 DEF UpToN, OneMoreSilent, Seen
  <2>4. ASSUME NEW t \in Threads, AboveN(t) PROVE SerialInv'
    BY <2>4 DEF AboveN, Seen
  <2>5. ASSUME NEW t \in Threads, LoadForSubtract(t) PROVE SerialInv'
    BY <2>5 DEF LoadForSubtract
  <2>6. ASSUME NEW t \in Threads, StoreSubtracted(t) PROVE SerialInv'
    BY <2>6 DEF StoreSubtracted, LessN
  <2>7. ASSUME NEW t \in Threads, WriteMessage(t) PROVE SerialInv'
    BY <2>7 DEF WriteMessage
  <2>8. ASSUME NEW t \in Threads, NoMessage(t) PROVE SerialInv'
    BY <2>8 DEF NoMessage, Seen
  <2>9. CASE UNCHANGED everyNVars
    BY <2>9 DEF everyNVars, everyNOwn
  <2> QED BY <2>1, <2>2, <2>3, <2>4, <2>5, <2>6, <2>7, <2>8, <2>9 DEF EveryNNext, Step
<1> QED BY <1>1, <1>2, CounterTypes, PTL DEF EveryNSpec

(* Calls that do not overlap are never silent for longer than the macro    *)
(* promises.                                                               *)
THEOREM NeverSilentTooLong == EveryNSpec => []Cadence
<1>1. SerialInv => Cadence
  BY DEF SerialInv, Cadence
<1> QED BY <1>1, SerialInvariant, PTL

(* Calls that do not overlap never write a message early.                  *)
THEOREM NeverEarly == EveryNSpec => EveryNth
<1>1. SerialInv => \A t \in Threads : WriteMessage(t) /\ races = 0 => silent + Base = n
  BY DEF SerialInv, WriteMessage
<1> QED BY <1>1, SerialInvariant, PTL DEF EveryNSpec, EveryNth

(* A site with N = 1 whose counter overlapping calls have left above 1,    *)
(* while the calls come one at a time from now on: every overlap that      *)
(* MaxRaces allows has happened.                                           *)
Drifted == n = 1 /\ counter > 1 /\ races = MaxRaces /\ NobodyInside

(* What keeps it so: the one thread inside has the counter in its hands.   *)
DriftedInv ==
  /\ n = 1 /\ counter > 1 /\ races = MaxRaces
  /\ \A t, u \in Threads : pc[t] # "idle" /\ pc[u] # "idle" => t = u
  /\ \A t \in Threads :
       /\ pc[t] \in {"increment", "test_n", "subtract", "test_one"} => reg[t] = counter
       /\ pc[t] \in {"test_n", "load", "subtract"} => counter > 2

LEMMA StepKeepsDrifted ==
  ASSUME EveryNTypeOK, DriftedInv, [EveryNNext]_everyNVars
  PROVE  DriftedInv' /\ \A t \in Threads : ~WriteMessage(t)
<1> USE EveryNAssumption DEF EveryNTypeOK, Registers, DriftedInv, Goto, macro
<1>1. ASSUME NEW t \in Threads, LoadForIncrement(t) PROVE DriftedInv'
  <2>1. NobodyInside
    BY <1>1 DEF LoadForIncrement
  <2> QED BY <1>1, <2>1 DEF LoadForIncrement, Calls, NobodyInside
<1>2. ASSUME NEW t \in Threads, StoreIncremented(t) PROVE DriftedInv'
  BY <1>2 DEF StoreIncremented
<1>3. ASSUME NEW t \in Threads, UpToN(t) \/ AboveN(t) PROVE DriftedInv'
  BY <1>3 DEF UpToN, AboveN
<1>4. ASSUME NEW t \in Threads, LoadForSubtract(t) PROVE DriftedInv'
  BY <1>4 DEF LoadForSubtract
<1>5. ASSUME NEW t \in Threads, StoreSubtracted(t) PROVE DriftedInv'
  BY <1>5 DEF StoreSubtracted, LessN
<1>6. ASSUME NEW t \in Threads PROVE ~WriteMessage(t)
  BY DEF WriteMessage, Seen
<1>7. ASSUME NEW t \in Threads, NoMessage(t) PROVE DriftedInv'
  BY <1>7 DEF NoMessage
<1>8. CASE UNCHANGED everyNVars
  BY <1>6, <1>8 DEF everyNVars, everyNOwn
<1>9. CASE EveryNNext
  <2> HIDE DEF DriftedInv, EveryNTypeOK, Goto, macro
  <2>1. PICK t \in Threads : Step(t)
    BY <1>9 DEF EveryNNext
  <2>2. CASE WriteMessage(t)
    BY <1>6, <2>2
  <2> QED BY <1>1, <1>2, <1>3, <1>4, <1>5, <1>6, <1>7, <2>1, <2>2 DEF Step
<1> QED BY <1>6, <1>8, <1>9

(* Such a site never writes a message again, for any number of threads and *)
(* however long they go on calling it: what SilencedOnlyIfDrifted excepts  *)
(* is really lost.                                                         *)
THEOREM DriftedIsSilent ==
  EveryNSpec => [](Drifted => [][\A t \in Threads : ~WriteMessage(t)]_everyNVars)
<1>1. EveryNTypeOK /\ Drifted => DriftedInv
  BY DEF EveryNTypeOK, Drifted, DriftedInv, NobodyInside
<1>2. EveryNTypeOK /\ DriftedInv /\ [EveryNNext]_everyNVars => DriftedInv'
  BY StepKeepsDrifted
<1>3. EveryNTypeOK /\ DriftedInv /\ [EveryNNext]_everyNVars =>
        [\A t \in Threads : ~WriteMessage(t)]_everyNVars
  BY StepKeepsDrifted
<1> QED BY <1>1, <1>2, <1>3, CounterTypes, PTL DEF EveryNSpec
-----------------------------------------------------------------------------
(* EVERY_SECOND.                                                           *)

(* Every variable keeps its type.                                          *)
THEOREM EverySecondTypes == EverySecondSpec => []EverySecondTypeOK
<1>1. EverySecondInit => EverySecondTypeOK
  <2>1. 0 \in Times
    BY EverySecondAssumption DEF Times
  <2>2. EverySecondInit => /\ site = "EVERY_SECOND" /\ n \in Arguments
                /\ timestamp \in Times /\ last_occurs \in Times
                /\ stores \in SUBSET Times
                /\ logging \in BOOLEAN
                /\ now \in [Threads -> Times]
    BY <2>1, ArgumentsAreNat DEF EverySecondInit, SiteInit
  <2>3. EverySecondInit => /\ pc \in [Threads -> {"idle", "try_lock", "recheck", "store",
                                      "unlock", "unlock_write", "write_line"}]
                /\ written \in Seq(Times)
    BY DEF EverySecondInit, SiteInit
  <2>4. QED
    BY <2>2, <2>3 DEF EverySecondTypeOK
<1>2. EverySecondTypeOK /\ [EverySecondNext]_everySecondVars => EverySecondTypeOK'
  <2> SUFFICES ASSUME EverySecondTypeOK, [EverySecondNext]_everySecondVars
               PROVE  EverySecondTypeOK'
    OBVIOUS
  <2> USE EverySecondAssumption DEF EverySecondTypeOK, Times, Goto, macro
  <2>1. CASE ClockAdvances
    BY <2>1 DEF ClockAdvances
  <2>2. ASSUME NEW t \in Threads, NEW time \in Times, NEW last \in Times,
               Test(t, time, last)
        PROVE  EverySecondTypeOK'
    BY <2>2 DEF Test, Calls
  <2>3. ASSUME NEW t \in Threads, TryLock(t)
        PROVE  EverySecondTypeOK'
    BY <2>3 DEF TryLock, WasLocked
  <2>4. ASSUME NEW t \in Threads, Recheck(t)
        PROVE  EverySecondTypeOK'
    BY <2>4 DEF Recheck, ReallyWrite
  <2>5. ASSUME NEW t \in Threads, Store(t)
        PROVE  EverySecondTypeOK'
    BY <2>5 DEF Store
  <2>6. ASSUME NEW t \in Threads, Unlock(t)
        PROVE  EverySecondTypeOK'
    BY <2>6 DEF Unlock, Released
  <2>7. ASSUME NEW t \in Threads, Write(t)
        PROVE  EverySecondTypeOK'
    BY <2>7 DEF Write
  <2>8. CASE UNCHANGED everySecondVars
    BY <2>8 DEF everySecondVars, everySecondOwn
  <2>9. QED
    BY <2>1, <2>2, <2>3, <2>4, <2>5, <2>6, <2>7, <2>8 DEF EverySecondNext, InEverySecond
<1>3. QED
  BY <1>1, <1>2, PTL DEF EverySecondSpec

(* The flag lets one thread in at a time: whenever it is set exactly one   *)
(* thread is between the exchange that set it and the store that clears    *)
(* it.                                                                     *)
THEOREM FlagIsMutex == EverySecondSpec => []OneInside
<1>1. EverySecondInit => OneInside
  BY DEF EverySecondInit, SiteInit, OneInside, Inside
<1>2. EverySecondTypeOK /\ OneInside /\ [EverySecondNext]_everySecondVars => OneInside'
  <2> SUFFICES ASSUME EverySecondTypeOK, OneInside, [EverySecondNext]_everySecondVars
               PROVE  OneInside'
    OBVIOUS
  <2> USE DEF EverySecondTypeOK, OneInside, Inside, Goto, macro
  <2>1. CASE ClockAdvances
    BY <2>1 DEF ClockAdvances
  <2>2. ASSUME NEW t \in Threads, NEW time \in Times, NEW last \in Times,
               Test(t, time, last)
        PROVE  OneInside'
    BY <2>2 DEF Test, Calls
  <2>3. ASSUME NEW t \in Threads, TryLock(t)
        PROVE  OneInside'
    BY <2>3 DEF TryLock, WasLocked
  <2>4. ASSUME NEW t \in Threads, Recheck(t)
        PROVE  OneInside'
    BY <2>4 DEF Recheck, ReallyWrite
  <2>5. ASSUME NEW t \in Threads, Store(t)
        PROVE  OneInside'
    BY <2>5 DEF Store
  <2>6. ASSUME NEW t \in Threads, Unlock(t)
        PROVE  OneInside'
    BY <2>6 DEF Unlock, Released
  <2>7. ASSUME NEW t \in Threads, Write(t)
        PROVE  OneInside'
    BY <2>7 DEF Write
  <2>8. CASE UNCHANGED everySecondVars
    BY <2>8 DEF everySecondVars, everySecondOwn
  <2>9. QED
    BY <2>1, <2>2, <2>3, <2>4, <2>5, <2>6, <2>7, <2>8 DEF EverySecondNext, InEverySecond
<1>3. QED
  BY <1>1, <1>2, EverySecondTypes, PTL DEF EverySecondSpec

(* A time later than last_occurs by more than N is apart from every time   *)
(* last_occurs has reached.                                                *)
LEMMA DueIsApart ==
  ASSUME n \in Nat, NEW last \in Times, NEW time \in Times, NEW old \in Times,
         IsDue(last, time), old <= last
  PROVE  Apart(time, old) /\ Apart(old, time) /\ old <= time
BY EverySecondAssumption DEF IsDue, Apart, Times

(* The strengthened invariant is inductive.                                *)
LEMMA NextKeepsSpaced ==
  EverySecondTypeOK /\ SpacedInv /\ [EverySecondNext]_everySecondVars => LastOccursLeads' /\ Spaced'
<1> SUFFICES ASSUME EverySecondTypeOK, SpacedInv, [EverySecondNext]_everySecondVars
             PROVE  LastOccursLeads' /\ Spaced'
  OBVIOUS
<1> USE DEF SpacedInv, LastOccursLeads, Spaced, Claims, Apart, IsDue, Goto, macro
<1>1. CASE ClockAdvances
  BY <1>1 DEF ClockAdvances
<1>2. ASSUME NEW t \in Threads, NEW time \in Times, NEW last \in Times,
             Test(t, time, last)
      PROVE  LastOccursLeads' /\ Spaced'
  BY <1>2 DEF Test, Calls, EverySecondTypeOK
<1>3. ASSUME NEW t \in Threads, TryLock(t)
      PROVE  LastOccursLeads' /\ Spaced'
  BY <1>3 DEF TryLock, WasLocked, EverySecondTypeOK
<1>4. ASSUME NEW t \in Threads, Recheck(t)
      PROVE  LastOccursLeads' /\ Spaced'
  BY <1>4 DEF Recheck, ReallyWrite, EverySecondTypeOK
<1>5. ASSUME NEW t \in Threads, Store(t)
      PROVE  LastOccursLeads' /\ Spaced'
  <2>1. /\ now[t] \in Times /\ last_occurs \in Times
        /\ IsDue(last_occurs, now[t])
    BY <1>5 DEF Store, EverySecondTypeOK
  <2>2. \A u \in Threads : u # t => pc[u] # "store"
    BY <1>5 DEF Store, OneInside, Inside
  <2>3. ASSUME NEW u \in Threads, Claims(u)
        PROVE  Apart(now[t], now[u]) /\ Apart(now[u], now[t]) /\ now[u] <= now[t]
    BY <2>1, <2>3, DueIsApart, ArgumentsAreNat DEF EverySecondTypeOK
  <2>4. ASSUME NEW i \in 1..Len(written)
        PROVE  Apart(now[t], written[i]) /\ written[i] <= now[t]
    <3>1. written[i] \in Times
      BY DEF EverySecondTypeOK
    <3>2. QED
      BY <2>1, <3>1, DueIsApart, ArgumentsAreNat DEF EverySecondTypeOK
  <2>5. now[t] <= now[t]
    BY <2>1 DEF Times
  <2>6. LastOccursLeads'
    BY <1>5, <2>2, <2>3, <2>4, <2>5 DEF Store, EverySecondTypeOK
  <2>7. Spaced'
    BY <1>5, <2>3, <2>4 DEF Store, EverySecondTypeOK
  <2>8. QED
    BY <2>6, <2>7
<1>6. ASSUME NEW t \in Threads, Unlock(t)
      PROVE  LastOccursLeads' /\ Spaced'
  BY <1>6 DEF Unlock, Released, EverySecondTypeOK
<1>7. ASSUME NEW t \in Threads, Write(t)
      PROVE  LastOccursLeads' /\ Spaced'
  <2>1. /\ written' \in Seq(Times)
        /\ Len(written') = Len(written) + 1
        /\ written'[Len(written) + 1] = now[t]
        /\ \A i \in 1..Len(written) : written'[i] = written[i]
    BY <1>7 DEF Write, EverySecondTypeOK
  <2>2. Claims(t) /\ now[t] \in Times
    BY <1>7 DEF Write, EverySecondTypeOK
  <2>3. \A i \in 1..Len(written) :
          Apart(now[t], written[i]) /\ Apart(written[i], now[t])
    BY <2>2 DEF Apart
  <2>4. \A u \in Threads : Claims(u)' <=> Claims(u) /\ u # t
    BY <1>7 DEF Write, EverySecondTypeOK
  <2>5. LastOccursLeads'
    BY <1>7, <2>1, <2>2, <2>4 DEF Write, EverySecondTypeOK
  <2>6. Spaced'
    BY <1>7, <2>1, <2>2, <2>3, <2>4 DEF Write, EverySecondTypeOK
  <2>7. QED
    BY <2>5, <2>6
<1>8. CASE UNCHANGED everySecondVars
  BY <1>8 DEF everySecondVars, everySecondOwn
<1>9. QED
  BY <1>1, <1>2, <1>3, <1>4, <1>5, <1>6, <1>7, <1>8 DEF EverySecondNext, InEverySecond

(* The messages of one site are more than N seconds apart, although each   *)
(* thread decides with times it read earlier and writes after it released  *)
(* the flag.                                                               *)
THEOREM MessagesSpaced == EverySecondSpec => []Spaced
<1>1. EverySecondInit => SpacedInv
  <2>1. EverySecondInit => OneInside
    BY DEF EverySecondInit, SiteInit, OneInside, Inside
  <2>2. EverySecondInit => LastOccursLeads /\ Spaced
    BY DEF EverySecondInit, SiteInit, LastOccursLeads, Spaced, Claims
  <2>3. QED
    BY <2>1, <2>2 DEF SpacedInv
<1>2. EverySecondTypeOK /\ OneInside' /\ SpacedInv /\ [EverySecondNext]_everySecondVars => SpacedInv'
  BY NextKeepsSpaced DEF SpacedInv
<1>3. SpacedInv => Spaced
  BY DEF SpacedInv
<1>4. QED
  BY <1>1, <1>2, <1>3, EverySecondTypes, FlagIsMutex, PTL DEF EverySecondSpec
=============================================================================
