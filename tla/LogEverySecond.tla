--------------------------- MODULE LogEverySecond ---------------------------
(***************************************************************************)
(* One AGRPC_LOG_..._EVERY_SECOND site (agrpc/base/logging.h) called by    *)
(* many threads.  Each site has its own last_occurs and its own flag       *)
(* logging; a thread compares the coarse clock with last_occurs, takes the *)
(* flag without waiting, compares again, and releases the flag before it   *)
(* writes.                                                                 *)
(*                                                                         *)
(* Outside the flag the atomics are read relaxed: a load may return an     *)
(* older value, except that no thread sees the clock go back.  Inside it   *)
(* the sequentially consistent exchange and store make the last value      *)
(* visible.                                                                *)
(***************************************************************************)
EXTENDS LogSite, Sequences

CONSTANT
  MaxTime        \* bound: the clock stops here
ASSUME EverySecondAssumption == MaxTime \in Nat

Times == 0..MaxTime

VARIABLES
  timestamp,     \* the coarse clock
  last_occurs,
  stores,        \* the values last_occurs has had
  logging,       \* the flag
  now,           \* the time each thread read from the clock
  written        \* the times of the messages, in the order of the log

everySecondOwn == <<timestamp, last_occurs, stores, logging, now, written>>
everySecondVars == <<macro, pc, everySecondOwn>>

EverySecondInit ==
  /\ SiteInit("EVERY_SECOND")
  /\ timestamp \in Times
  /\ last_occurs = 0 /\ stores = {0}
  /\ logging = FALSE
  /\ now = [t \in Threads |-> 0]
  /\ written = <<>>

(* The clock as its users know it (MonotoneClock).                         *)
ClockAdvances ==
  /\ site = "EVERY_SECOND"
  /\ timestamp < MaxTime
  /\ timestamp' \in (timestamp + 1)..MaxTime
  /\ UNCHANGED <<macro, last_occurs, stores, logging, pc, now, written>>

IsDue(last, time) == last + n < time

(* The first comparison, with whatever the two relaxed loads return.       *)
Test(t, time, last) ==
  /\ Calls("EVERY_SECOND", t)
  /\ time >= now[t] /\ time <= timestamp
  /\ last \in stores
  /\ now' = [now EXCEPT ![t] = time]
  /\ Goto(t, IF IsDue(last, time) THEN "try_lock" ELSE "idle")
  /\ UNCHANGED <<macro, timestamp, last_occurs, stores, logging, written>>

(* What the exchange returned, and a mutant: it is ignored.                *)
Ignored == FALSE
WasLocked == logging

TryLock(t) ==
  /\ pc[t] = "try_lock"
  /\ logging' = TRUE
  /\ Goto(t, IF WasLocked THEN "idle" ELSE "recheck")
  /\ UNCHANGED <<macro, timestamp, last_occurs, stores, now, written>>

(* The second comparison, and a mutant: the first one is trusted.          *)
Trusted(t) == TRUE
ReallyWrite(t) == IsDue(last_occurs, now[t])

(* really_write is remembered as the label to go on with.                  *)
Recheck(t) ==
  /\ pc[t] = "recheck"
  /\ Goto(t, IF ReallyWrite(t) THEN "store" ELSE "unlock")
  /\ UNCHANGED <<macro, timestamp, last_occurs, stores, logging, now, written>>

Store(t) ==
  /\ pc[t] = "store"
  /\ last_occurs' = now[t]
  /\ stores' = stores \cup {now[t]}
  /\ Goto(t, "unlock_write")
  /\ UNCHANGED <<macro, timestamp, logging, now, written>>

(* The flag is released by every thread that took it; a mutant: only by a  *)
(* thread that writes.                                                     *)
KeptIfSilent(t) == pc[t] = "unlock"
Released(t) == FALSE

Unlock(t) ==
  /\ pc[t] \in {"unlock", "unlock_write"}
  /\ logging' = Released(t)
  /\ Goto(t, IF pc[t] = "unlock" THEN "idle" ELSE "write_line")
  /\ UNCHANGED <<macro, timestamp, last_occurs, stores, now, written>>

Write(t) ==
  /\ pc[t] = "write_line"
  /\ written' = Append(written, now[t])
  /\ Goto(t, "idle")
  /\ UNCHANGED <<macro, timestamp, last_occurs, stores, logging, now>>

InEverySecond(t) == TryLock(t) \/ Recheck(t) \/ Store(t) \/ Unlock(t) \/ Write(t)

EverySecondNext ==
  \/ ClockAdvances
  \/ \E t \in Threads : InEverySecond(t) \/ \E time, last \in Times : Test(t, time, last)

EverySecondSpec == EverySecondInit /\ [][EverySecondNext]_everySecondVars

(* A thread inside the macro gets out of it; the threads keep calling it   *)
(* and a relaxed load returns the last store sooner or later.              *)
EverySecondFairness ==
  \A t \in Threads :
    /\ WF_everySecondVars(InEverySecond(t))
    /\ SF_everySecondVars(Test(t, timestamp, last_occurs))

-----------------------------------------------------------------------------
(* Every variable keeps its type.                                          *)
EverySecondTypeOK ==
  /\ site = "EVERY_SECOND" /\ n \in Arguments
  /\ timestamp \in Times
  /\ last_occurs \in Times /\ stores \in SUBSET Times
  /\ logging \in BOOLEAN
  /\ pc \in [Threads -> {"idle", "try_lock", "recheck", "store", "unlock",
                         "unlock_write", "write_line"}]
  /\ now \in [Threads -> Times]
  /\ written \in Seq(Times)

Inside(t) == pc[t] \in {"recheck", "store", "unlock", "unlock_write"}

(* The flag is held by exactly one thread whenever it is set: only a       *)
(* single thread really decides and stores.                                *)
OneInside ==
  /\ \A t, u \in Threads : Inside(t) /\ Inside(u) => t = u
  /\ logging <=> \E t \in Threads : Inside(t)

Apart(a, b) == a + n < b \/ b + n < a

(* A thread that has claimed a time in last_occurs and will write.         *)
Claims(t) == pc[t] \in {"unlock_write", "write_line"}

(* The messages are more than N seconds apart by the clock that stamps     *)
(* them, whatever stale values the threads acted on and in whatever order  *)
(* their writes reach the log after the flag was released.                 *)
Spaced ==
  /\ \A i, j \in 1..Len(written) : i # j => Apart(written[i], written[j])
  /\ \A t, u \in Threads : t # u /\ Claims(t) /\ Claims(u) => Apart(now[t], now[u])
  /\ \A t \in Threads : Claims(t) => \A i \in 1..Len(written) : Apart(now[t], written[i])

(* The inductive invariant behind Spaced: last_occurs has reached every    *)
(* time claimed or written, and a thread about to store is still due.      *)
LastOccursLeads ==
  /\ \A t \in Threads : Claims(t) => now[t] <= last_occurs
  /\ \A i \in 1..Len(written) : written[i] <= last_occurs
  /\ \A t \in Threads : pc[t] = "store" => IsDue(last_occurs, now[t])
SpacedInv == OneInside /\ LastOccursLeads /\ Spaced

(* No lost race for the flag silences the site: as long as threads keep    *)
(* calling it, last_occurs catches up with the clock.                      *)
CatchesUp == []<>(last_occurs + n >= timestamp)
=============================================================================
