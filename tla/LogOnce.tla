------------------------------ MODULE LogOnce ------------------------------
(***************************************************************************)
(* One AGRPC_LOG_..._ONCE site (agrpc/base/logging.h) called by many       *)
(* threads: a relaxed look at the flag, and for a thread that finds it     *)
(* unset an exchange that decides who writes.                              *)
(*                                                                         *)
(* FormatLog and glog come after the exchange: a message whose arguments   *)
(* cannot be formatted is replaced by LOG(FATAL), and a FATAL message ends *)
(* the process once it is written.                                         *)
(***************************************************************************)
EXTENDS LogSite

VARIABLES
  fatal,         \* the Level of the site is FATAL
  logged,        \* the flag of the site
  seen,          \* the threads that have seen the flag set
  lines,         \* how many times the message was written
  aborted        \* the process was ended by glog

onceOwn == <<fatal, logged, seen, lines, aborted>>
onceVars == <<macro, pc, onceOwn>>

OnceInit ==
  /\ SiteInit("ONCE")
  /\ fatal \in BOOLEAN
  /\ logged = FALSE
  /\ seen = {}
  /\ lines = 0
  /\ aborted = FALSE

(* The relaxed load may return the old value, but not to a thread that has *)
(* seen the new one.                                                       *)
LoadFlag(t, value) ==
  /\ ~aborted
  /\ Calls("ONCE", t)
  /\ value => logged
  /\ t \in seen => value
  /\ seen' = IF value THEN seen \cup {t} ELSE seen
  /\ Goto(t, IF value THEN "idle" ELSE "exchange")
  /\ UNCHANGED <<macro, fatal, logged, lines, aborted>>

(* What the exchange means, and a mutant: the flag is stored, what it held *)
(* is not looked at.                                                       *)
AnybodyWrites == "format"
AfterExchange == IF logged THEN "idle" ELSE "format"

Exchange(t) ==
  /\ ~aborted
  /\ pc[t] = "exchange"
  /\ logged' = TRUE
  /\ seen' = seen \cup {t}
  /\ Goto(t, AfterExchange)
  /\ UNCHANGED <<macro, fatal, lines, aborted>>

(* What FormatLog does with a message that cannot be formatted, and a      *)
(* mutant: the message is dropped.                                         *)
DropsMessage == "idle"
CannotFormat == "abort"

(* FormatLog returns the text, or catches what fmt::format threw and does  *)
(* not return from LOG(FATAL).                                             *)
FormatLog(t) ==
  /\ ~aborted
  /\ pc[t] = "format"
  /\ \E next \in {"write", CannotFormat} : Goto(t, next)
  /\ UNCHANGED <<macro, fatal, logged, seen, lines, aborted>>

(* What comes after the line.                                              *)
AfterWrite == IF fatal THEN "abort" ELSE "idle"

(* The destructor of glog's LogMessage sends the line to the log, and then *)
(* ends the process if it is FATAL.                                        *)
WriteLine(t) ==
  /\ ~aborted
  /\ pc[t] = "write"
  /\ lines' = lines + 1
  /\ Goto(t, AfterWrite)
  /\ UNCHANGED <<macro, fatal, logged, seen, aborted>>

Abort(t) ==
  /\ ~aborted
  /\ pc[t] = "abort"
  /\ aborted' = TRUE
  /\ UNCHANGED <<macro, fatal, logged, seen, pc, lines>>

InOnce(t) == Exchange(t) \/ FormatLog(t) \/ WriteLine(t) \/ Abort(t)

OnceNext == \E t \in Threads : InOnce(t) \/ \E value \in BOOLEAN : LoadFlag(t, value)

OnceSpec == OnceInit /\ [][OnceNext]_onceVars

(* A thread inside the macro gets out of it; nobody has to call it.        *)
OnceFairness == \A t \in Threads : WF_onceVars(InOnce(t))

-----------------------------------------------------------------------------
(* Every variable keeps its type.                                          *)
OnceTypeOK ==
  /\ site = "ONCE"
  /\ fatal \in BOOLEAN
  /\ logged \in BOOLEAN
  /\ seen \in SUBSET Threads
  /\ pc \in [Threads -> {"idle", "exchange", "format", "write", "abort"}]
  /\ lines \in Nat
  /\ aborted \in BOOLEAN

(* The thread the exchange has chosen, until it is through with the site.  *)
Chosen(t) == pc[t] \in {"format", "write", "abort"}

(* However many threads found the flag unset, fresh or stale, one of them  *)
(* is chosen and the message is written at most once.                      *)
OnceOnly ==
  /\ lines <= 1
  /\ \A t, u \in Threads : Chosen(t) /\ Chosen(u) => t = u
  /\ \A t \in Threads : pc[t] \in {"format", "write"} => lines = 0

(* The inductive invariant behind OnceOnly: the flag is set as soon as a   *)
(* thread is chosen.                                                       *)
OnceInv ==
  /\ OnceOnly
  /\ ~logged => lines = 0 /\ \A t \in Threads : ~Chosen(t)

(* A thread has been through the site.                                     *)
Passed(t) == t \in seen /\ pc[t] = "idle"

(* Who is through with the site, having lost the exchange or seen the flag *)
(* set, can rely on the message: another thread is still busy with it, but *)
(* it gets written, or the process ends because it cannot be formatted.    *)
(* A thread may even get past LOG_FATAL_ONCE, but not for long: the        *)
(* process ends.                                                           *)
PassedMeansWritten ==
  (\E t \in Threads : Passed(t)) ~> ((lines = 1 /\ ~fatal) \/ aborted)
=============================================================================
