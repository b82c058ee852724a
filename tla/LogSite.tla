------------------------------ MODULE LogSite ------------------------------
(***************************************************************************)
(* What the rate limited macros of agrpc/base/logging.h share: one place   *)
(* in the program expands one of them, its state is static there, and any  *)
(* number of threads call it.  LogOnce, LogEveryN and LogEverySecond model *)
(* the three forms; the ..._IF_... variants of each only put a condition   *)
(* before the call.                                                        *)
(***************************************************************************)
EXTENDS Integers

CONSTANTS
  Threads,
  Arguments      \* the N of the macros
ASSUME ArgumentsAreNat == Arguments \subseteq Nat

VARIABLES
  site,          \* the form of the macro: ONCE, EVERY_N or EVERY_SECOND
  n,             \* its argument; ONCE has none
  pc             \* where each thread is in the macro

macro == <<site, n>>

SiteInit(form) ==
  /\ site = form
  /\ n \in Arguments
  /\ pc = [t \in Threads |-> "idle"]

(* A thread calls the macro.                                               *)
Calls(form, t) == site = form /\ pc[t] = "idle"

Goto(t, label) == pc' = [pc EXCEPT ![t] = label]
=============================================================================
