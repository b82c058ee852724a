------------------------------ MODULE LogSites ------------------------------
(***************************************************************************)
(* A rate limited log site of any of the three forms, for TLC.  The state  *)
(* of the forms a site does not have stays as it was initialized.          *)
(***************************************************************************)
EXTENDS LogOnce, LogEveryN, LogEverySecond

vars == <<macro, pc, onceOwn, everyNOwn, everySecondOwn>>

OnceUnused == fatal = FALSE /\ logged = FALSE /\ seen = {} /\ lines = 0 /\ aborted = FALSE
EveryNUnused ==
  /\ counter = InitialValue /\ reg = [t \in Threads |-> 0]
  /\ races = 0 /\ silent = 0 /\ spoken = FALSE
EverySecondUnused ==
  /\ timestamp = 0 /\ last_occurs = 0 /\ stores = {0} /\ logging = FALSE
  /\ now = [t \in Threads |-> 0] /\ written = <<>>

Init ==
  \/ OnceInit /\ EveryNUnused /\ EverySecondUnused
  \/ EveryNInit /\ OnceUnused /\ EverySecondUnused
  \/ EverySecondInit /\ OnceUnused /\ EveryNUnused

Next ==
  \/ OnceNext /\ UNCHANGED <<everyNOwn, everySecondOwn>>
  \/ EveryNNext /\ UNCHANGED <<onceOwn, everySecondOwn>>
  \/ EverySecondNext /\ UNCHANGED <<onceOwn, everyNOwn>>

Spec ==
  /\ Init /\ [][Next]_vars
  /\ OnceFairness /\ EveryNFairness /\ EverySecondFairness
=============================================================================
