--------------------------- MODULE MonotoneClock ---------------------------
(* What ReadCoarseSteadyClock promises its callers: the published time     *)
(* never goes back, and never runs ahead of the clock it is taken from.    *)
EXTENDS Naturals

VARIABLES now, timestamp

Init == now \in Nat /\ timestamp = 0

Next ==
  /\ now' >= now
  /\ timestamp' >= timestamp
  /\ timestamp' <= now'

Spec == Init /\ [][Next]_<<now, timestamp>>
=============================================================================
