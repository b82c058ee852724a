SPECIFICATION FairTimedSpec
CONSTANTS
  MaxTime = 16
  Late = 2
  Delay = 1
INVARIANTS DeviatesLess
PROPERTIES PublishesMonotoneTime NoStoreAfterJoin JoinReturns KeepsUp
CHECK_DEADLOCK FALSE
