SPECIFICATION Spec
CONSTANTS
  Ops = {op1, op2, op3}
  Producers = {p1, p2}
  StopOp = StopOp
  Runner = Runner
  Null = Null
  WorkBeforeRun = FALSE
  RemoteDuringRun = TRUE
  RunAgain = TRUE
SYMMETRY Symmetry
PROPERTIES DeliversOnce ExecutesInOrder
INVARIANTS TypeOK WakeupNotLost AlarmExclusive StoppedRunIsClean
