SPECIFICATION AppSpec
CONSTANTS
  Op = op
  Ops = {op}
  Producers = {}
  StopOp = StopOp
  Runner = Runner
  Null = Null
  WorkBeforeRun = FALSE
  RemoteDuringRun = FALSE
  RunAgain = FALSE
INVARIANTS NeverMisused
PROPERTIES ServesForEver ClientTerminates
CHECK_DEADLOCK FALSE
