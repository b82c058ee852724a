SPECIFICATION FairSpec
CONSTANTS
  Ops = {op1, op2}
  Producers = {p1}
  StopOp = StopOp
  Runner = Runner
  Null = Null
  WorkBeforeRun = FALSE
  RemoteDuringRun = TRUE
  RunAgain = TRUE
PROPERTIES InFlightCompletes StuckOnlyInNext StopEndsRun ShutDownEndsRun
