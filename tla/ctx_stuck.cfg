SPECIFICATION FairSpec
CONSTANTS
  Ops = {op1}
  Producers = {p1}
  StopOp = StopOp
  Runner = Runner
  Null = Null
  WorkBeforeRun = TRUE
  RemoteDuringRun = TRUE
  RunAgain = FALSE
PROPERTIES ScheduledRuns
CHECK_DEADLOCK FALSE
