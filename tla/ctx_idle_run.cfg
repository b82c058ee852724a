SPECIFICATION Spec
CONSTANTS
  Ops = {op1}
  Producers = {p1}
  StopOp = StopOp
  Runner = Runner
  Null = Null
  WorkBeforeRun = FALSE
  RemoteDuringRun = TRUE
  RunAgain = TRUE
PROPERTIES FalseMeansEnqueued
