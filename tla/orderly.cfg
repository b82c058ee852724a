SPECIFICATION OrderlySpec
CONSTANTS
  Ops = {op1, op2}
  StopOp = StopOp
  Runner = Runner
  Producers = {p1, p2}
  Null = Null
  WorkBeforeRun = TRUE
  RemoteDuringRun = TRUE
  RunAgain = TRUE
INVARIANTS InactiveNeverDequeued ShutDownIsSafe NothingLeftBehind
PROPERTIES OutstandingDelivered
CHECK_DEADLOCK FALSE
