SPECIFICATION Spec
CONSTANTS
  Threads = {t1, t2}
  Arguments = {1, 2}
  MaxRaces = 3
  MaxSilent = 8
  MaxTime = 7
INVARIANTS OnceOnly Cadence OneInside Spaced
PROPERTIES PassedMeansWritten EveryNth SilencedOnlyIfDrifted CatchesUp
CHECK_DEADLOCK FALSE
