SPECIFICATION FairSpec
CONSTANTS
  Providers = {0, 1}
  Objects = {o1, o2}
  Main = main
  Vector = vector
  Space = space
INVARIANTS PrefixComplete ProvidersInPlace
PROPERTIES FailedCheckAborts
CHECK_DEADLOCK FALSE
