SPECIFICATION Spec
CONSTANTS
  Contexts = {a, b}
  Threads = {t1, t2}
  Items = {i1, i2}
  Nullptr = Nullptr
  MaxDepth = 3
INVARIANTS CurrentIsInnermost
PROPERTIES LocalQueueIsOwned
