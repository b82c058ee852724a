SPECIFICATION Spec
CONSTANT Coroutines = {c1, c2, c3}
INVARIANTS NeverRejected QuietWhenIdle
CHECK_DEADLOCK FALSE
