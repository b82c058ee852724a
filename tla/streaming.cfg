SPECIFICATION Spec
CONSTANTS
  Clients = {c1, c2}
  Nobody = Nobody
INVARIANTS AllOrNothing
PROPERTIES ClientsEnd
CHECK_DEADLOCK FALSE
