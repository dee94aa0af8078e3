SPECIFICATION Spec
CONSTANTS
  Clients = {c1, c2}
  MSG_COUNT = 2
INVARIANT PrintsOwnAverage
CHECK_DEADLOCK FALSE
