SPECIFICATION Spec
CONSTANTS
  Runs = 2
  Entrances = {e1}
  Exits = {x1}
  Capacity = 1
INVARIANT CreatesNewPair
CHECK_DEADLOCK FALSE
