SPECIFICATION Spec
CONSTANTS
  Directions = {0, 2}
  MAX_DIRECTION_SIZE = 4
INVARIANT OneGroupPasses
CHECK_DEADLOCK FALSE
