SPECIFICATION FairSpec
CONSTANTS
  Directions = {0, 1, 2}
  MAX_DIRECTION_SIZE = 4
INVARIANTS TypeOK GreenWhileHeld NoSleeperAtGreen
PROPERTIES LightGoesOn
CHECK_DEADLOCK FALSE
