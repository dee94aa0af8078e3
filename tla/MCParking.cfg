SPECIFICATION FairSpec
CONSTANTS
  Runs = 2
  Entrances = {e1, e2}
  Exits = {x1}
  Capacity = 1
INVARIANTS TypeOK Conservation FreshUnlessTorn
PROPERTIES LotGoesOn ImplementsBoundedSemaphore
CHECK_DEADLOCK FALSE
