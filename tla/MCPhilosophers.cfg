SPECIFICATION FairSpec
CONSTANTS
  Runs = {r1, r2}
  NUM_PHILOSOPHERS = 5
INVARIANTS TypeOK OneHolder NoCircularWait
PROPERTY SomebodyEats
CHECK_DEADLOCK FALSE
