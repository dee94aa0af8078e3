SPECIFICATION FairSpec
CONSTANTS
  ProducerRuns = {p1, p2}
  ConsumerRuns = {c1}
  num = 1
  BUF_SIZE = 2
  ValueSize = 2
  MaxKills = 1
INVARIANTS TypeOK Conservation
PROPERTIES ImplementsBoundedFifo RingGoesOn
CHECK_DEADLOCK FALSE
