SPECIFICATION Spec
CONSTANTS
  ProducerRuns = {p1}
  ConsumerRuns = {c1}
  num = 1
  BUF_SIZE = 2
  ValueSize = 1
  MaxKills = 0
INVARIANT IndicesMatchItems
CHECK_DEADLOCK FALSE
