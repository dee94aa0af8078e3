SPECIFICATION ProgramsSpec
CONSTANTS
  Producers = {p1, p2}
  Consumers = {c1, c2}
  min_units = 1
  max_units = 3
  CounterThreads = {t1, t2, t3}
  Processes = {r1, r2}
  Clients = {k1, k2}
  LockPids = {q1, q2, q3}
  Items = {x, y}
  Entrances = {e1, e2}
  Bridges = {b1, b2, b3}
  Writers = {w1, w2}
  Readers = {d1, d2}
  MqWriters = {u1, u2}
  MqReaders = {v1, v2}
  MaxRuns = 3
  MSG_COUNT = 2
  MaxProducers = 2
  MaxConsumers = 2
  Stamps = {1, 2}
  NumRows = 3
  ARRAY_SIZE = 2
  NAMES = 2
  Increments <- AskedFor
  MaxStarts = 2
  MaxClientRuns = 2
  MaxP1 = 3
  MaxP2 = 2
  MaxLines = 2
  QUEUESIZE = 4
  nvertices = 4
  Graphs <- UndirectedGraphs
  DirectedGraphs <- WithDirections
  Arrays <- SomeArrays
INVARIANTS
  TypesOK
  NoLostWakeUp
  PrintedCountIsSum
  OneTokenPerRun
  PrintsOwnReply
  NumMessagesInRange
  OneInstance
  ReadsAllOrNothing
  AcceptedInTimestampOrder
  CountedMessagesRemain
  ReachesFromStart
  Sorts
  AgreesWithReference
PROPERTIES
  Requirements
  ClientIsAnswered
  EndIsReached
CHECK_DEADLOCK FALSE
