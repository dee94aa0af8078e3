------------------------------ MODULE Programs ------------------------------
(***************************************************************************)
(* The small programs that share nothing with each other, and what is      *)
(* expected of each of them.                                               *)
(***************************************************************************)
EXTENDS Integers, Sequences, FiniteSets, Queue

CONSTANTS CounterThreads, Processes, Clients, LockPids, Items, Entrances,
          Bridges, Writers, Readers, MqWriters, MqReaders,
          MaxRuns, MSG_COUNT, MaxProducers, MaxConsumers, Stamps, NumRows,
          ARRAY_SIZE, NAMES, Increments, MaxStarts, MaxClientRuns,
          MaxP1, MaxP2, MaxLines,
          nvertices, Graphs, DirectedGraphs, Arrays   (* see the modules *)

(* What stands for nobody and nothing is no thread, client, pid or program, a
   program is not its own peer, and there are two threads at least to count. *)
ASSUME CounterAssumption == /\ Increments \subseteq Int
                            /\ IsFiniteSet(CounterThreads)
                            /\ \E t, u \in CounterThreads : t # u
                            /\ "nobody" \notin CounterThreads
ASSUME ClientAssumption  == /\ {"none", "torn", "/mqclient"} \cap Clients = {}
                            /\ MaxClientRuns \in Nat
ASSUME FifoAssumption    == MaxP1 \in Nat /\ MaxP2 \in Nat /\ MaxLines \in Nat
ASSUME LockAssumption    == "none" \notin LockPids
ASSUME TsoAssumption     == Stamps \subseteq Nat
ASSUME RecordAssumption  == /\ ARRAY_SIZE \in Nat /\ IsFiniteSet(Writers)
                            /\ "nothing" \notin Writers
                            /\ Writers \cap Readers = {}
ASSUME MessageAssumption == MSG_COUNT \in Nat /\ MaxProducers \in Nat
ASSUME BatchAssumption   == /\ NAMES \in Nat \ {0}
                            /\ IsFiniteSet(MqWriters) /\ IsFiniteSet(MqReaders)
                            /\ MqWriters \cap MqReaders = {}
ASSUME BoundAssumption   == /\ MaxRuns \in Nat /\ MaxConsumers \in Nat
                            /\ MaxStarts \in Nat /\ NumRows \in Nat
ASSUME QueueAssumption   == QUEUESIZE \in Nat \ {0}
ASSUME GraphAssumption   ==
  /\ nvertices \in Nat \ {0} /\ nvertices <= QUEUESIZE
  /\ Graphs \subseteq [1 .. nvertices -> Seq(1 .. nvertices)]
  /\ DirectedGraphs \subseteq [1 .. nvertices -> Seq(1 .. nvertices)]
ASSUME ArrayAssumption   ==
  \A a \in Arrays : LET m == Cardinality(DOMAIN a)
                    IN  m \in Nat /\ a \in [0 .. m - 1 -> Int]

VARIABLES
  counting, increments, counter, lockedBy, main, at, left, loaded, printed,
  semProgram, tokens, stage, toSend, inside, runs,
  mqProgram, server, starts, named, generation, serverQueue, msgs, workers,
  clientQueue, replies, client, clientRuns, killed, serverFaults, together,
  names, made, full, empty, semMutex, numMessages, prod, cons, prodStarts,
  consStarts, reused, mixed,
  doing, ends, inPipe,
  locking, holder, pidFile, atLock,
  ts, rts, wts, row, col, deadlock, reads, writes, underWrite, underRead,
  readBack,
  avgProgram, avgServer, avgNamed, pipe, avgMsgs, avgThread, name, sum, avgClient,
  fifo, reply, avgPrinted, avgTogether,
  link, bridge, reading, dummy, entrance, lane, waiting,
  SEM, SHM, value, sized, written, place, has, guards,
  FIFO1, FIFO2, inFIFO1, inFIFO2, p1, p2, p1Runs, p2Runs, p2Killed,
  batch, mqName, mqMade, curmsgs, mqWriter, mqReader, rivals,
  bfsEdges, bfsStart, bfsQueue, bfsVertex, bfsPlace, discovered, processed,
  bfsParent,
  topEdges, indegree, zeroin, topCounter, sorted, topVertex, topPlace,
  primEdges, intree, distance, primParent, primVertex,
  mergeArray, mergeS, calls, buffer1, buffer2, mergeCounter

Count == INSTANCE Counter
Sem   == INSTANCE MqSemaphore
Mq    == INSTANCE MqServer
Msg   == INSTANCE MessageCounter
Ball  == INSTANCE PingPong
Flock == INSTANCE FileLock
Tso   == INSTANCE Tso
Lane  == INSTANCE SingleLane WITH PIPE_SIZE <- 2
Rec   == INSTANCE SharedRecords
Two   == INSTANCE TwoFifos
Batch == INSTANCE MqBatch
Avg   == INSTANCE AverageServer
           WITH program <- avgProgram, server <- avgServer,
                named <- avgNamed, msgs <- avgMsgs, client <- avgClient,
                thread <- avgThread,
                printed <- avgPrinted, together <- avgTogether
Bfs   == INSTANCE Bfs
           WITH edges <- bfsEdges, start <- bfsStart, q <- bfsQueue,
                v <- bfsVertex, p <- bfsPlace, parent <- bfsParent
Top   == INSTANCE Topsort
           WITH Graphs <- DirectedGraphs, edges <- topEdges, i <- topCounter,
                x <- topVertex, p <- topPlace
Prim  == INSTANCE Prim
           WITH edges <- primEdges, parent <- primParent, v <- primVertex
Merge == INSTANCE MergeSort
           WITH array <- mergeArray, s <- mergeS, i <- mergeCounter
-----------------------------------------------------------------------------
(* See Counter: with a mutex the last number printed is the sum. *)
PrintedCountIsSum == Count!PrintedCountIsSum

(* See MqSemaphore: a run adds its tokens once and no step adds more. *)
OneTokenPerRun == Sem!OneTokenPerRun

(* See MqServer, AverageServer and TwoFifos: a client prints what was computed
   from its own request. *)
PrintsOwnReply ==
  Mq!PrintsOwnReply /\ Avg!PrintsOwnUnlessTogether /\ Two!PrintsOwnLine

(* See MqServer and TwoFifos: a client that sent a request gets an answer;
   see MqBatch: a writer gets its messages into a queue that is read. *)
ClientIsAnswered ==
  Mq!ClientIsAnswered /\ Two!TextsAreAnswered /\ Batch!WriterFinishes

(* See MqBatch: the messages that a reader has counted stay for it. *)
CountedMessagesRemain == Batch!CountedMessagesRemain

(* See MessageCounter: numMessages stays between 0 and its maximum. *)
NumMessagesInRange == Msg!NumMessagesInRange

(* See PingPong and SingleLane: the end of one process ends the other; see Bfs,
   Topsort, Prim and MergeSort: their loops and calls end. *)
EndIsReached == /\ Ball!EndReachesTheOther /\ Lane!BridgeEndReachesEntrances
                /\ Bfs!SearchEnds /\ Top!TopsortEnds
                /\ Prim!PrimEnds /\ Merge!MergeSortEnds

(* See SharedRecords: no reader finds an array half written. *)
ReadsAllOrNothing == Rec!ReadsAllOrNothing

(* See FileLock: one process past the lock, named by the pid file. *)
OneInstance == Flock!OneInstance

(* See Tso: operations are accepted in the order of the timestamps. *)
AcceptedInTimestampOrder == Tso!AcceptedInTimestampOrder

(* See Bfs and Prim: both find just what can be reached from the start, the
   search along shortest paths. *)
ReachesFromStart == Bfs!FindsShortestPaths /\ Prim!SpansFromStart

(* See Topsort and MergeSort: what no cycle leads to is sorted, after its
   predecessors, and so is an array whose halves fit into the queues. *)
Sorts == Top!SortsVertices /\ Merge!SortsArray

(* The types of the modules. *)
TypesOK == /\ Count!CountTypeOK /\ Sem!SemTypeOK /\ Mq!MqTypeOK /\ Msg!MsgTypeOK
           /\ Ball!PingTypeOK /\ Flock!LockTypeOK /\ Tso!TsoTypeOK /\ Avg!TypeOK
           /\ Lane!LaneTypeOK /\ Rec!RecordTypeOK /\ Two!TwoTypeOK
           /\ Batch!BatchTypeOK /\ Bfs!BfsTypeOK /\ Top!TopTypeOK
           /\ Prim!PrimTypeOK /\ Merge!MergeTypeOK
=============================================================================
