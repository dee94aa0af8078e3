----------------------------- MODULE MCPrograms -----------------------------
(***************************************************************************)
(* One run for the small programs, the buffer with a minimum and a maximum *)
(* and the algorithms.  All of them are in an initial state, "running"     *)
(* says which one takes steps.                                             *)
(***************************************************************************)
EXTENDS SignalBuffer, Programs

VARIABLES running, algorithm, input, output, ran

countAll == <<counting, increments, counter, lockedBy, main, at, left,
              loaded, printed>>
semAll   == <<semProgram, tokens, stage, toSend, inside, runs>>
mqAll    == <<mqProgram, server, starts, named, generation, serverQueue, msgs,
              workers, clientQueue, replies, client, clientRuns, killed,
              serverFaults, together>>
msgAll   == <<names, made, full, empty, semMutex, numMessages, prod, cons,
              prodStarts, consStarts, reused, mixed>>
ballAll  == <<doing, ends, inPipe>>
lockAll  == <<locking, holder, pidFile, atLock>>
tsoAll   == <<ts, rts, wts, row, col, deadlock, reads, writes, underWrite,
              underRead, readBack>>
avgAll   == <<avgProgram, avgServer, avgNamed, pipe, avgMsgs, avgThread, name,
              sum, avgClient, fifo, reply, avgPrinted, avgTogether>>
laneAll  == <<link, bridge, reading, dummy, entrance, lane, waiting>>
recAll   == <<SEM, SHM, value, sized, written, place, has, guards>>
twoAll   == <<FIFO1, FIFO2, inFIFO1, inFIFO2, p1, p2, p1Runs, p2Runs,
              p2Killed>>
batchAll == <<batch, mqName, mqMade, curmsgs, mqWriter, mqReader, rivals>>
algoAll  == <<algorithm, input, output, ran>>
bfsAll   == <<bfsEdges, bfsStart, bfsQueue, bfsVertex, bfsPlace, discovered,
              processed, bfsParent>>
topAll   == <<topEdges, indegree, zeroin, topCounter, sorted, topVertex,
              topPlace>>
primAll  == <<primEdges, intree, distance, primParent, primVertex>>
mergeAll == <<mergeArray, mergeS, calls, buffer1, buffer2, mergeCounter>>
graphAll == <<bfsAll, topAll, primAll, mergeAll>>
otherAll == <<vars, countAll, semAll, mqAll, msgAll, ballAll, lockAll, tsoAll,
              avgAll, laneAll, recAll, twoAll, batchAll>>
allVars  == <<running, otherAll, algoAll, graphAll>>

(* atoi may return a negative number of increments. *)
AskedFor == {-1, 1, 3}

Algo == INSTANCE Algorithms WITH Vertices <- 4, Edges <- 3

(* Graphs of 4 vertices and up to 3 edges; the arrays that merge sort gets
   have up to 4 numbers, or twice as many as the queues hold, or one more. *)
UndirectedGraphs == {g.edges : g \in Algo!SomeGraphs(Algo!Upward, FALSE)}
WithDirections   == {g.edges : g \in Algo!SomeGraphs(Algo!NoLoops, TRUE)}
SomeArrays       == UNION {[0 .. m - 1 -> {1, 2}] : m \in 0 .. 4}
                    \cup {[k \in 0 .. m - 1 |-> (k * d + d \div 2) % 5] :
                             m \in {8, 9}, d \in 1 .. 4}
NoEdges          == [x \in 1 .. nvertices |-> <<>>]

Systems  == {"SignalBuffer", "Counter", "MqSemaphore", "MqServer",
             "MessageCounter", "PingPong", "FileLock", "Tso",
             "AverageServer", "SingleLane", "SharedRecords", "TwoFifos",
             "MqBatch", "Algorithms", "Bfs", "Topsort", "Prim", "MergeSort"}

(* What is not running starts in one of its initial states only. *)
Resting ==
  /\ running # "SignalBuffer" => program = "practice3b"
  /\ running # "Counter"      => counting = "thread1" /\ increments = 1
  /\ running # "MqSemaphore"  => semProgram = "test"
  /\ running # "MqServer"     => mqProgram = "mqserver1"
  /\ running # "FileLock"     => locking = "filelock"
  /\ running # "Tso"          => ts = <<1, 1>>
  /\ running # "AverageServer" => avgProgram = "fifoserver"
  /\ running # "MqBatch"      => batch = "mqread"
  /\ running # "Bfs"          => bfsEdges = NoEdges /\ bfsStart = 1
  /\ running # "Topsort"      => topEdges = NoEdges
  /\ running # "Prim"         => primEdges = NoEdges
  /\ running # "MergeSort"    => mergeArray = <<>>

ProgramsInit ==
  /\ running \in Systems
  /\ Resting
  /\ Init /\ Count!CountInit /\ Sem!SemInit /\ Mq!MqInit /\ Msg!MsgInit
  /\ Ball!PingInit /\ Flock!LockInit /\ Tso!TsoInit
  /\ Avg!Init /\ Lane!LaneInit /\ Rec!RecordInit
  /\ Two!TwoInit /\ Batch!BatchInit
  /\ Bfs!BfsInit /\ Top!TopInit /\ Prim!PrimInit /\ Merge!MergeInit
  /\ IF running = "Algorithms" THEN Algo!AlgoInit
     ELSE algorithm = "bfs" /\ input = <<>> /\ output = <<>> /\ ran = FALSE

ProgramsNext ==
  \/ /\ running = "SignalBuffer" /\ Next
     /\ UNCHANGED <<running, countAll, semAll, mqAll, msgAll, ballAll,
                    lockAll, tsoAll, avgAll, laneAll, recAll,
                    twoAll, batchAll, algoAll, graphAll>>
  \/ /\ running = "Counter" /\ Count!CountNext
     /\ UNCHANGED <<running, vars, semAll, mqAll, msgAll, ballAll,
                    lockAll, tsoAll, avgAll, laneAll, recAll,
                    twoAll, batchAll, algoAll, graphAll>>
  \/ /\ running = "MqSemaphore" /\ Sem!SemNext
     /\ UNCHANGED <<running, vars, countAll, mqAll, msgAll, ballAll,
                    lockAll, tsoAll, avgAll, laneAll, recAll,
                    twoAll, batchAll, algoAll, graphAll>>
  \/ /\ running = "MqServer" /\ Mq!MqNext
     /\ UNCHANGED <<running, vars, countAll, semAll, msgAll, ballAll,
                    lockAll, tsoAll, avgAll, laneAll, recAll,
                    twoAll, batchAll, algoAll, graphAll>>
  \/ /\ running = "MessageCounter" /\ Msg!MsgNext
     /\ UNCHANGED <<running, vars, countAll, semAll, mqAll, ballAll,
                    lockAll, tsoAll, avgAll, laneAll, recAll,
                    twoAll, batchAll, algoAll, graphAll>>
  \/ /\ running = "PingPong" /\ Ball!PingNext
     /\ UNCHANGED <<running, vars, countAll, semAll, mqAll, msgAll,
                    lockAll, tsoAll, avgAll, laneAll, recAll,
                    twoAll, batchAll, algoAll, graphAll>>
  \/ /\ running = "FileLock" /\ Flock!LockNext
     /\ UNCHANGED <<running, vars, countAll, semAll, mqAll, msgAll,
                    ballAll, tsoAll, avgAll, laneAll, recAll,
                    twoAll, batchAll, algoAll, graphAll>>
  \/ /\ running = "Tso" /\ Tso!TsoNext
     /\ UNCHANGED <<running, vars, countAll, semAll, mqAll, msgAll,
                    ballAll, lockAll, avgAll, laneAll, recAll,
                    twoAll, batchAll, algoAll, graphAll>>
  \/ /\ running = "AverageServer" /\ Avg!Next
     /\ UNCHANGED <<running, vars, countAll, semAll, mqAll, msgAll,
                    ballAll, lockAll, tsoAll, laneAll, recAll,
                    twoAll, batchAll, algoAll, graphAll>>
  \/ /\ running = "SingleLane" /\ Lane!LaneNext
     /\ UNCHANGED <<running, vars, countAll, semAll, mqAll, msgAll,
                    ballAll, lockAll, tsoAll, avgAll, recAll,
                    twoAll, batchAll, algoAll, graphAll>>
  \/ /\ running = "SharedRecords" /\ Rec!RecordNext
     /\ UNCHANGED <<running, vars, countAll, semAll, mqAll, msgAll,
                    ballAll, lockAll, tsoAll, avgAll, laneAll,
                    twoAll, batchAll, algoAll, graphAll>>
  \/ /\ running = "TwoFifos" /\ Two!TwoNext
     /\ UNCHANGED <<running, vars, countAll, semAll, mqAll, msgAll,
                    ballAll, lockAll, tsoAll, avgAll, laneAll, recAll,
                    batchAll, algoAll, graphAll>>
  \/ /\ running = "MqBatch" /\ Batch!BatchNext
     /\ UNCHANGED <<running, vars, countAll, semAll, mqAll, msgAll,
                    ballAll, lockAll, tsoAll, avgAll, laneAll, recAll,
                    twoAll, algoAll, graphAll>>
  \/ /\ running = "Algorithms" /\ Algo!AlgoNext
     /\ UNCHANGED <<running, vars, countAll, semAll, mqAll, msgAll,
                    ballAll, lockAll, tsoAll, avgAll, laneAll, recAll,
                    twoAll, batchAll, graphAll>>
  \/ /\ running = "Bfs" /\ Bfs!BfsNext
     /\ UNCHANGED <<running, otherAll, algoAll, topAll, primAll, mergeAll>>
  \/ /\ running = "Topsort" /\ Top!TopNext
     /\ UNCHANGED <<running, otherAll, algoAll, bfsAll, primAll, mergeAll>>
  \/ /\ running = "Prim" /\ Prim!AddVertex
     /\ UNCHANGED <<running, otherAll, algoAll, bfsAll, topAll, mergeAll>>
  \/ /\ running = "MergeSort" /\ Merge!MergeNext
     /\ UNCHANGED <<running, otherAll, algoAll, bfsAll, topAll, primAll>>

(* The fairness of the modules whose liveness is checked. *)
ProgramsFairness ==
  /\ WF_mqAll(running = "MqServer" /\ Mq!Receive)
  /\ \A r \in Mq!Runs : WF_mqAll(running = "MqServer" /\ Mq!ThreadWorks(r))
  /\ \A c \in Clients : WF_mqAll(running = "MqServer" /\ Mq!ClientWorks(c))
  /\ WF_ballAll(running = "PingPong" /\ Ball!Child)
  /\ WF_ballAll(running = "PingPong" /\ Ball!Parent)
  /\ \A e \in Entrances :
       WF_laneAll(running = "SingleLane" /\ Lane!Writes(e))
  /\ WF_twoAll(running = "TwoFifos" /\ Two!P1Steps)
  /\ WF_twoAll(running = "TwoFifos" /\ Two!P2Steps)
  /\ WF_batchAll(running = "MqBatch" /\ \E w \in MqWriters : Batch!Send(w))
  /\ WF_batchAll(running = "MqBatch"
                   /\ \E r \in MqReaders : Batch!ReaderWorks(r))
  /\ WF_bfsAll(running = "Bfs" /\ Bfs!BfsNext)
  /\ WF_topAll(running = "Topsort" /\ Top!TopNext)
  /\ WF_primAll(running = "Prim" /\ Prim!AddVertex)
  /\ WF_mergeAll(running = "MergeSort" /\ Merge!MergeNext)

ProgramsSpec == ProgramsInit /\ [][ProgramsNext]_allVars /\ ProgramsFairness
-----------------------------------------------------------------------------
(* See Algorithms: each algorithm returns what its reference asks for. *)
AgreesWithReference == Algo!AgreesWithReference
=============================================================================
