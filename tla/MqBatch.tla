------------------------------ MODULE MqBatch ------------------------------
(***************************************************************************)
(* Writers that put messages into a POSIX message queue and readers that   *)
(* take them out:                                                          *)
(*                                                                         *)
(*   mqread    ipc/mq/mqwrite.c and mqread.c: one message a writer; a      *)
(*             reader takes as many as it has counted, and its exit        *)
(*             handler removes the queue's name                            *)
(*   example   ipc/mq/example: four messages a writer, no exit handler     *)
(*   mqname    practice/practice5b/mqname_send.c and mqnamereceive.c:      *)
(*             twice as many messages as the queue holds, which only the   *)
(*             reader makes; it reads for ever                             *)
(*                                                                         *)
(* A queue is named by the number of the mq_open that made it; who has it  *)
(* open goes on using it without its name.  What the messages say and      *)
(* their priorities are left out: they are only printed.                   *)
(***************************************************************************)
EXTENDS Naturals, FiniteSets

CONSTANTS MqWriters, MqReaders,  (* the executions of the programs         *)
          NAMES                  (* MSG_COUNT and ARRAY_SIZE, 10 in mqname *)

VARIABLES
  batch,       (* which programs run                                       *)
  mqName,      (* the queue that the name means, or 0                      *)
  mqMade,      (* queues made so far                                       *)
  curmsgs,     (* the number of messages in each queue                     *)
  mqWriter,    (* where each writer is, its queue, how many it will send   *)
  mqReader,    (* where each reader is, its queue, how many it will take   *)
  rivals       (* history: for each reader, whether another one has taken
                  messages from its queue since it counted them            *)

batchVars == <<batch, mqName, mqMade, curmsgs, mqWriter, mqReader, rivals>>

(* Bound: one writer of example and mqname runs, each sends several. *)
OneWriter == {CHOOSE w \in MqWriters : TRUE}

Mqread  == [maxmsg |-> 10, sends |-> 1, writerMakes |-> TRUE,
            counts |-> TRUE, unlinks |-> TRUE, writers |-> MqWriters]
Example == [maxmsg |-> 5, sends |-> 4, writerMakes |-> TRUE,
            counts |-> TRUE, unlinks |-> FALSE, writers |-> OneWriter]
Mqname  == [maxmsg |-> NAMES, sends |-> 2 * NAMES, writerMakes |-> FALSE,
            counts |-> FALSE, unlinks |-> FALSE, writers |-> OneWriter]

prog == CASE batch = "mqread"  -> Mqread
          [] batch = "example" -> Example
          [] batch = "mqname"  -> Mqname

Queues  == 1 .. Cardinality(MqWriters \cup MqReaders)
Forever == 1   (* what a reader that does not count has left, always *)
Idle    == [at |-> "off", mqd |-> 0, left |-> 0]

BatchInit == /\ batch \in {"mqread", "example", "mqname"}
             /\ mqName = 0 /\ mqMade = 0
             /\ curmsgs = [q \in Queues |-> 0]
             /\ mqWriter = [w \in MqWriters |-> Idle]
             /\ mqReader = [r \in MqReaders |-> Idle]
             /\ rivals = {}
-----------------------------------------------------------------------------
(* mq_open finds the queue by its name, or makes one, or fails. *)
Opened(makes) == IF mqName = 0 /\ makes THEN mqMade + 1 ELSE mqName

OpenQueue(makes) == /\ mqName' = Opened(makes)
                    /\ mqMade' = IF Opened(makes) > mqMade THEN mqMade + 1
                                                           ELSE mqMade

WriterOpens(w) ==
  /\ mqWriter[w].at = "off" /\ w \in prog.writers
  /\ OpenQueue(prog.writerMakes)
  /\ mqWriter' = [mqWriter EXCEPT ![w] =
       IF mqName' = 0 THEN [Idle EXCEPT !.at = "end"]
       ELSE [at |-> "send", mqd |-> mqName', left |-> prog.sends]]
  /\ UNCHANGED <<batch, curmsgs, mqReader, rivals>>

(* mq_send waits while the queue is full. *)
Send(w) ==
  LET q == mqWriter[w].mqd IN
  /\ mqWriter[w].at = "send" /\ curmsgs[q] < prog.maxmsg
  /\ curmsgs' = [curmsgs EXCEPT ![q] = @ + 1]
  /\ mqWriter' = [mqWriter EXCEPT ![w].left = @ - 1,
                                  ![w].at = IF mqWriter[w].left = 1 THEN "end"
                                                                    ELSE @]
  /\ UNCHANGED <<batch, mqName, mqMade, mqReader, rivals>>

WriterDies(w) == /\ mqWriter[w].at = "send"
                 /\ mqWriter' = [mqWriter EXCEPT ![w].at = "end"]
                 /\ UNCHANGED <<batch, mqName, mqMade, curmsgs, mqReader, rivals>>
-----------------------------------------------------------------------------
(* exit runs cleanup, which removes the name whatever queue it means; the end
   of main does so, too. *)
Exits(r) ==
  /\ mqReader' = [mqReader EXCEPT ![r].at = "end"]
  /\ mqName' = IF prog.unlinks THEN 0 ELSE mqName

ReaderOpens(r) ==
  /\ mqReader[r].at = "off"
  /\ IF mqName = 0 /\ prog.counts
     THEN /\ mqReader' = [mqReader EXCEPT ![r].at = "exit"]
          /\ UNCHANGED <<mqName, mqMade>>
     ELSE /\ OpenQueue(~prog.counts)
          /\ mqReader' = [mqReader EXCEPT ![r].mqd = mqName',
                ![r].at = IF prog.counts THEN "count" ELSE "receive",
                ![r].left = IF prog.counts THEN 0 ELSE Forever]
  /\ UNCHANGED <<batch, curmsgs, mqWriter, rivals>>

(* mq_getattr *)
Count(r) ==
  /\ mqReader[r].at = "count"
  /\ mqReader' = [mqReader EXCEPT ![r].at = "receive",
                                  ![r].left = curmsgs[mqReader[r].mqd]]
  /\ UNCHANGED <<batch, mqName, mqMade, curmsgs, mqWriter, rivals>>

TakesAll(n) == n   (* fault: the loop variable is not advanced *)
TakesOne(n) == n - 1

(* mq_receive waits while the queue is empty. *)
Receive(r) ==
  LET q == mqReader[r].mqd IN
  /\ mqReader[r].at = "receive" /\ mqReader[r].left > 0 /\ curmsgs[q] > 0
  /\ curmsgs' = [curmsgs EXCEPT ![q] = @ - 1]
  /\ mqReader' = IF prog.counts
                 THEN [mqReader EXCEPT ![r].left = TakesOne(@)]
                 ELSE mqReader
  /\ rivals' = rivals \cup {s \in MqReaders \ {r} :
                              mqReader[s].at = "receive" /\ mqReader[s].mqd = q}
  /\ UNCHANGED <<batch, mqName, mqMade, mqWriter>>

(* At the end of main, or after an open that failed, when somebody may have
   made the queue. *)
ReaderEnds(r) == /\ \/ mqReader[r].at = "receive" /\ mqReader[r].left = 0
                    \/ mqReader[r].at = "exit"
                 /\ Exits(r)
                 /\ UNCHANGED <<batch, mqMade, curmsgs, mqWriter, rivals>>

(* SIGINT exits, SIGKILL does not. *)
ReaderDies(r) ==
  /\ mqReader[r].at \in {"count", "receive", "exit"}
  /\ \/ Exits(r)
     \/ mqReader' = [mqReader EXCEPT ![r].at = "end"] /\ UNCHANGED mqName
  /\ UNCHANGED <<batch, mqMade, curmsgs, mqWriter, rivals>>

ReaderWorks(r) == Count(r) \/ Receive(r) \/ ReaderEnds(r)

BatchNext == \/ \E w \in MqWriters : WriterOpens(w) \/ Send(w) \/ WriterDies(w)
             \/ \E r \in MqReaders :
                  ReaderOpens(r) \/ ReaderWorks(r) \/ ReaderDies(r)

BatchSpec == /\ BatchInit /\ [][BatchNext]_batchVars
             /\ WF_batchVars(\E w \in MqWriters : Send(w))
             /\ WF_batchVars(\E r \in MqReaders : ReaderWorks(r))
-----------------------------------------------------------------------------
BatchTypeOK ==
  /\ batch \in {"mqread", "example", "mqname"}
  /\ mqName \in 0 .. mqMade /\ mqMade \in Queues \cup {0}
  /\ curmsgs \in [Queues -> 0 .. prog.maxmsg]
  /\ mqWriter \in [MqWriters -> [at : {"off", "send", "end"},
                                 mqd : 0 .. mqMade, left : 0 .. prog.sends]]
  /\ mqReader \in [MqReaders -> [at : {"off", "count", "receive", "exit", "end"},
                                 mqd : 0 .. mqMade, left : 0 .. prog.maxmsg]]
  /\ rivals \subseteq MqReaders

(* A reader finds the messages that it has counted (mqread.c 57-68), whatever
   happens to the name and whoever writes, and so does not wait for others,
   unless another reader takes from the same queue meanwhile. *)
CountedMessagesRemain ==
  \A r \in MqReaders \ rivals :
    mqReader[r].at = "receive" /\ prog.counts
      => mqReader[r].left <= curmsgs[mqReader[r].mqd]

(* A writer that waits at a full queue (mqname_send.c 82: 20 messages into a
   queue of 10) gets all of its messages in while a reader reads for ever
   from it, unless it or its last reader dies. *)
SendsToReader ==
  \E w \in MqWriters, r \in MqReaders :
    /\ mqWriter[w].at = "send" /\ mqReader[r].at = "receive"
    /\ mqReader[r].mqd = mqWriter[w].mqd /\ ~prog.counts
WriterFinishes == SendsToReader ~> ~SendsToReader
=============================================================================
