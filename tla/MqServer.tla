------------------------------ MODULE MqServer ------------------------------
(***************************************************************************)
(* The message-queue servers of practice/practice5b and their clients:     *)
(*                                                                         *)
(*   mqserver1              with mqclient1: all clients read one queue     *)
(*   mqserver2              with mqclient2: each client reads its own      *)
(*   mqserver_multithread   with mqclient2: a thread answers each request, *)
(*                          all threads read the one variable msgs         *)
(*                                                                         *)
(* A queue is found by its name; after mq_unlink those who have it open    *)
(* still use it, and the name may come to mean another queue.  A request   *)
(* is the client's run that sent it, a reply is the request it was         *)
(* computed from.  Servers and clients may be stopped, killed and started  *)
(* again.  Fewer requests are under way than a queue holds messages        *)
(* (MSG_COUNT), so that mq_send never waits.                               *)
(***************************************************************************)
EXTENDS Integers, Sequences, FiniteSets

CONSTANTS Clients,      (* the clients, by the id argv gives mqclient2     *)
          MaxStarts,    (* bound: how often a server is started            *)
          MaxClientRuns (* bound: how often clients are started            *)

VARIABLES
  mqProgram,     (* the server that runs                                   *)
  server,        (* "off" or "on"                                          *)
  starts,        (* how often it was started                               *)
  named,         (* whether the name /mqserver exists                      *)
  generation,    (* which queue it means: another one after each unlink    *)
  serverQueue,   (* the requests in that queue                             *)
  msgs,          (* the variable msgs (buffer) of the server's main        *)
  workers,       (* what is done about the request of each client run      *)
  clientQueue,   (* the queue that each client queue name means, or 0      *)
  replies,       (* the replies in the queue that each client run made     *)
  client,        (* what each client does                                  *)
  clientRuns,    (* how often clients were started                         *)
  killed,        (* clients that were killed at some time                  *)
  serverFaults,  (* the server was stopped or killed at some time          *)
  together       (* two clients ran at the same time at some time          *)

serverVars == <<server, starts, named, generation, serverQueue, msgs, workers>>
clientVars == <<client, clientRuns>>
queueVars  == <<clientQueue, replies>>
ghostVars  == <<killed, serverFaults, together>>
mqVars     == <<mqProgram, serverVars, clientVars, queueVars, ghostVars>>
-----------------------------------------------------------------------------
Mqclient1 == [ownQueue |-> FALSE, cleansUp |-> FALSE]
Mqclient2 == [ownQueue |-> TRUE, cleansUp |-> TRUE]

(* Fault: threads that read msgs, in the server whose clients may overlap. *)
Mqserver2Threaded == [threads |-> TRUE, client |-> Mqclient2]

Mqserver1           == [threads |-> FALSE, client |-> Mqclient1]
Mqserver2           == [threads |-> FALSE, client |-> Mqclient2]
MqserverMultithread == [threads |-> TRUE, client |-> Mqclient2]

mq == CASE mqProgram = "mqserver1"            -> Mqserver1
        [] mqProgram = "mqserver2"            -> Mqserver2
        [] mqProgram = "mqserver_multithread" -> MqserverMultithread

CLIENT_MQ_WITHOUT_ID(id) == "/mqclient"   (* fault: one name for all *)

CLIENT_MQ(id) == IF mq.client.ownQueue THEN id ELSE "/mqclient"
Names == Clients \cup {"/mqclient"}
Runs  == 1 .. MaxClientRuns

None    == [id |-> "none", run |-> 0]
Torn    == [id |-> "torn", run |-> 0]   (* read while main overwrote msgs *)
Request == [id : Clients, run : Runs]

NoWorker  == [at |-> "none", mqdc |-> 0, half |-> None]
OffClient == [at |-> "off", run |-> 0, mqdc |-> 0, mqds |-> 0, got |-> None]

MqInit ==
  /\ mqProgram \in {"mqserver1", "mqserver2", "mqserver_multithread"}
  /\ server = "off" /\ starts = 0
  /\ named = FALSE /\ generation = 1 /\ serverQueue = <<>>
  /\ msgs = None /\ workers = [r \in Runs |-> NoWorker]
  /\ clientQueue = [n \in Names |-> 0] /\ replies = [r \in Runs |-> <<>>]
  /\ client = [c \in Clients |-> OffClient] /\ clientRuns = 0
  /\ killed = {} /\ serverFaults = FALSE /\ together = FALSE
-----------------------------------------------------------------------------
(* The server.  mq_open with O_CREAT finds the queue that a killed server
   left behind, with the requests in it. *)

ServerStarts == /\ server = "off" /\ starts < MaxStarts
                /\ server' = "on" /\ starts' = starts + 1
                /\ named' = TRUE
                /\ UNCHANGED <<mqProgram, generation, serverQueue, msgs,
                               workers, clientVars, queueVars, ghostVars>>

(* cleanup at exit removes the name, and nobody reads the queue any more. *)
ServerExits == /\ server' = "off" /\ named' = FALSE
               /\ generation' = generation + 1 /\ serverQueue' = <<>>
               /\ msgs' = None /\ workers' = [r \in Runs |-> NoWorker]
               /\ UNCHANGED <<mqProgram, starts, clientVars, queueVars,
                              killed, together>>

Interrupted == /\ server = "on" /\ ServerExits /\ serverFaults' = TRUE

ServerKilled == /\ server = "on" /\ server' = "off"
                /\ serverFaults' = TRUE
                /\ msgs' = None /\ workers' = [r \in Runs |-> NoWorker]
                /\ UNCHANGED <<mqProgram, starts, named, generation,
                               serverQueue, clientVars, queueVars,
                               killed, together>>

Busy == \E r \in Runs : workers[r].at # "none"

Receive == /\ server = "on" /\ serverQueue # <<>>
           /\ mq.threads \/ ~Busy
           /\ msgs' = Head(serverQueue)
           /\ serverQueue' = Tail(serverQueue)
           /\ workers' = [workers EXCEPT ![msgs'.run].at = "open"]
           /\ UNCHANGED <<mqProgram, server, starts, named, generation,
                          clientVars, queueVars, ghostVars>>

WorkerStep(r) == UNCHANGED <<mqProgram, server, starts, named, generation,
                             serverQueue, msgs, clientVars, clientQueue,
                             ghostVars>>

(* The client queue is looked up by the id that msgs holds now; if its name
   is gone the server exits. *)
OpenClientQueue(r) ==
  /\ workers[r].at = "open"
  /\ LET q == clientQueue[CLIENT_MQ(msgs.id)]
     IN IF q = 0
        THEN ServerExits /\ UNCHANGED serverFaults
        ELSE /\ workers' = [workers EXCEPT ![r] =
                              [at |-> "average", mqdc |-> q, half |-> msgs]]
             /\ WorkerStep(r) /\ UNCHANGED replies

(* average() goes through the numbers of msgs, which another request may
   replace under way. *)
Average(r) ==
  /\ workers[r].at = "average"
  /\ \E half \in {workers[r].half, msgs} :
       workers' = [workers EXCEPT ![r].at = "send",
                                  ![r].half = IF half = msgs THEN msgs
                                              ELSE Torn]
  /\ WorkerStep(r) /\ UNCHANGED replies

Reply(r) ==
  /\ workers[r].at = "send"
  /\ replies' = [replies EXCEPT ![workers[r].mqdc] =
                   Append(@, workers[r].half)]
  /\ workers' = [workers EXCEPT ![r] = NoWorker]
  /\ WorkerStep(r)
-----------------------------------------------------------------------------
(* The clients. *)

ClientStep(c) == UNCHANGED <<mqProgram, server, starts, named, generation,
                             msgs, workers, clientRuns>>

Unlink(c) == clientQueue' = [clientQueue EXCEPT ![CLIENT_MQ(c)] = 0]

(* mq_open with O_CREAT of the queue for the reply, which may be there. *)
ClientStarts(c) ==
  /\ client[c].at = "off" /\ clientRuns < MaxClientRuns
  /\ clientRuns' = clientRuns + 1
  /\ LET q == clientQueue[CLIENT_MQ(c)]
         mqdc == IF q = 0 THEN clientRuns' ELSE q
     IN /\ clientQueue' = [clientQueue EXCEPT ![CLIENT_MQ(c)] = mqdc]
        /\ client' = [client EXCEPT ![c] =
                        [at |-> "connect", run |-> clientRuns', mqdc |-> mqdc,
                         mqds |-> 0, got |-> None]]
  /\ together' = (together \/ \E d \in Clients \ {c} : client[d].at # "off")
  /\ UNCHANGED <<mqProgram, serverVars, replies, killed, serverFaults>>

(* mq_open of the server's queue; without it the client exits, and only
   mqclient2 has a cleanup that removes its queue then. *)
Connect(c) ==
  /\ client[c].at = "connect"
  /\ IF named
     THEN /\ client' = [client EXCEPT ![c].at = "send", ![c].mqds = generation]
          /\ UNCHANGED clientQueue
     ELSE /\ client' = [client EXCEPT ![c] = OffClient]
          /\ IF mq.client.cleansUp THEN Unlink(c) ELSE UNCHANGED clientQueue
  /\ ClientStep(c) /\ UNCHANGED <<serverQueue, replies, ghostVars>>

Send(c) ==
  /\ client[c].at = "send"
  /\ serverQueue' = IF client[c].mqds = generation
                    THEN Append(serverQueue, [id |-> c, run |-> client[c].run])
                    ELSE serverQueue
  /\ client' = [client EXCEPT ![c].at = "receive"]
  /\ ClientStep(c) /\ UNCHANGED <<queueVars, ghostVars>>

ReceiveReply(c) ==
  /\ client[c].at = "receive" /\ replies[client[c].mqdc] # <<>>
  /\ client' = [client EXCEPT ![c].at = "exit",
                              ![c].got = Head(replies[client[c].mqdc])]
  /\ replies' = [replies EXCEPT ![client[c].mqdc] = Tail(@)]
  /\ ClientStep(c) /\ UNCHANGED <<serverQueue, clientQueue, ghostVars>>

ClientExits(c) ==
  /\ client[c].at = "exit"
  /\ client' = [client EXCEPT ![c] = OffClient] /\ Unlink(c)
  /\ ClientStep(c) /\ UNCHANGED <<serverQueue, replies, ghostVars>>

ClientKilled(c) ==
  /\ client[c].at # "off"
  /\ client' = [client EXCEPT ![c] = OffClient]
  /\ killed' = killed \cup {c}
  /\ ClientStep(c)
  /\ UNCHANGED <<serverQueue, queueVars, serverFaults, together>>
-----------------------------------------------------------------------------
ThreadWorks(r) == OpenClientQueue(r) \/ Average(r) \/ Reply(r)
ClientWorks(c) == Connect(c) \/ Send(c) \/ ReceiveReply(c) \/ ClientExits(c)

MqNext == \/ ServerStarts \/ Interrupted \/ ServerKilled \/ Receive
          \/ \E r \in Runs : ThreadWorks(r)
          \/ \E c \in Clients : \/ ClientStarts(c) \/ ClientKilled(c)
                                \/ ClientWorks(c)

(* The scheduler lets a process run that can, and the kernel hands a message
   over; nobody has to start, stop or kill anything. *)
MqFairness == /\ WF_mqVars(Receive)
              /\ \A r \in Runs : WF_mqVars(ThreadWorks(r))
              /\ \A c \in Clients : WF_mqVars(ClientWorks(c))

MqSpec == MqInit /\ [][MqNext]_mqVars /\ MqFairness
-----------------------------------------------------------------------------
MqTypeOK ==
  /\ mqProgram \in {"mqserver1", "mqserver2", "mqserver_multithread"}
  /\ server \in {"off", "on"} /\ starts \in 0 .. MaxStarts
  /\ named \in BOOLEAN /\ generation \in 1 .. MaxStarts + 1
  /\ serverQueue \in Seq(Request) /\ msgs \in Request \cup {None}
  /\ workers \in [Runs -> [at : {"none", "open", "average", "send"},
                           mqdc : {0} \cup Runs,
                           half : Request \cup {None, Torn}]]
  /\ clientQueue \in [Names -> {0} \cup Runs]
  /\ \A r \in Runs : replies[r] \in Seq(Request \cup {Torn})
  /\ client \in [Clients -> [at : {"off", "connect", "send", "receive", "exit"},
                             run : {0} \cup Runs, mqdc : {0} \cup Runs,
                             mqds : Nat, got : Request \cup {None, Torn}]]
  /\ clientRuns \in {0} \cup Runs
  /\ killed \subseteq Clients /\ serverFaults \in BOOLEAN
  /\ together \in BOOLEAN

(* A client prints the average of its own numbers (mqclient2.c 169): with
   mqserver2 however the server and the other clients stop and start, as long
   as the client itself was not killed in an earlier run, which leaves a
   reply in its queue.  The shared queue of mqserver1 and the shared variable
   of mqserver_multithread give so much only to clients that never run at
   the same time. *)
PrintsOwnReply ==
  \A c \in Clients :
    /\ client[c].at = "exit"
    /\ IF mqProgram = "mqserver2" THEN c \notin killed
                                  ELSE killed = {} /\ ~together
    => client[c].got = [id |-> c, run |-> client[c].run]

(* Under the same conditions, and if nobody stops the server, each client
   that sent a request gets an answer; the server does not exit by itself. *)
Undisturbed == /\ killed = {} /\ ~serverFaults
               /\ mqProgram = "mqserver2" \/ ~together

ClientIsAnswered ==
  \A c \in Clients :
    client[c].at = "receive" ~> client[c].at # "receive" \/ ~Undisturbed
=============================================================================
