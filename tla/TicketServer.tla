---------------------------- MODULE TicketServer ----------------------------
(***************************************************************************)
(* The servers of ipc/fifo that sell consecutive ticket numbers over named *)
(* pipes, and their clients.  A client makes a FIFO of its own, writes a   *)
(* request to the server's FIFO and reads the answer from its own.         *)
(*                                                                         *)
(*   ipc/fifo/multithread_server_fifo.c           a thread per request     *)
(*   ipc/fifo/fifoserver.c                        one request at a time    *)
(*     with ipc/fifo/fifoclient.c                                          *)
(*   ipc/fifo/example/multithread_fifo_server.c   a thread per request     *)
(*   ipc/fifo/example/fifoserver.c                one request at a time    *)
(*     with ipc/fifo/example/fifoclient.c                                  *)
(*                                                                         *)
(* Servers of one directory use the same name for their FIFO.              *)
(*                                                                         *)
(* An open of a FIFO waits for the other end, a write whose reader is gone *)
(* kills the writer with SIGPIPE, a read whose writer is gone returns 0.   *)
(* The name of the server's FIFO is shared by all executions of the server; *)
(* each execution that creates it makes a FIFO of its own.  Clients run    *)
(* with different ids.                                                     *)
(***************************************************************************)
EXTENDS Integers, Sequences, FiniteSets

CONSTANTS Servers,   (* the executions of a server                         *)
          Threaded,  (* those of a multi-threaded server                   *)
          Clients,   (* the executions of the client                       *)
          Tickets,   (* what a client may ask for                          *)
          UINT       (* the modulus of unsigned int, 2^32 in the code      *)

ASSUME TicketServerAssumption == /\ UINT \in Nat \ {0, 1}
                                 /\ Threaded \subseteq Servers
                                 /\ Tickets \subseteq 0 .. (UINT - 1)
                                 /\ IsFiniteSet(Clients)
                                 /\ "none" \notin Servers \cup Clients

None    == "none"
Word    == 0 .. (UINT - 1)
Garbage == [ticket_from |-> -1, ticket_to |-> -1]

VARIABLES
  example,      (* whether the programs of the directory example run       *)
  link,         (* the server that made the FIFO named SERVER_FIFO, or None *)
  pipe,         (* the requests in each server's FIFO                      *)
  server,       (* where each server's main thread is                      *)
  next_ticket,  (* per server                                              *)
  mutex,        (* per server: the client whose thread holds it, or None   *)
  thread,       (* where the service of each client's request is           *)
  response,     (* its local variable                                      *)
  client,       (* where each client is                                    *)
  tickets,      (* what it asks for                                        *)
  fdServer,     (* the server whose FIFO it has opened, or None            *)
  fifo,         (* the clients whose own FIFO exists                       *)
  reply,        (* the answers in each client's FIFO                       *)
  printed,      (* what each client has printed: a sequence                *)
  wrapped       (* history: the servers whose ticket counter has wrapped   *)

serverVars == <<link, pipe, server, next_ticket, mutex, thread, response, wrapped>>
clientVars == <<client, tickets, fdServer, fifo, printed>>
stepVars == <<serverVars, clientVars, reply>>
vars == <<example, stepVars>>

Responses == [ticket_from : Word, ticket_to : Word]
Unset     == Word \cup {-1}

TypeOK ==
  /\ example \in BOOLEAN
  /\ link \in Servers \cup {None}
  /\ pipe \in [Servers -> Seq(Clients)]
  /\ server \in [Servers -> {"idle", "openRead", "openWrite", "read",
                             "exited"}]
  /\ next_ticket \in [Servers -> Word]
  /\ mutex \in [Servers -> Clients \cup {None}]
  /\ thread \in [Clients -> {"none", "lock", "from", "to", "unlock", "open",
                             "write", "done"}]
  /\ response \in [Clients -> [ticket_from : Unset, ticket_to : Unset]]
  /\ client \in [Clients -> {"idle", "openServer", "opening", "write",
                             "openClient", "read", "close", "exited"}]
  /\ tickets \in [Clients -> Word]
  /\ fdServer \in [Clients -> Servers \cup {None}]
  /\ fifo \subseteq Clients
  /\ reply \in [Clients -> Seq(Responses)]
  /\ printed \in [Clients -> Seq(Responses \cup {Garbage})]
  /\ wrapped \subseteq Servers

Init ==
  /\ example \in BOOLEAN
  /\ link = None /\ wrapped = {} /\ fifo = {}
  /\ pipe = [s \in Servers |-> <<>>]
  /\ server = [s \in Servers |-> "idle"]
  /\ next_ticket = [s \in Servers |-> 1]
  /\ mutex = [s \in Servers |-> None]
  /\ thread = [c \in Clients |-> "none"]
  /\ response = [c \in Clients |-> Garbage]
  /\ client = [c \in Clients |-> "idle"]
  /\ tickets \in [Clients -> Tickets]
  /\ fdServer = [c \in Clients |-> None]
  /\ reply = [c \in Clients |-> <<>>]
  /\ printed = [c \in Clients |-> <<>>]
-----------------------------------------------------------------------------
(* The programs: how a server treats a request, and what a client checks and
   cleans up. *)

MultithreadServerFifo == [threads |-> TRUE, first |-> "lock", drawn |-> "unlock"]
Fifoserver            == [threads |-> FALSE, first |-> "from", drawn |-> "open"]
Fifoclient == [positive |-> FALSE, atExit |-> FALSE, onSignal |-> TRUE]

ExampleMultithreadServer == [threads |-> TRUE, first |-> "lock", drawn |-> "unlock"]
ExampleFifoserver        == [threads |-> FALSE, first |-> "from", drawn |-> "open"]
ExampleFifoclient == [positive |-> TRUE, atExit |-> TRUE, onSignal |-> FALSE]

ServerProgram(s) ==
  IF s \in Threaded
  THEN IF example THEN ExampleMultithreadServer ELSE MultithreadServerFifo
  ELSE IF example THEN ExampleFifoserver ELSE Fifoserver

ClientProgram == IF example THEN ExampleFifoclient ELSE Fifoclient
-----------------------------------------------------------------------------
(* Who has which end of which FIFO open, or waits to open it. *)

Up(s)           == s # None /\ server[s] \notin {"idle", "exited"}
ServerReads(s)  == server[s] \in {"openRead", "openWrite", "read"}
ServerWritten(s) == \E c \in Clients : fdServer[c] = s
ClientReads(c)  == client[c] \in {"openClient", "read"}
Serves(s, c)    == fdServer[c] = s /\ thread[c] \notin {"none", "done"}
-----------------------------------------------------------------------------
(* The server's main thread.  It serves the requests itself if the server is
   not multi-threaded. *)

ServerMoves(s, from, to) == /\ server[s] = from
                            /\ server' = [server EXCEPT ![s] = to]

(* exit, in any thread, runs cleanup: the NAME is unlinked, whoever made the
   FIFO it stands for.  The other threads end. *)
Exit(s) == /\ server' = [server EXCEPT ![s] = "exited"]
           /\ link' = None
           /\ UNCHANGED <<pipe, next_ticket, mutex, thread, response, wrapped,
                          clientVars, reply>>

MakeFifo(s) == /\ link = None
               /\ ServerMoves(s, "idle", "openRead")
               /\ link' = s
               /\ UNCHANGED <<pipe, next_ticket, mutex, thread, response,
                              wrapped, clientVars, reply>>

MakeFifoFails(s) == /\ server[s] = "idle" /\ link # None
                    /\ Exit(s)

(* open for reading waits for a writer, the dummy open finds its reader. *)
OpenFifo(s) == /\ \/ ServerMoves(s, "openRead", "openWrite") /\ ServerWritten(s)
                  \/ ServerMoves(s, "openWrite", "read")
               /\ UNCHANGED <<link, pipe, next_ticket, mutex, thread, response,
                              wrapped, clientVars, reply>>

(* read a request, into memory of its own if a thread is started for it. *)
ReadRequest(s) ==
  /\ server[s] = "read" /\ pipe[s] # <<>>
  /\ ServerProgram(s).threads \/ \A c \in Clients : ~Serves(s, c)
  /\ thread' = [thread EXCEPT ![Head(pipe[s])] = ServerProgram(s).first]
  /\ pipe' = [pipe EXCEPT ![s] = Tail(@)]
  /\ UNCHANGED <<link, server, next_ticket, mutex, response, wrapped,
                 clientVars, reply>>

(* SIGINT once the handlers are there; a failed malloc. *)
Interrupt(s) == Up(s) /\ Exit(s)

(* SIGKILL, or SIGPIPE: no cleanup. *)
Die(s) == /\ server' = [server EXCEPT ![s] = "exited"]
          /\ UNCHANGED <<link, pipe, next_ticket, mutex, thread, response,
                         wrapped, clientVars, reply>>

KillServer(s) == Up(s) /\ Die(s)
-----------------------------------------------------------------------------
(* process, giveOutTickets, or the body of the loop in main: server s serves
   client c.  A server without threads has no mutex. *)

ThreadMoves(s, c, from, to) ==
  /\ Up(s) /\ Serves(s, c) /\ thread[c] = from
  /\ thread' = [thread EXCEPT ![c] = to]
  /\ UNCHANGED <<link, pipe, server, clientVars>>

(* Faults: the mutex is not waited for; the last ticket is off by one; the
   counter is wider than its type. *)
LockAtOnce(s, c) == /\ ThreadMoves(s, c, "lock", "from")
                    /\ mutex' = [mutex EXCEPT ![s] = c]
                    /\ UNCHANGED <<next_ticket, response, wrapped, reply>>

TicketToOffByOne(s, c) ==
  /\ ThreadMoves(s, c, "to", ServerProgram(s).drawn)
  /\ next_ticket' = [next_ticket EXCEPT ![s] = (@ + tickets[c]) % UINT]
  /\ response' = [response EXCEPT ![c].ticket_to = next_ticket'[s]]
  /\ wrapped' = IF next_ticket[s] + tickets[c] >= UINT
                THEN wrapped \cup {s} ELSE wrapped
  /\ UNCHANGED <<mutex, reply>>

TicketToWide(s, c) ==
  /\ ThreadMoves(s, c, "to", ServerProgram(s).drawn)
  /\ next_ticket' = [next_ticket EXCEPT ![s] = @ + tickets[c]]
  /\ response' = [response EXCEPT ![c].ticket_to = next_ticket'[s] - 1]
  /\ UNCHANGED <<mutex, wrapped, reply>>

Lock(s, c) == /\ ThreadMoves(s, c, "lock", "from")
              /\ mutex[s] = None /\ mutex' = [mutex EXCEPT ![s] = c]
              /\ UNCHANGED <<next_ticket, response, wrapped, reply>>

TicketFrom(s, c) ==
  /\ ThreadMoves(s, c, "from", "to")
  /\ response' = [response EXCEPT ![c].ticket_from = next_ticket[s]]
  /\ UNCHANGED <<next_ticket, mutex, wrapped, reply>>

TicketTo(s, c) ==
  /\ ThreadMoves(s, c, "to", ServerProgram(s).drawn)
  /\ next_ticket' = [next_ticket EXCEPT ![s] = (@ + tickets[c]) % UINT]
  /\ response' = [response EXCEPT ![c].ticket_to = (next_ticket'[s] - 1) % UINT]
  /\ wrapped' = IF next_ticket[s] + tickets[c] >= UINT
                THEN wrapped \cup {s} ELSE wrapped
  /\ UNCHANGED <<mutex, reply>>

Unlock(s, c) == /\ ThreadMoves(s, c, "unlock", "open")
                /\ mutex' = [mutex EXCEPT ![s] = None]
                /\ UNCHANGED <<next_ticket, response, wrapped, reply>>

(* The open waits for the client's; it ends the server if the client has
   removed its FIFO. *)
OpenClientFifo(s, c) == /\ c \in fifo /\ ClientReads(c)
                        /\ ThreadMoves(s, c, "open", "write")
                        /\ UNCHANGED <<next_ticket, mutex, response, wrapped, reply>>

OpenClientFifoFails(s, c) == /\ Up(s) /\ Serves(s, c) /\ thread[c] = "open"
                             /\ c \notin fifo
                             /\ Exit(s)

Respond(s, c) == /\ ClientReads(c)
                 /\ ThreadMoves(s, c, "write", "done")
                 /\ reply' = [reply EXCEPT ![c] = Append(@, response[c])]
                 /\ UNCHANGED <<next_ticket, mutex, response, wrapped>>

BrokenPipe(s, c) == /\ Up(s) /\ Serves(s, c) /\ thread[c] = "write"
                    /\ ~ClientReads(c)
                    /\ Die(s)

process(s, c) ==
  \/ Lock(s, c) \/ TicketFrom(s, c) \/ TicketTo(s, c) \/ Unlock(s, c)
  \/ OpenClientFifo(s, c) \/ OpenClientFifoFails(s, c)
  \/ Respond(s, c) \/ BrokenPipe(s, c)
-----------------------------------------------------------------------------
(* The client. *)

ClientMoves(c, from, to) == /\ client[c] = from
                            /\ client' = [client EXCEPT ![c] = to]
                            /\ UNCHANGED <<serverVars, tickets>>

MakeOwnFifo(c) == /\ ClientProgram.positive =>
                       tickets[c] \in 1 .. (UINT \div 2 - 1)
                  /\ ClientMoves(c, "idle", "openServer")
                  /\ fifo' = fifo \cup {c}
                  /\ UNCHANGED <<fdServer, reply, printed>>

(* open finds the FIFO by its name, then waits for its reader.  Without a
   FIFO of that name the client exits; Fifoclient leaves its own behind. *)
ClientOpenServer(c) ==
  /\ ClientMoves(c, "openServer", IF link = None THEN "exited" ELSE "opening")
  /\ fdServer' = [fdServer EXCEPT ![c] = link]
  /\ fifo' = IF ClientProgram.atExit /\ link = None THEN fifo \ {c} ELSE fifo
  /\ UNCHANGED <<reply, printed>>

ClientOpened(c) == /\ ClientMoves(c, "opening", "write")
                   /\ ServerReads(fdServer[c])
                   /\ UNCHANGED <<fdServer, fifo, reply, printed>>

(* Fault: the client opens its own FIFO before it sends the request. *)
ClientWriteLast(c) ==
  /\ client[c] = "write" /\ ServerReads(fdServer[c])
  /\ thread[c] \in {"write", "done"}
  /\ client' = [client EXCEPT ![c] = "openClient"]
  /\ pipe' = [pipe EXCEPT ![fdServer[c]] = Append(@, c)]
  /\ UNCHANGED <<link, server, next_ticket, mutex, thread, response,
                 wrapped, tickets, fdServer, fifo, reply, printed>>

ClientWrite(c) == /\ client[c] = "write" /\ ServerReads(fdServer[c])
                  /\ client' = [client EXCEPT ![c] = "openClient"]
                  /\ pipe' = [pipe EXCEPT ![fdServer[c]] = Append(@, c)]
                  /\ UNCHANGED <<link, server, next_ticket, mutex, thread, response,
                                 wrapped, tickets, fdServer, fifo, reply, printed>>

ClientBrokenPipe(c) == /\ ClientMoves(c, "write", "exited")
                       /\ ~ServerReads(fdServer[c])
                       /\ UNCHANGED <<fdServer, fifo, reply, printed>>

(* The open of its own FIFO waits for the thread's. *)
ClientOpenOwn(c) == /\ ClientMoves(c, "openClient", "read")
                    /\ thread[c] \in {"write", "done"}
                    /\ UNCHANGED <<fdServer, fifo, reply, printed>>

(* read returns the answer, or 0 when the thread has ended without one: the
   uninitialised response is printed then. *)
ClientRead(c) ==
  /\ ClientMoves(c, "read", "close")
  /\ \/ /\ reply[c] # <<>>
        /\ reply' = [reply EXCEPT ![c] = Tail(@)]
        /\ printed' = [printed EXCEPT ![c] = Append(@, Head(reply[c]))]
     \/ /\ reply[c] = <<>> /\ ~Up(fdServer[c])
        /\ printed' = [printed EXCEPT ![c] = Append(@, Garbage)]
        /\ UNCHANGED reply
  /\ UNCHANGED <<fdServer, fifo>>

ClientUnlink(c) == /\ ClientMoves(c, "close", "exited")
                   /\ fifo' = fifo \ {c}
                   /\ UNCHANGED <<fdServer, reply, printed>>

(* SIGINT and SIGTERM unlink the client's FIFO if it has handlers for them,
   SIGKILL does not. *)
ClientKilled(c) == /\ client[c] \notin {"idle", "exited"}
                   /\ ClientMoves(c, client[c], "exited")
                   /\ \/ fifo' = fifo
                      \/ ClientProgram.onSignal /\ fifo' = fifo \ {c}
                   /\ UNCHANGED <<fdServer, reply, printed>>
-----------------------------------------------------------------------------
ServerStart(s) == MakeFifo(s) \/ MakeFifoFails(s)
ServerMain(s)  == OpenFifo(s) \/ ReadRequest(s)

ClientMain(c) == \/ ClientOpenServer(c) \/ ClientOpened(c) \/ ClientWrite(c)
                 \/ ClientBrokenPipe(c) \/ ClientOpenOwn(c) \/ ClientRead(c)
                 \/ ClientUnlink(c)

Next == /\ \/ (\E s \in Servers : \/ ServerStart(s) \/ ServerMain(s)
                                  \/ Interrupt(s) \/ KillServer(s)
                                  \/ (\E c \in Clients : process(s, c)))
           \/ (\E c \in Clients : \/ MakeOwnFifo(c) \/ ClientMain(c)
                                  \/ ClientKilled(c))
        /\ UNCHANGED example

Spec == Init /\ [][Next]_vars

(* The kernel schedules every process and thread that can run.  A thread
   that waits for the mutex may see it taken by others, but each takes it
   once. *)
Fairness == /\ \A s \in Servers : WF_stepVars(ServerMain(s))
            /\ \A s \in Servers, c \in Clients : WF_stepVars(process(s, c))
            /\ \A c \in Clients : WF_stepVars(ClientMain(c))

FairSpec == Spec /\ Fairness
-----------------------------------------------------------------------------
(* The clients for whose request server s has drawn tickets, and which. *)
Sold(s)   == {c \in Clients : /\ fdServer[c] = s
                              /\ thread[c] \in {"unlock", "open", "write", "done"}}
Drawn(c)  == response[c].ticket_from .. response[c].ticket_to

(* A server's tickets are sold once each and without a gap, however its
   threads interleave, as long as the counter has not wrapped (67-79). *)
TicketsSoldOnce ==
  \A s \in Servers \ wrapped :
    /\ UNION {Drawn(c) : c \in Sold(s)} = 1 .. (next_ticket[s] - 1)
    /\ \A c, d \in Sold(s) : c # d => Drawn(c) \cap Drawn(d) = {}

(* A client prints at most one answer: the tickets drawn for it, as many as
   it asked for; or garbage, but only if its server went down (128-134). *)
PrintsOwnTickets ==
  \A c \in Clients : printed[c] # <<>> =>
    \/ /\ printed[c] = <<response[c]>> /\ thread[c] = "done"
       /\ (response[c].ticket_to + 1 - response[c].ticket_from - tickets[c]) % UINT = 0
    \/ printed[c] = <<Garbage>> /\ ~Up(fdServer[c])

(* A server without threads waits for ever to open the FIFO that a killed
   client left behind. *)
Stuck(s) == /\ ~ServerProgram(s).threads
            /\ \E d \in Clients : /\ Serves(s, d) /\ thread[d] = "open"
                                 /\ d \in fifo /\ client[d] = "exited"

(* A client that has opened the server's FIFO is answered, whatever other
   clients do and wherever they die, unless it dies itself or its server
   does or is stuck: no open of one end waits for an open that waits for it
   (96-97). *)
RequestIsAnswered == \A c \in Clients :
  client[c] = "write" ~> \/ client[c] \in {"close", "exited"}
                         \/ ~Up(fdServer[c]) \/ Stuck(fdServer[c])
=============================================================================
