--------------------------- MODULE AverageServer ----------------------------
(***************************************************************************)
(* Servers that compute an answer from a request read from their FIFO, and *)
(* send it to a FIFO of the client's own:                                  *)
(*                                                                         *)
(*   practice/practice5a   fifoserver_multithreads.c, fifoserver.c with    *)
(*                         fifoclient.c: the average of ten numbers        *)
(*   practice/practice6    fina2s.c with fina2c.c: a text in upper or      *)
(*                         lower case                                      *)
(*                                                                         *)
(* Every request is read into the same variable msgs; the multi-threaded   *)
(* servers start a thread that works on it there.  A request is named by   *)
(* the client that sent it, a number (a mode, a character) by the client   *)
(* that chose it, an answer by the sequence of numbers it was made from.   *)
(* What fina2s.c sends after the last character, which it never sets, is   *)
(* left out.  One execution of the server runs; clients have different ids. *)
(***************************************************************************)
EXTENDS Integers, Sequences

CONSTANTS Clients,    (* the executions of the client                       *)
          MSG_COUNT   (* the numbers of a request, 10 in the code           *)

None == "none"

VARIABLES
  program,  (* which server runs                                           *)
  server,   (* "off", "open", "loop", "exited"                             *)
  named,    (* whether the name of its FIFO exists                         *)
  pipe,     (* the requests in the server's FIFO                           *)
  msgs,     (* the request in the server's variable, or None               *)
  thread,   (* where the work on each client's request is                  *)
  name,     (* the client whose FIFO the thread has open, or opens         *)
  sum,      (* the numbers the thread has added up                         *)
  client,   (* where each client is                                        *)
  fifo,     (* the clients whose FIFO exists                               *)
  reply,    (* the averages in each client's FIFO                          *)
  printed,  (* the average each client has printed, or <<>>                *)
  together  (* history: two clients ran at the same time at some time      *)

serverVars == <<program, server, named, pipe, msgs>>
threadVars == <<thread, name, sum>>
clientVars == <<client, fifo, printed, together>>
vars == <<serverVars, threadVars, clientVars, reply>>

(* The clients: whether one makes its FIFO before it opens the server's, and
   handles SIGINT.  The servers: whether a thread answers each request. *)
Fifoclient == [fifoFirst |-> FALSE, handler |-> FALSE]
Fina2c     == [fifoFirst |-> TRUE, handler |-> TRUE]

FifoserverMultithreads == [threads |-> TRUE, client |-> Fifoclient]
Fifoserver             == [threads |-> FALSE, client |-> Fifoclient]
Fina2s                 == [threads |-> TRUE, client |-> Fina2c]

Program == CASE program = "fifoserver_multithreads" -> FifoserverMultithreads
             [] program = "fifoserver"              -> Fifoserver
             [] program = "fina2s"                  -> Fina2s

Init == /\ program \in {"fifoserver_multithreads", "fifoserver", "fina2s"}
        /\ named = FALSE /\ together = FALSE
        /\ server = "off" /\ pipe = <<>> /\ msgs = None /\ fifo = {}
        /\ thread = [c \in Clients |-> "none"]
        /\ name = [c \in Clients |-> None]
        /\ sum = [c \in Clients |-> <<>>]
        /\ client = [c \in Clients |-> "idle"]
        /\ reply = [c \in Clients |-> <<>>]
        /\ printed = [c \in Clients |-> <<>>]

Up             == server \in {"open", "loop"}
Busy           == \E t \in Clients : thread[t] \notin {"none", "done"}
ClientReads(c) == client[c] \in {"openOwn", "read"}
-----------------------------------------------------------------------------
(* The server's main thread. *)

MakeFifo == /\ server = "off" /\ server' = "open" /\ named' = TRUE
            /\ UNCHANGED <<program, pipe, msgs, threadVars, clientVars, reply>>

(* open for reading returns when a client opens for writing. *)
OpenFifo == /\ server = "open" /\ server' = "loop"
            /\ \E c \in Clients : client[c] \in {"opening", "mkfifo", "write"}
            /\ UNCHANGED <<program, named, pipe, msgs, threadVars, clientVars, reply>>

ReadRequest == /\ server = "loop" /\ pipe # <<>>
               /\ Program.threads \/ ~Busy
               /\ msgs' = Head(pipe) /\ pipe' = Tail(pipe)
               /\ thread' = [thread EXCEPT ![Head(pipe)] = "start"]
               /\ UNCHANGED <<program, server, named, name, sum, clientVars, reply>>

(* All threads end; SIGINT and an error in a thread run cleanup, SIGPIPE and
   SIGKILL do not. *)
Die  == /\ server' = "exited"
        /\ UNCHANGED <<program, pipe, msgs, threadVars, clientVars, reply>>
Exit == Die /\ named' = FALSE
Stop == Up /\ (Exit \/ (Die /\ UNCHANGED named))
-----------------------------------------------------------------------------
(* process, or the body of the loop in main: what is done about the request
   of client t, by a thread that was started for it. *)

ThreadMoves(t, from, to) == /\ Up /\ thread[t] = from
                            /\ thread' = [thread EXCEPT ![t] = to]
                            /\ UNCHANGED <<serverVars, clientVars>>

NameFifo(t) == /\ ThreadMoves(t, "start", "open")
               /\ name' = [name EXCEPT ![t] = msgs]
               /\ UNCHANGED <<sum, reply>>

OpenClientFifo(t) == /\ name[t] \in fifo /\ ClientReads(name[t])
                     /\ ThreadMoves(t, "open", "average")
                     /\ UNCHANGED <<name, sum, reply>>

OpenClientFifoFails(t) == /\ Up /\ thread[t] = "open" /\ name[t] \notin fifo
                          /\ Exit

(* average: one number after the other, from msgs as it is by then. *)
average(t) == /\ Len(sum[t]) < MSG_COUNT
              /\ ThreadMoves(t, "average", "average")
              /\ sum' = [sum EXCEPT ![t] = Append(@, msgs)]
              /\ UNCHANGED <<name, reply>>

Respond(t) == /\ Len(sum[t]) = MSG_COUNT /\ ClientReads(name[t])
              /\ ThreadMoves(t, "average", "done")
              /\ reply' = [reply EXCEPT ![name[t]] = Append(@, sum[t])]
              /\ UNCHANGED <<name, sum>>

BrokenPipe(t) == /\ Up /\ thread[t] = "average" /\ Len(sum[t]) = MSG_COUNT
                 /\ ~ClientReads(name[t])
                 /\ Die /\ UNCHANGED named

process(t) == \/ NameFifo(t) \/ OpenClientFifo(t) \/ OpenClientFifoFails(t)
              \/ average(t) \/ Respond(t) \/ BrokenPipe(t)
-----------------------------------------------------------------------------
(* The client. *)

ClientMoves(c, from, to) == /\ client[c] = from
                            /\ client' = [client EXCEPT ![c] = to]
                            /\ UNCHANGED <<program, server, named, msgs, threadVars>>

Alive(c) == client[c] \notin {"idle", "exited"}
Overlap(c) == together' = (together \/ \E d \in Clients \ {c} : Alive(d))

(* Without a FIFO of the server's the client exits. *)
OpenServer(c) ==
  /\ IF Program.client.fifoFirst
     THEN ClientMoves(c, "connect", IF named THEN "opening" ELSE "exit")
     ELSE ClientMoves(c, "idle", IF named THEN "opening" ELSE "exited")
  /\ Overlap(c)
  /\ UNCHANGED <<pipe, fifo, reply, printed>>

ServerOpened(c) ==
  /\ Up
  /\ ClientMoves(c, "opening", IF Program.client.fifoFirst THEN "write" ELSE "mkfifo")
  /\ UNCHANGED <<pipe, fifo, reply, printed, together>>

MakeOwnFifo(c) == /\ IF Program.client.fifoFirst THEN ClientMoves(c, "idle", "connect")
                                          ELSE ClientMoves(c, "mkfifo", "write")
                  /\ fifo' = fifo \cup {c} /\ Overlap(c)
                  /\ UNCHANGED <<pipe, reply, printed>>

SendRequest(c) == /\ Up
                  /\ ClientMoves(c, "write", "openOwn")
                  /\ pipe' = Append(pipe, c)
                  /\ UNCHANGED <<fifo, reply, printed, together>>

OpenOwn(c) == /\ \E t \in Clients : name[t] = c /\ thread[t] \in {"average", "done"}
              /\ ClientMoves(c, "openOwn", "read")
              /\ UNCHANGED <<pipe, fifo, reply, printed, together>>

(* At the end of the file, which a dead server leaves, the client exits. *)
ReadAnswer(c) == /\ ClientMoves(c, "read", "exit")
                 /\ IF reply[c] = <<>>
                    THEN ~Up /\ UNCHANGED <<reply, printed>>
                    ELSE /\ printed' = [printed EXCEPT ![c] = Head(reply[c])]
                         /\ reply' = [reply EXCEPT ![c] = Tail(@)]
                 /\ UNCHANGED <<pipe, fifo, together>>

(* cleanup on exit; a signal for which there is no handler kills. *)
cleanup(c) == /\ client[c] = "exit" \/ (Alive(c) /\ Program.client.handler)
              /\ ClientMoves(c, client[c], "exited")
              /\ fifo' = fifo \ {c}
              /\ UNCHANGED <<pipe, reply, printed, together>>

Killed(c) == /\ Alive(c)
             /\ ClientMoves(c, client[c], "exited")
             /\ UNCHANGED <<pipe, fifo, reply, printed, together>>

Next == \/ MakeFifo \/ OpenFifo \/ ReadRequest \/ Stop
        \/ (\E t \in Clients : process(t))
        \/ (\E c \in Clients : \/ OpenServer(c) \/ ServerOpened(c)
                               \/ MakeOwnFifo(c) \/ SendRequest(c) \/ OpenOwn(c)
                               \/ ReadAnswer(c) \/ cleanup(c) \/ Killed(c))

Spec == Init /\ [][Next]_vars
-----------------------------------------------------------------------------
TypeOK ==
  /\ program \in {"fifoserver_multithreads", "fifoserver", "fina2s"}
  /\ server \in {"off", "open", "loop", "exited"} /\ named \in BOOLEAN
  /\ pipe \in Seq(Clients) /\ msgs \in Clients \cup {None}
  /\ thread \in [Clients -> {"none", "start", "open", "average", "done"}]
  /\ name \in [Clients -> Clients \cup {None}]
  /\ sum \in [Clients -> Seq(Clients)]
  /\ client \in [Clients -> {"idle", "connect", "opening", "mkfifo", "write",
                             "openOwn", "read", "exit", "exited"}]
  /\ fifo \subseteq Clients /\ together \in BOOLEAN
  /\ reply \in [Clients -> Seq(Seq(Clients))]
  /\ printed \in [Clients -> Seq(Clients)]

(* Line 2: "it sends a response to the client which consists of the average
   of the 10 numbers in the request": what a client of the multi-threaded
   server prints was made from its own numbers only. *)
PrintsOwn == \A c \in Clients : \A i \in 1 .. Len(printed[c]) : printed[c][i] = c

PrintsOwnAverage == program = "fifoserver_multithreads" => PrintsOwn

(* The sequential server keeps this promise; the multi-threaded ones do, with
   one variable for all requests, only while no two clients run at the same
   time, wherever clients are killed and whatever requests they leave. *)
PrintsOwnUnlessTogether == ~(Program.threads /\ together) => PrintsOwn
=============================================================================
