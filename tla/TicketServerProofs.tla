------------------------- MODULE TicketServerProofs -------------------------
(***************************************************************************)
(* The safety of TicketServer, for any number of servers and clients and   *)
(* every width of the ticket counter.                                      *)
(***************************************************************************)
EXTENDS TicketServer, TLAPS

(* How the two kinds of server treat a request. *)
LEMMA Programs ==
  ASSUME NEW s \in Servers
  PROVE  /\ s \in Threaded => /\ ServerProgram(s).threads
                              /\ ServerProgram(s).first = "lock"
                              /\ ServerProgram(s).drawn = "unlock"
         /\ s \notin Threaded => /\ ~ServerProgram(s).threads
                                 /\ ServerProgram(s).first = "from"
                                 /\ ServerProgram(s).drawn = "open"
  BY DEF ServerProgram, ExampleMultithreadServer, MultithreadServerFifo,
         ExampleFifoserver, Fifoserver

(* Arithmetic of unsigned int. *)
LEMMA Words ==
  /\ \A n \in Int : n % UINT \in Word
  /\ \A n \in Word : n % UINT = n
  /\ \A n, m \in Word : (n + m) % UINT = IF n + m < UINT THEN n + m ELSE n + m - UINT
  /\ (0 - 1) % UINT = UINT - 1
  /\ 0 % UINT = 0 /\ UINT % UINT = 0 /\ (0 - UINT) % UINT = 0
<1> USE TicketServerAssumption DEF Word
<1>1. \A n \in Int : n % UINT \in Word OBVIOUS
<1>2. \A n \in Word : n % UINT = n OBVIOUS
<1>3. \A a \in Word : (UINT + a) % UINT = a OBVIOUS
<1>4. ASSUME NEW n \in Word, NEW m \in Word
      PROVE  (n + m) % UINT = IF n + m < UINT THEN n + m ELSE n + m - UINT
  <2>1. CASE n + m < UINT BY <2>1
  <2>2. CASE n + m >= UINT
    <3>1. (n + m) - UINT \in Word BY <2>2
    <3>2. (UINT + ((n + m) - UINT)) % UINT = (n + m) - UINT BY <1>3, <3>1
    <3>3. UINT + ((n + m) - UINT) = n + m OBVIOUS
    <3> QED BY <2>2, <3>2, <3>3
  <2> QED BY <2>1, <2>2
<1>5. (0 - 1) % UINT = UINT - 1 OBVIOUS
<1>6. 0 % UINT = 0 /\ UINT % UINT = 0 /\ (0 - UINT) % UINT = 0 OBVIOUS
<1> QED BY <1>1, <1>2, <1>4, <1>5, <1>6
-----------------------------------------------------------------------------
(* Whoever has the server's FIFO open found it under its name, so the server
   had been started; and no client gets past the open without one. *)
Found ==
  /\ link # None => server[link] # "idle"
  /\ \A c \in Clients :
       /\ fdServer[c] # None => server[fdServer[c]] # "idle"
       /\ client[c] \in {"opening", "write", "openClient", "read", "close"}
            => fdServer[c] # None

(* A request is in one FIFO, once, and is served once. *)
Waiting(s) ==
  \A i \in 1 .. Len(pipe[s]) :
    /\ thread[pipe[s][i]] = "none" /\ fdServer[pipe[s][i]] = s
    /\ client[pipe[s][i]] \in {"openClient", "exited"}
    /\ \A j \in 1 .. Len(pipe[s]) : pipe[s][i] = pipe[s][j] => i = j

Requested ==
  /\ \A s \in Servers : Waiting(s)
  /\ \A c \in Clients : thread[c] # "none" =>
       /\ client[c] \in {"openClient", "read", "close", "exited"}
       /\ fdServer[c] # None

(* One thread of a server draws tickets at a time: that which holds the mutex,
   or that which alone serves a request. *)
Exclusive ==
  \A c \in Clients : thread[c] # "none" =>
    IF fdServer[c] \in Threaded
    THEN thread[c] \in {"from", "to", "unlock"} => mutex[fdServer[c]] = c
    ELSE /\ thread[c] \notin {"lock", "unlock"}
         /\ thread[c] # "done" =>
              \A d \in Clients :
                fdServer[d] = fdServer[c] /\ thread[d] \notin {"none", "done"} => d = c

(* What a thread has drawn so far. *)
Remainder(c) == (response[c].ticket_to + 1 - response[c].ticket_from - tickets[c]) % UINT

Computed ==
  \A c \in Clients :
    /\ thread[c] = "to" => response[c].ticket_from = next_ticket[fdServer[c]]
    /\ thread[c] \in {"unlock", "open", "write", "done"} =>
         response[c] \in Responses /\ Remainder(c) = 0

(* The sales of a server whose counter has not wrapped. *)
SalesOf(s) ==
  /\ next_ticket[s] >= 1
  /\ \A c \in Sold(s) : \A n \in Drawn(c) : n \in 1 .. (next_ticket[s] - 1)
  /\ \A n \in 1 .. (next_ticket[s] - 1) : \E c \in Sold(s) : n \in Drawn(c)
  /\ \A c, d \in Sold(s) : c # d => Drawn(c) \cap Drawn(d) = {}

Sales == \A s \in Servers \ wrapped : SalesOf(s)

(* The answer to a client is its response, sent once. *)
Answered ==
  \A c \in Clients :
    /\ reply[c] # <<>> => reply[c] = <<response[c]>> /\ thread[c] = "done"
    /\ printed[c] # <<>> =>
         /\ client[c] \in {"close", "exited"}
         /\ \/ printed[c] = <<response[c]>> /\ thread[c] = "done"
            \/ printed[c] = <<Garbage>> /\ ~Up(fdServer[c])

IInv == TypeOK /\ Found /\ Requested /\ Exclusive /\ Computed /\ Sales /\ Answered
-----------------------------------------------------------------------------
LEMMA InitIInv == Init => IInv
<1> SUFFICES ASSUME Init PROVE IInv OBVIOUS
<1> USE TicketServerAssumption DEF Init
<1>1. TypeOK
  <2>1. 1 \in Word BY DEF Word
  <2>2. Garbage \in [ticket_from : Unset, ticket_to : Unset] BY DEF Unset, Garbage
  <2>3. tickets \in [Clients -> Word] BY DEF Word
  <2>4. \A S : <<>> \in Seq(S) OBVIOUS
  <2> QED BY <2>1, <2>2, <2>3, <2>4 DEF TypeOK
<1>2. Found BY DEF Found
<1>3. Requested BY DEF Requested, Waiting
<1>4. Exclusive BY DEF Exclusive
<1>5. Computed BY DEF Computed
<1>6. Sales BY DEF Sales, SalesOf, Sold
<1>7. Answered BY DEF Answered
<1> QED BY <1>1, <1>2, <1>3, <1>4, <1>5, <1>6, <1>7 DEF IInv
-----------------------------------------------------------------------------
(* The types.  What a thread answers has been drawn. *)
LEMMA ServerType ==
  ASSUME IInv, NEW s \in Servers,
         \/ MakeFifo(s) \/ Exit(s) \/ Die(s) \/ OpenFifo(s) \/ ReadRequest(s),
         UNCHANGED example
  PROVE  TypeOK'
<1> USE DEF IInv, TypeOK, clientVars, ServerMoves
<1>1. CASE MakeFifo(s) BY <1>1 DEF MakeFifo
<1>2. CASE Exit(s) BY <1>2 DEF Exit
<1>3. CASE Die(s) BY <1>3 DEF Die
<1>4. CASE OpenFifo(s) BY <1>4 DEF OpenFifo
<1>5. CASE ReadRequest(s)
  <2>1. Tail(pipe[s]) \in Seq(Clients) /\ Head(pipe[s]) \in Clients
    BY <1>5 DEF ReadRequest
  <2>2. ServerProgram(s).first \in {"lock", "from"} BY Programs
  <2> QED BY <1>5, <2>1, <2>2 DEF ReadRequest
<1> QED BY <1>1, <1>2, <1>3, <1>4, <1>5

(* A thread's step keeps the types; the last ticket may be one below 0. *)
LEMMA ThreadType ==
  ASSUME IInv, NEW s \in Servers, NEW c \in Clients,
         \/ Lock(s, c) \/ TicketFrom(s, c) \/ TicketTo(s, c) \/ Unlock(s, c)
         \/ OpenClientFifo(s, c) \/ Respond(s, c),
         UNCHANGED example
  PROVE  TypeOK'
<1> USE DEF IInv, TypeOK, clientVars, ThreadMoves
<1>1. CASE Lock(s, c) BY <1>1 DEF Lock
<1>2. CASE TicketFrom(s, c) BY <1>2 DEF TicketFrom, Unset
<1>3. CASE TicketTo(s, c)
  <2>0. \A n, m \in Word : n + m \in Int /\ n - 1 \in Int BY DEF Word
  <2>1. (next_ticket[s] + tickets[c]) % UINT \in Word
    BY <2>0, Words
  <2>2. next_ticket' \in [Servers -> Word]
    BY <1>3, <2>1 DEF TicketTo
  <2>3. (next_ticket'[s] - 1) % UINT \in Unset
    BY <2>0, <2>2, Words DEF Unset
  <2>4. ServerProgram(s).drawn \in {"unlock", "open"} BY Programs
  <2>5. response' \in [Clients -> [ticket_from : Unset, ticket_to : Unset]]
    <3>1. PICK last : last = (next_ticket'[s] - 1) % UINT OBVIOUS
    <3>2. response' = [response EXCEPT ![c].ticket_to = last]
      BY <1>3, <3>1 DEF TicketTo
    <3>3. response[c] \in [ticket_from : Unset, ticket_to : Unset] BY DEF IInv
    <3>4. [response[c] EXCEPT !.ticket_to = last]
            \in [ticket_from : Unset, ticket_to : Unset]
      BY <2>3, <3>1, <3>3
    <3> QED BY <3>2, <3>4
  <2> QED BY <1>3, <2>2, <2>4, <2>5 DEF TicketTo
<1>4. CASE Unlock(s, c) BY <1>4 DEF Unlock
<1>5. CASE OpenClientFifo(s, c) BY <1>5 DEF OpenClientFifo
<1>6. CASE Respond(s, c)
  <2>1. response[c] \in Responses BY <1>6 DEF Respond, Computed
  <2>2. reply' \in [Clients -> Seq(Responses)] BY <1>6, <2>1 DEF Respond
  <2> QED BY <1>6, <2>2 DEF Respond
<1> QED BY <1>1, <1>2, <1>3, <1>4, <1>5, <1>6

(* A client's step keeps the types. *)
LEMMA ClientType ==
  ASSUME IInv, NEW c \in Clients,
         MakeOwnFifo(c) \/ ClientMain(c) \/ ClientKilled(c),
         UNCHANGED example
  PROVE  TypeOK'
<1> USE DEF IInv, TypeOK, serverVars, ClientMoves
<1>1. CASE MakeOwnFifo(c) BY <1>1 DEF MakeOwnFifo
<1>2. CASE ClientOpenServer(c) BY <1>2 DEF ClientOpenServer
<1>3. CASE ClientOpened(c) BY <1>3 DEF ClientOpened
<1>4. CASE ClientWrite(c)
  <2>1. \A q \in Seq(Clients) : Append(q, c) \in Seq(Clients) OBVIOUS
  <2>2. pipe' \in [Servers -> Seq(Clients)] BY <1>4, <2>1 DEF ClientWrite
  <2> QED BY <1>4, <2>2 DEF ClientWrite
<1>5. CASE ClientBrokenPipe(c) BY <1>5 DEF ClientBrokenPipe
<1>6. CASE ClientOpenOwn(c) BY <1>6 DEF ClientOpenOwn
<1>7. CASE ClientRead(c)
  <2>0. reply[c] # <<>> => Head(reply[c]) \in Responses BY DEF Answered
  <2>1. PICK x \in Responses \cup {Garbage} : printed' = [printed EXCEPT ![c] = Append(@, x)]
    <3>1. \/ reply[c] # <<>> /\ printed' = [printed EXCEPT ![c] = Append(@, Head(reply[c]))]
          \/ printed' = [printed EXCEPT ![c] = Append(@, Garbage)]
      BY <1>7 DEF ClientRead
    <3> QED BY <2>0, <3>1
  <2>2. \A q \in Seq(Responses \cup {Garbage}) : Append(q, x) \in Seq(Responses \cup {Garbage})
    OBVIOUS
  <2>3. printed' \in [Clients -> Seq(Responses \cup {Garbage})]
    BY <2>1, <2>2
  <2>4. reply' \in [Clients -> Seq(Responses)]
    <3>1. CASE reply' = [reply EXCEPT ![c] = Tail(@)] /\ reply[c] # <<>>
      <4>1. \A q \in Seq(Responses) : q # <<>> => Tail(q) \in Seq(Responses) OBVIOUS
      <4> QED BY <3>1, <4>1
    <3>2. CASE UNCHANGED reply BY <3>2
    <3> QED BY <1>7, <3>1, <3>2 DEF ClientRead
  <2> QED BY <1>7, <2>3, <2>4 DEF ClientRead
<1>8. CASE ClientUnlink(c) BY <1>8 DEF ClientUnlink
<1>9. CASE ClientKilled(c) BY <1>9 DEF ClientKilled
<1> QED BY <1>1, <1>2, <1>3, <1>4, <1>5, <1>6, <1>7, <1>8, <1>9 DEF ClientMain
-----------------------------------------------------------------------------
(* Two threads of one server never draw at once: one of them would not hold
   the mutex, or not be alone. *)
LEMMA AloneDrawing ==
  ASSUME IInv, NEW c \in Clients, NEW d \in Clients, fdServer[c] = fdServer[d],
         thread[c] \in {"from", "to", "unlock"}, thread[d] \in {"from", "to", "unlock"}
  PROVE  c = d
<1>1. CASE fdServer[c] \in Threaded BY <1>1 DEF IInv, Exclusive
<1>2. CASE fdServer[c] \notin Threaded BY <1>2 DEF IInv, Exclusive
<1> QED BY <1>1, <1>2

(* What a server has sold depends on its counter and its buyers only. *)
LEMMA SalesFrame ==
  ASSUME NEW s, SalesOf(s), Sold(s)' = Sold(s), next_ticket'[s] = next_ticket[s],
         \A c \in Sold(s) : Drawn(c)' = Drawn(c)
  PROVE  SalesOf(s)'
<1>1. next_ticket'[s] >= 1 BY DEF SalesOf
<1>2. \A c \in Sold(s)' : \A n \in Drawn(c)' : n \in 1 .. (next_ticket'[s] - 1)
  BY DEF SalesOf
<1>3. \A n \in 1 .. (next_ticket'[s] - 1) : \E c \in Sold(s)' : n \in Drawn(c)'
  BY DEF SalesOf
<1>4. \A c, d \in Sold(s)' : c # d => Drawn(c)' \cap Drawn(d)' = {}
  BY DEF SalesOf
<1> QED BY <1>1, <1>2, <1>3, <1>4 DEF SalesOf

(* Starting, opening or ending a server. *)
LEMMA MainStep ==
  ASSUME IInv, NEW s \in Servers,
         MakeFifo(s) \/ Exit(s) \/ Die(s) \/ OpenFifo(s), UNCHANGED example
  PROVE  IInv'
<1> USE DEF IInv, TypeOK
<1>1. TypeOK' BY ServerType
<1>2. UNCHANGED <<pipe, next_ticket, mutex, thread, response, wrapped, clientVars, reply>>
  BY DEF MakeFifo, Exit, Die, OpenFifo
<1>3. \A r \in Servers : /\ server'[r] = "idle" => server[r] = "idle"
                         /\ server[r] = "exited" => server'[r] = "exited"
  BY DEF MakeFifo, Exit, Die, OpenFifo, ServerMoves
<1>4. link' \in {None, link} \/ (link' = s /\ server'[s] = "openRead")
  <2>1. CASE MakeFifo(s) BY <2>1 DEF MakeFifo, ServerMoves
  <2>2. CASE Exit(s) BY <2>2 DEF Exit
  <2>3. CASE Die(s) BY <2>3 DEF Die
  <2>4. CASE OpenFifo(s) BY <2>4 DEF OpenFifo
  <2> QED BY <2>1, <2>2, <2>3, <2>4
<1>5. Found' BY <1>1, <1>2, <1>3, <1>4 DEF Found, clientVars
<1>6. Requested' BY <1>2 DEF Requested, Waiting, clientVars
<1>7. Exclusive' BY <1>2 DEF Exclusive, clientVars
<1>8. Computed' BY <1>2 DEF Computed, Remainder, clientVars
<1>9. Sales' BY <1>2 DEF Sales, SalesOf, Sold, Drawn, clientVars
<1>10. Answered'
  <2>1. \A c \in Clients : ~Up(fdServer[c]) => ~Up(fdServer[c])'
    BY <1>2, <1>3 DEF Found, Up, clientVars
  <2> QED BY <1>2, <2>1 DEF Answered, clientVars
<1> QED BY <1>1, <1>5, <1>6, <1>7, <1>8, <1>9, <1>10

(* The request at the head of the FIFO is taken once: it waits nowhere else. *)
LEMMA ReadRequestStep ==
  ASSUME IInv, NEW s \in Servers, ReadRequest(s), UNCHANGED example
  PROVE  IInv'
<1> USE DEF IInv, TypeOK
<1> DEFINE h == Head(pipe[s])
<1>1. TypeOK' BY ServerType
<1>2. /\ pipe[s] \in Seq(Clients) /\ pipe[s] # <<>>
      /\ thread' = [thread EXCEPT ![h] = ServerProgram(s).first]
      /\ pipe' = [pipe EXCEPT ![s] = Tail(@)]
      /\ UNCHANGED <<link, server, next_ticket, mutex, response, wrapped, clientVars, reply>>
  BY DEF ReadRequest
<1>3. /\ h \in Clients /\ h = pipe[s][1]
      /\ 1 \in 1 .. Len(pipe[s])
  BY <1>2
<1>4. /\ thread[h] = "none" /\ fdServer[h] = s
      /\ client[h] \in {"openClient", "exited"}
      /\ \A j \in 1 .. Len(pipe[s]) : h = pipe[s][j] => 1 = j
  BY <1>3 DEF Requested, Waiting
<1>5. ServerProgram(s).first \in {"lock", "from"} BY Programs
<1> HIDE DEF h
<1>6. thread'[h] \in {"lock", "from"} /\ \A c \in Clients \ {h} : thread'[c] = thread[c]
  BY <1>2, <1>3, <1>5
<1>7. Found' BY <1>2 DEF Found, clientVars
<1>8. Requested'
  <2>1. ASSUME NEW r \in Servers PROVE Waiting(r)'
    <3>1. CASE r = s
      <4>1. /\ Len(pipe'[s]) = Len(pipe[s]) - 1
            /\ \A i \in 1 .. Len(pipe'[s]) : /\ pipe'[s][i] = pipe[s][i + 1]
                                             /\ i + 1 \in 2 .. Len(pipe[s])
                                             /\ i + 1 \in 1 .. Len(pipe[s])
        BY <1>2
      <4>2. \A i \in 1 .. Len(pipe'[s]) : pipe'[s][i] # h /\ pipe'[s][i] \in Clients
        BY <1>2, <1>4, <4>1
      <4>3. Waiting(s) BY DEF Requested
      <4>4. \A i \in 1 .. Len(pipe'[s]) :
              /\ thread[pipe'[s][i]] = "none" /\ fdServer[pipe'[s][i]] = s
              /\ client[pipe'[s][i]] \in {"openClient", "exited"}
              /\ thread'[pipe'[s][i]] = thread[pipe'[s][i]]
        <5> SUFFICES ASSUME NEW i \in 1 .. Len(pipe'[s])
                     PROVE  /\ thread[pipe'[s][i]] = "none" /\ fdServer[pipe'[s][i]] = s
                            /\ client[pipe'[s][i]] \in {"openClient", "exited"}
                            /\ thread'[pipe'[s][i]] = thread[pipe'[s][i]]
          OBVIOUS
        <5> DEFINE k == i + 1
        <5>1. k \in 1 .. Len(pipe[s]) /\ pipe'[s][i] = pipe[s][k] BY <4>1
        <5>2. /\ thread[pipe[s][k]] = "none" /\ fdServer[pipe[s][k]] = s
              /\ client[pipe[s][k]] \in {"openClient", "exited"}
          BY <4>3, <5>1 DEF Waiting
        <5>3. thread'[pipe'[s][i]] = thread[pipe'[s][i]] BY <1>6, <4>2
        <5> HIDE DEF k
        <5> QED BY <5>1, <5>2, <5>3
      <4>5. \A i, j \in 1 .. Len(pipe'[s]) : pipe'[s][i] = pipe'[s][j] => i = j
        BY <1>2, <4>1, <4>3 DEF Waiting
      <4> QED BY <1>2, <3>1, <4>4, <4>5 DEF Waiting, clientVars
    <3>2. CASE r # s
      <4>1. pipe'[r] = pipe[r] /\ pipe[r] \in Seq(Clients) BY <1>2, <3>2
      <4>2. Waiting(r) BY DEF Requested
      <4>3. \A i \in 1 .. Len(pipe[r]) : pipe[r][i] \in Clients /\ pipe[r][i] # h
        BY <1>4, <3>2, <4>1, <4>2 DEF Waiting
      <4>4. \A i \in 1 .. Len(pipe[r]) : thread'[pipe[r][i]] = thread[pipe[r][i]]
        BY <1>6, <4>3
      <4>5. Len(pipe'[r]) = Len(pipe[r]) BY <4>1
      <4> QED BY <1>2, <4>1, <4>2, <4>4, <4>5, SMTT(15) DEF Waiting, clientVars
    <3> QED BY <3>1, <3>2
  <2>2. ASSUME NEW c \in Clients, thread'[c] # "none"
        PROVE  client'[c] \in {"openClient", "read", "close", "exited"} /\ fdServer'[c] # None
    <3>1. s # None BY TicketServerAssumption DEF None
    <3> QED BY <1>2, <1>4, <1>6, <2>2, <3>1 DEF Requested, clientVars
  <2> QED BY <2>1, <2>2 DEF Requested
<1>9. Exclusive'
  <2>1. CASE s \in Threaded BY <1>2, <1>4, <1>6, <2>1, Programs DEF Exclusive, clientVars
  <2>2. CASE s \notin Threaded
    <3>1. \A d \in Clients : fdServer[d] = s => thread[d] \in {"none", "done"}
      BY <2>2, Programs DEF ReadRequest, Serves
    <3>2. thread'[h] = "from" BY <1>2, <1>3, <2>2, Programs
    <3> QED BY <1>2, <1>4, <1>6, <2>2, <3>1, <3>2 DEF Exclusive, clientVars
  <2> QED BY <2>1, <2>2
<1>10. Computed' BY <1>2, <1>6 DEF Computed, Remainder, clientVars
<1>11. Sales'
  <2>1. \A r \in Servers : Sold(r)' = Sold(r) BY <1>2, <1>4, <1>6 DEF Sold, clientVars
  <2>2. \A c \in Clients : Drawn(c)' = Drawn(c) BY <1>2 DEF Drawn
  <2>3. \A r \in Servers : Sold(r) \subseteq Clients BY DEF Sold
  <2> QED BY <1>2, <2>1, <2>2, <2>3, SalesFrame DEF Sales
<1>12. Answered' BY <1>2, <1>4, <1>6 DEF Answered, Up, clientVars
<1> QED BY <1>1, <1>7, <1>8, <1>9, <1>10, <1>11, <1>12
-----------------------------------------------------------------------------
(* A service under way stays where it was requested, and no other request is
   touched by it. *)
LEMMA ThreadFrame ==
  ASSUME IInv, NEW s \in Servers, NEW c \in Clients, NEW from, NEW to,
         ThreadMoves(s, c, from, to), from # "none", to # "none"
  PROVE  Found' /\ Requested'
<1> USE DEF IInv, TypeOK
<1>1. /\ thread[c] = from /\ thread' = [thread EXCEPT ![c] = to]
      /\ UNCHANGED <<link, pipe, server, clientVars>>
  BY DEF ThreadMoves
<1>2. \A d \in Clients : thread[d] = "none" <=> thread'[d] = "none"
  BY <1>1
<1>3. Found' BY <1>1 DEF Found, clientVars
<1>4. ASSUME NEW r \in Servers PROVE Waiting(r)'
  <2>1. Waiting(r) BY DEF Requested
  <2>2. \A i \in 1 .. Len(pipe[r]) : pipe[r][i] \in Clients OBVIOUS
  <2>3. \A i \in 1 .. Len(pipe[r]) : thread'[pipe[r][i]] = "none"
    BY <1>2, <2>1, <2>2 DEF Waiting
  <2> QED BY <1>1, <2>1, <2>3 DEF Waiting, clientVars
<1>5. Requested' BY <1>1, <1>2, <1>4 DEF Requested, clientVars
<1> QED BY <1>3, <1>5

(* Only one thread enters the critical section. *)
LEMMA LockStep ==
  ASSUME IInv, NEW s \in Servers, NEW c \in Clients, Lock(s, c), UNCHANGED example
  PROVE  IInv'
<1> USE DEF IInv, TypeOK
<1>1. TypeOK' BY ThreadType
<1>2. Found' /\ Requested' BY ThreadFrame DEF Lock
<1>3. /\ fdServer[c] = s /\ thread[c] = "lock" /\ mutex[s] = None
      /\ thread' = [thread EXCEPT ![c] = "from"]
      /\ mutex' = [mutex EXCEPT ![s] = c]
      /\ UNCHANGED <<server, clientVars, next_ticket, response, wrapped, reply>>
  BY DEF Lock, ThreadMoves, Serves
<1>4. None \notin Clients BY TicketServerAssumption DEF None
<1>5. Exclusive'
  <2>1. s \in Threaded BY <1>3 DEF Exclusive
  <2> QED BY <1>3, <1>4, <2>1 DEF Exclusive, clientVars
<1>6. Computed' BY <1>3 DEF Computed, Remainder, clientVars
<1>7. Sales'
  <2>1. \A r \in Servers : Sold(r)' = Sold(r) BY <1>3 DEF Sold, clientVars
  <2>2. \A d \in Clients : Drawn(d)' = Drawn(d) BY <1>3 DEF Drawn
  <2>3. \A r \in Servers : Sold(r) \subseteq Clients BY DEF Sold
  <2> QED BY <1>3, <2>1, <2>2, <2>3, SalesFrame DEF Sales
<1>8. Answered' BY <1>3 DEF Answered, Up, clientVars
<1> QED BY <1>1, <1>2, <1>5, <1>6, <1>7, <1>8

(* The first ticket is the server's next, and stays so while c draws. *)
LEMMA TicketFromStep ==
  ASSUME IInv, NEW s \in Servers, NEW c \in Clients, TicketFrom(s, c), UNCHANGED example
  PROVE  IInv'
<1> USE DEF IInv, TypeOK
<1>1. TypeOK' BY ThreadType
<1>2. Found' /\ Requested' BY ThreadFrame DEF TicketFrom
<1>3. /\ fdServer[c] = s /\ thread[c] = "from"
      /\ thread' = [thread EXCEPT ![c] = "to"]
      /\ response' = [response EXCEPT ![c].ticket_from = next_ticket[s]]
      /\ UNCHANGED <<server, clientVars, next_ticket, mutex, wrapped, reply>>
  BY DEF TicketFrom, ThreadMoves, Serves
<1>4. /\ response'[c].ticket_from = next_ticket[s]
      /\ \A d \in Clients \ {c} : response'[d] = response[d] /\ thread'[d] = thread[d]
      /\ thread'[c] = "to"
  BY <1>3
<1>5. Exclusive' BY <1>3, <1>4 DEF Exclusive, clientVars
<1>6. Computed' BY <1>3, <1>4 DEF Computed, Remainder, clientVars
<1>7. Sales'
  <2>1. \A r \in Servers : Sold(r)' = Sold(r) BY <1>3 DEF Sold, clientVars
  <2>2. \A r \in Servers : Sold(r) \subseteq Clients \ {c} BY <1>3 DEF Sold
  <2>3. \A d \in Clients \ {c} : Drawn(d)' = Drawn(d) BY <1>4 DEF Drawn
  <2> QED BY <1>3, <2>1, <2>2, <2>3, SalesFrame DEF Sales
<1>8. Answered' BY <1>3, <1>4 DEF Answered, Up, clientVars
<1> QED BY <1>1, <1>2, <1>5, <1>6, <1>7, <1>8

(* The mutex is given up by its holder. *)
LEMMA UnlockStep ==
  ASSUME IInv, NEW s \in Servers, NEW c \in Clients, Unlock(s, c), UNCHANGED example
  PROVE  IInv'
<1> USE DEF IInv, TypeOK
<1>1. TypeOK' BY ThreadType
<1>2. Found' /\ Requested' BY ThreadFrame DEF Unlock
<1>3. /\ fdServer[c] = s /\ thread[c] = "unlock"
      /\ thread' = [thread EXCEPT ![c] = "open"]
      /\ mutex' = [mutex EXCEPT ![s] = None]
      /\ UNCHANGED <<server, clientVars, next_ticket, response, wrapped, reply>>
  BY DEF Unlock, ThreadMoves, Serves
<1>4. Exclusive'
  <2>1. s \in Threaded BY <1>3 DEF Exclusive
  <2>2. \A d \in Clients : fdServer[d] = s /\ thread[d] \in {"from", "to", "unlock"} => d = c
    BY <1>3, AloneDrawing
  <2>3. ASSUME NEW d \in Clients, fdServer[d] \in Threaded,
               thread'[d] \in {"from", "to", "unlock"}
        PROVE  mutex'[fdServer[d]] = d
    <3>1. d # c /\ thread[d] = thread'[d] BY <1>3, <2>3
    <3>2. fdServer[d] # s BY <2>2, <2>3, <3>1
    <3>3. mutex[fdServer[d]] = d BY <2>3, <3>1 DEF Exclusive
    <3> QED BY <1>3, <2>3, <3>2, <3>3, TicketServerAssumption
  <2>4. ASSUME NEW d \in Clients, fdServer[d] \notin Threaded, thread'[d] # "none"
        PROVE  /\ thread'[d] \notin {"lock", "unlock"}
               /\ thread'[d] # "done" => \A e \in Clients :
                    fdServer[e] = fdServer[d] /\ thread'[e] \notin {"none", "done"} => e = d
    <3>1. d # c /\ thread[d] = thread'[d] BY <1>3, <2>1, <2>4
    <3> QED BY <1>3, <2>1, <2>4, <3>1 DEF Exclusive
  <2> QED BY <1>3, <2>3, <2>4 DEF Exclusive, clientVars
<1>5. Computed' BY <1>3 DEF Computed, Remainder, clientVars
<1>6. Sales'
  <2>1. \A r \in Servers : Sold(r)' = Sold(r) BY <1>3 DEF Sold, clientVars
  <2>2. \A d \in Clients : Drawn(d)' = Drawn(d) BY <1>3 DEF Drawn
  <2>3. \A r \in Servers : Sold(r) \subseteq Clients BY DEF Sold
  <2> QED BY <1>3, <2>1, <2>2, <2>3, SalesFrame DEF Sales
<1>7. Answered' BY <1>3 DEF Answered, Up, clientVars
<1> QED BY <1>1, <1>2, <1>4, <1>5, <1>6, <1>7

(* An open of the client's FIFO moves the thread alone. *)
LEMMA OpenClientFifoStep ==
  ASSUME IInv, NEW s \in Servers, NEW c \in Clients, OpenClientFifo(s, c),
         UNCHANGED example
  PROVE  IInv'
<1> USE DEF IInv, TypeOK
<1>1. TypeOK' BY ThreadType
<1>2. Found' /\ Requested' BY ThreadFrame DEF OpenClientFifo
<1>3. /\ fdServer[c] = s /\ thread[c] = "open"
      /\ thread' = [thread EXCEPT ![c] = "write"]
      /\ UNCHANGED <<server, clientVars, next_ticket, mutex, response, wrapped, reply>>
  BY DEF OpenClientFifo, ThreadMoves, Serves
<1>4. Exclusive' BY <1>3 DEF Exclusive, clientVars
<1>5. Computed' BY <1>3 DEF Computed, Remainder, clientVars
<1>6. Sales'
  <2>1. \A r \in Servers : Sold(r)' = Sold(r) BY <1>3 DEF Sold, clientVars
  <2>2. \A d \in Clients : Drawn(d)' = Drawn(d) BY <1>3 DEF Drawn
  <2>3. \A r \in Servers : Sold(r) \subseteq Clients BY DEF Sold
  <2> QED BY <1>3, <2>1, <2>2, <2>3, SalesFrame DEF Sales
<1>7. Answered' BY <1>3 DEF Answered, Up, clientVars
<1> QED BY <1>1, <1>2, <1>4, <1>5, <1>6, <1>7

(* The answer that is sent is what the thread has drawn, and the only one. *)
LEMMA RespondStep ==
  ASSUME IInv, NEW s \in Servers, NEW c \in Clients, Respond(s, c), UNCHANGED example
  PROVE  IInv'
<1> USE DEF IInv, TypeOK
<1>1. TypeOK' BY ThreadType
<1>2. Found' /\ Requested' BY ThreadFrame DEF Respond
<1>3. /\ fdServer[c] = s /\ thread[c] = "write"
      /\ thread' = [thread EXCEPT ![c] = "done"]
      /\ reply' = [reply EXCEPT ![c] = Append(@, response[c])]
      /\ UNCHANGED <<server, clientVars, next_ticket, mutex, response, wrapped>>
  BY DEF Respond, ThreadMoves, Serves
<1>4. Exclusive' BY <1>3 DEF Exclusive, clientVars
<1>5. Computed' BY <1>3 DEF Computed, Remainder, clientVars
<1>6. Sales'
  <2>1. \A r \in Servers : Sold(r)' = Sold(r) BY <1>3 DEF Sold, clientVars
  <2>2. \A d \in Clients : Drawn(d)' = Drawn(d) BY <1>3 DEF Drawn
  <2>3. \A r \in Servers : Sold(r) \subseteq Clients BY DEF Sold
  <2> QED BY <1>3, <2>1, <2>2, <2>3, SalesFrame DEF Sales
<1>7. Answered'
  <2>1. reply[c] = <<>> BY <1>3 DEF Answered
  <2>2. Append(<<>>, response[c]) = <<response[c]>> OBVIOUS
  <2>3. reply'[c] = <<response[c]>> BY <1>3, <2>1, <2>2
  <2>4. \A d \in Clients \ {c} : reply'[d] = reply[d] /\ thread'[d] = thread[d]
    BY <1>3
  <2>5. thread'[c] = "done" BY <1>3
  <2> QED BY <1>3, <2>3, <2>4, <2>5 DEF Answered, Up, clientVars
<1> QED BY <1>1, <1>2, <1>4, <1>5, <1>6, <1>7
-----------------------------------------------------------------------------
(* From n, t tickets end at one less than the new counter, both counted modulo
   the type's width. *)
LEMMA LastTicket ==
  ASSUME NEW n \in Word, NEW t \in Word, NEW m, NEW last,
         m = (n + t) % UINT, last = (m - 1) % UINT
  PROVE  /\ m \in Word /\ last \in Word
         /\ (last + 1 - n - t) % UINT = 0
         /\ n + t < UINT => m = n + t
         /\ (n + t < UINT /\ n >= 1) => last = (n + t) - 1
<1> USE TicketServerAssumption
<1>1. n \in Int /\ t \in Int /\ n + t \in Int BY DEF Word
<1>2. m \in Word /\ m = IF n + t < UINT THEN n + t ELSE (n + t) - UINT
  <2>1. (n + t) % UINT \in Word BY <1>1, Words
  <2>2. (n + t) % UINT = IF n + t < UINT THEN n + t ELSE n + t - UINT BY Words
  <2>3. n + t - UINT = (n + t) - UINT BY <1>1
  <2> QED BY <2>1, <2>2, <2>3
<1>3. last \in Word /\ last = IF m = 0 THEN UINT - 1 ELSE m - 1
  <2>1. CASE m = 0
    <3>1. m - 1 = 0 - 1 BY <2>1
    <3>2. UINT - 1 \in Word BY DEF Word
    <3> QED BY <2>1, <3>1, <3>2, Words
  <2>2. CASE m # 0
    <3>1. m - 1 \in Word BY <1>2, <2>2 DEF Word
    <3>2. (m - 1) % UINT = m - 1 BY <3>1, Words
    <3> QED BY <2>2, <3>1, <3>2
  <2> QED BY <2>1, <2>2
<1> DEFINE sum == last + 1 - n - t
<1>4. sum \in {0, UINT, 0 - UINT}
  <2>1. last \in Int /\ m \in Int BY <1>2, <1>3 DEF Word
  <2>2. sum = (last + 1) - (n + t) BY <1>1, <2>1
  <2> HIDE DEF sum
  <2>3. CASE n + t < UINT /\ m = 0 BY <1>1, <1>2, <1>3, <2>1, <2>2, <2>3
  <2>4. CASE n + t < UINT /\ m # 0 BY <1>1, <1>2, <1>3, <2>1, <2>2, <2>4
  <2>5. CASE ~(n + t < UINT) /\ m = 0 BY <1>1, <1>2, <1>3, <2>1, <2>2, <2>5
  <2>6. CASE ~(n + t < UINT) /\ m # 0 BY <1>1, <1>2, <1>3, <2>1, <2>2, <2>6
  <2> QED BY <2>3, <2>4, <2>5, <2>6
<1>5. sum % UINT = 0
  <2> HIDE DEF sum
  <2> QED BY <1>4, Words
<1>6. (n + t < UINT /\ n >= 1) => last = (n + t) - 1
  BY <1>1, <1>2, <1>3 DEF Word
<1> QED BY <1>2, <1>3, <1>5, <1>6

(* The tickets of c follow those sold before. *)
LEMMA TicketToStep ==
  ASSUME IInv, NEW s \in Servers, NEW c \in Clients, TicketTo(s, c), UNCHANGED example
  PROVE  IInv'
<1> USE DEF IInv, TypeOK
<1> DEFINE n == next_ticket[s]  t == tickets[c]  m == next_ticket'[s]
           last == response'[c].ticket_to
<1>1. TypeOK' BY ThreadType
<1>2. ServerProgram(s).drawn \in {"unlock", "open"} BY Programs
<1>3. Found' /\ Requested' BY <1>2, ThreadFrame DEF TicketTo
<1>4. /\ fdServer[c] = s /\ thread[c] = "to"
      /\ thread' = [thread EXCEPT ![c] = ServerProgram(s).drawn]
      /\ next_ticket' = [next_ticket EXCEPT ![s] = (@ + tickets[c]) % UINT]
      /\ response' = [response EXCEPT ![c].ticket_to = (next_ticket'[s] - 1) % UINT]
      /\ wrapped' = IF next_ticket[s] + tickets[c] >= UINT
                    THEN wrapped \cup {s} ELSE wrapped
      /\ UNCHANGED <<server, clientVars, mutex, reply>>
  BY DEF TicketTo, ThreadMoves, Serves
<1>5. /\ n \in Word /\ t \in Word
      /\ response[c].ticket_from = n
      /\ response'[c].ticket_from = n
      /\ m = (n + t) % UINT /\ last = (m - 1) % UINT
  <2>1. n \in Word /\ t \in Word OBVIOUS
  <2>0. response[c] \in [ticket_from : Unset, ticket_to : Unset] OBVIOUS
  <2>2. response[c].ticket_from = n BY <1>4 DEF Computed
  <2>3. response'[c].ticket_from = n /\ last = (m - 1) % UINT BY <1>4, <2>2
  <2>4. m = (n + t) % UINT BY <1>4
  <2> QED BY <2>1, <2>2, <2>3, <2>4
<1>6. \A d \in Clients \ {c} : response'[d] = response[d] /\ thread'[d] = thread[d]
  BY <1>4
<1>7. \A r \in Servers \ {s} : next_ticket'[r] = next_ticket[r] BY <1>4
<1>8. thread'[c] \in {"unlock", "open"} /\ (thread'[c] = "unlock" <=> s \in Threaded)
  BY <1>4, Programs
<1>9. tickets' = tickets /\ fdServer' = fdServer BY <1>4 DEF clientVars
<1> HIDE DEF n, t, m, last
<1>10. /\ m \in Word /\ last \in Word
       /\ (last + 1 - n - t) % UINT = 0
       /\ n + t < UINT => m = n + t
       /\ (n + t < UINT /\ n >= 1) => last = (n + t) - 1
  BY <1>5, LastTicket
<1>11. Exclusive' BY <1>4, <1>6, <1>8, <1>9 DEF Exclusive
<1>12. Computed'
  <2>1. ASSUME NEW d \in Clients, thread'[d] = "to"
        PROVE  response'[d].ticket_from = next_ticket'[fdServer'[d]]
    <3>1. d # c /\ thread[d] = "to" BY <1>6, <1>8, <2>1
    <3>2. fdServer[d] # s BY <1>4, <3>1, AloneDrawing
    <3>3. fdServer[d] \in Servers BY <3>1, TicketServerAssumption DEF Requested
    <3> QED BY <1>6, <1>7, <1>9, <3>1, <3>2, <3>3 DEF Computed
  <2>2. ASSUME NEW d \in Clients, thread'[d] \in {"unlock", "open", "write", "done"}
        PROVE  response'[d] \in Responses /\ Remainder(d)' = 0
    <3>1. CASE d = c
      <4>1. response'[c] \in Responses BY <1>1, <1>5, <1>10 DEF Responses, last
      <4>2. Remainder(c)' = (last + 1 - n - t) % UINT
        BY <1>5, <1>9 DEF Remainder, last, t
      <4> QED BY <1>10, <3>1, <4>1, <4>2
    <3>2. CASE d # c BY <1>6, <1>9, <2>2, <3>2 DEF Computed, Remainder
    <3> QED BY <3>1, <3>2
  <2> QED BY <2>1, <2>2 DEF Computed
<1>13. Sales'
  <2>1. ASSUME NEW r \in Servers \ wrapped', r # s PROVE SalesOf(r)'
    <3>1. Sold(r)' = Sold(r) BY <1>4, <1>6, <1>9, <2>1 DEF Sold
    <3>2. c \notin Sold(r) BY <1>4 DEF Sold
    <3>3. \A d \in Sold(r) : Drawn(d)' = Drawn(d) BY <1>6, <3>2 DEF Drawn, Sold
    <3>4. SalesOf(r) BY <1>4, <2>1 DEF Sales
    <3> QED BY <1>7, <2>1, <3>1, <3>3, <3>4, SalesFrame
  <2>2. ASSUME s \notin wrapped' PROVE SalesOf(s)'
    <3>1. n + t < UINT /\ s \notin wrapped
      BY <1>4, <1>5, <2>2, TicketServerAssumption DEF n, t, Word
    <3>2. SalesOf(s) BY <3>1 DEF Sales
    <3>3. n \in Nat /\ n >= 1 /\ t \in Nat BY <1>5, <3>2 DEF SalesOf, n, Word
    <3>4. Sold(s)' = Sold(s) \cup {c} BY <1>4, <1>6, <1>8, <1>9 DEF Sold
    <3>5. c \notin Sold(s) BY <1>4 DEF Sold
    <3>6. \A d \in Sold(s) : Drawn(d)' = Drawn(d) BY <1>6, <3>5 DEF Drawn, Sold
    <3>7. Drawn(c)' = n .. ((n + t) - 1) BY <1>5, <1>10, <3>1, <3>3 DEF Drawn, last
    <3>8. m = n + t BY <1>10, <3>1
    <3>9. m >= 1 BY <3>3, <3>8
    <3>10. \A d \in Sold(s) : \A k \in Drawn(d) : k \in 1 .. (n - 1)
      BY <3>2 DEF SalesOf, n
    <3>11. \A d \in Sold(s)' : \A k \in Drawn(d)' : k \in 1 .. (m - 1)
      BY <3>3, <3>4, <3>6, <3>7, <3>8, <3>10
    <3>12. ASSUME NEW k \in 1 .. (m - 1) PROVE \E d \in Sold(s)' : k \in Drawn(d)'
      <4>1. CASE k >= n BY <3>3, <3>4, <3>7, <3>8, <4>1
      <4>2. CASE k < n
        <5>1. k \in 1 .. (next_ticket[s] - 1) BY <3>3, <4>2 DEF n
        <5>2. PICK d \in Sold(s) : k \in Drawn(d) BY <3>2, <5>1 DEF SalesOf
        <5> QED BY <3>4, <3>6, <5>2
      <4> QED BY <3>3, <3>8, <4>1, <4>2
    <3>13. ASSUME NEW d \in Sold(s)', NEW e \in Sold(s)', d # e
           PROVE  Drawn(d)' \cap Drawn(e)' = {}
      <4>1. \A f \in Sold(s) : Drawn(f)' \cap Drawn(c)' = {}
        BY <3>3, <3>6, <3>7, <3>10
      <4>2. CASE d \in Sold(s) /\ e \in Sold(s) BY <3>2, <3>6, <3>13, <4>2 DEF SalesOf
      <4> QED BY <3>4, <3>13, <4>1, <4>2
    <3> QED BY <3>9, <3>11, <3>12, <3>13 DEF SalesOf, m
  <2> QED BY <2>1, <2>2 DEF Sales
<1>14. Answered' BY <1>4, <1>6 DEF Answered, Up, clientVars
<1> QED BY <1>1, <1>3, <1>11, <1>12, <1>13, <1>14
-----------------------------------------------------------------------------
(* A client that only moves on, as far as its own FIFO needs a thread's end. *)
LEMMA ClientFrame ==
  ASSUME IInv, NEW c \in Clients, NEW to,
         /\ client' = [client EXCEPT ![c] = to]
         /\ UNCHANGED <<serverVars, tickets, fdServer, reply, printed>>,
         TypeOK',
         \/ to = "exited"
         \/ client[c] = "idle" /\ to = "openServer"
         \/ client[c] = "opening" /\ to = "write"
         \/ client[c] = "openClient" /\ to = "read" /\ thread[c] # "none"
  PROVE  IInv'
<1> USE DEF IInv, TypeOK, serverVars
<1>1. /\ client'[c] = to
      /\ \A d \in Clients \ {c} : client'[d] = client[d]
  OBVIOUS
<1>2. Found' BY <1>1 DEF Found
<1>3. Requested'
  <2>1. ASSUME NEW r \in Servers PROVE Waiting(r)'
    <3>1. Waiting(r) BY DEF Requested
    <3>2. ASSUME NEW i \in 1 .. Len(pipe[r])
          PROVE  client'[pipe[r][i]] \in {"openClient", "exited"}
      <4>1. /\ pipe[r][i] \in Clients /\ thread[pipe[r][i]] = "none"
            /\ client[pipe[r][i]] \in {"openClient", "exited"}
        BY <3>1 DEF Waiting
      <4> QED BY <1>1, <4>1
    <3> QED BY <3>1, <3>2 DEF Waiting
  <2>2. ASSUME NEW d \in Clients, thread[d] # "none"
        PROVE  client'[d] \in {"openClient", "read", "close", "exited"} /\ fdServer[d] # None
    BY <1>1, <2>2 DEF Requested
  <2> QED BY <2>1, <2>2 DEF Requested
<1>4. Exclusive' BY DEF Exclusive
<1>5. Computed' BY DEF Computed, Remainder
<1>6. Sales' BY DEF Sales, SalesOf, Sold, Drawn
<1>7. Answered' BY <1>1 DEF Answered, Up
<1> QED BY <1>2, <1>3, <1>4, <1>5, <1>6, <1>7

(* A client that opens the server's FIFO has sent no request yet. *)
LEMMA OpenServerStep ==
  ASSUME IInv, NEW c \in Clients, ClientOpenServer(c), UNCHANGED example
  PROVE  IInv'
<1> USE DEF IInv, TypeOK, serverVars
<1>1. TypeOK' BY ClientType DEF ClientMain
<1>2. /\ client[c] = "openServer"
      /\ client' = [client EXCEPT ![c] = IF link = None THEN "exited" ELSE "opening"]
      /\ fdServer' = [fdServer EXCEPT ![c] = link]
      /\ UNCHANGED <<serverVars, tickets, reply, printed>>
  BY DEF ClientOpenServer, ClientMoves
<1>3. thread[c] = "none" /\ printed[c] = <<>> /\ reply[c] = <<>>
  BY <1>2 DEF Requested, Answered
<1>4. /\ fdServer'[c] = link
      /\ client'[c] \in {"exited", "opening"} /\ (client'[c] = "opening" => link # None)
      /\ \A d \in Clients \ {c} : client'[d] = client[d] /\ fdServer'[d] = fdServer[d]
  BY <1>2
<1>5. Found' BY <1>2, <1>4 DEF Found
<1>6. Requested'
  <2>1. ASSUME NEW r \in Servers PROVE Waiting(r)'
    <3>1. Waiting(r) BY DEF Requested
    <3>2. ASSUME NEW i \in 1 .. Len(pipe[r])
          PROVE  client'[pipe[r][i]] = client[pipe[r][i]]
                 /\ fdServer'[pipe[r][i]] = fdServer[pipe[r][i]]
      <4>1. pipe[r][i] \in Clients /\ client[pipe[r][i]] \in {"openClient", "exited"}
        BY <3>1 DEF Waiting
      <4> QED BY <1>2, <1>4, <4>1
    <3> QED BY <1>2, <3>1, <3>2 DEF Waiting
  <2>2. ASSUME NEW d \in Clients, thread[d] # "none"
        PROVE  client'[d] \in {"openClient", "read", "close", "exited"} /\ fdServer'[d] # None
    BY <1>3, <1>4, <2>2 DEF Requested
  <2> QED BY <1>2, <2>1, <2>2 DEF Requested
<1>7. Exclusive' BY <1>2, <1>3, <1>4 DEF Exclusive
<1>8. Computed' BY <1>2, <1>3, <1>4 DEF Computed, Remainder
<1>9. Sales'
  <2>1. \A r \in Servers : Sold(r)' = Sold(r) BY <1>2, <1>3, <1>4 DEF Sold
  <2>2. \A d \in Clients : Drawn(d)' = Drawn(d) BY <1>2 DEF Drawn
  <2>3. \A r \in Servers : Sold(r) \subseteq Clients BY DEF Sold
  <2> QED BY <1>2, <2>1, <2>2, <2>3, SalesFrame DEF Sales
<1>10. Answered' BY <1>2, <1>3, <1>4 DEF Answered, Up
<1> QED BY <1>1, <1>5, <1>6, <1>7, <1>8, <1>9, <1>10

(* The request is written to the FIFO that was opened, once. *)
LEMMA WriteStep ==
  ASSUME IInv, NEW c \in Clients, ClientWrite(c), UNCHANGED example
  PROVE  IInv'
<1> USE DEF IInv, TypeOK
<1> DEFINE s == fdServer[c]
<1>1. TypeOK' BY ClientType DEF ClientMain
<1>2. /\ client[c] = "write"
      /\ client' = [client EXCEPT ![c] = "openClient"]
      /\ pipe' = [pipe EXCEPT ![s] = Append(@, c)]
      /\ UNCHANGED <<link, server, next_ticket, mutex, thread, response,
                     wrapped, tickets, fdServer, fifo, reply, printed>>
  BY DEF ClientWrite
<1>3. s \in Servers /\ thread[c] = "none" BY <1>2 DEF Found, Requested
<1>4. /\ client'[c] = "openClient"
      /\ \A d \in Clients \ {c} : client'[d] = client[d]
  BY <1>2
<1> HIDE DEF s
<1>5. Found' BY <1>2, <1>4 DEF Found
<1>6. \A r \in Servers : \A i \in 1 .. Len(pipe[r]) : pipe[r][i] \in Clients \ {c}
  BY <1>2 DEF Requested, Waiting
<1>7. Requested'
  <2>1. ASSUME NEW r \in Servers PROVE Waiting(r)'
    <3>1. Waiting(r) BY DEF Requested
    <3>2. ASSUME NEW i \in 1 .. Len(pipe[r])
          PROVE  client'[pipe[r][i]] \in {"openClient", "exited"}
      <4>1. client[pipe[r][i]] \in {"openClient", "exited"} BY <3>1 DEF Waiting
      <4> QED BY <1>4, <1>6, <4>1
    <3>3. CASE r # s
      <4>1. pipe'[r] = pipe[r] BY <1>2, <1>3, <3>3
      <4> QED BY <1>2, <3>1, <3>2, <4>1 DEF Waiting
    <3>4. CASE r = s
      <4>1. /\ pipe[s] \in Seq(Clients) /\ Len(pipe[s]) \in Nat
            /\ Len(pipe'[s]) = Len(pipe[s]) + 1
            /\ pipe'[s][Len(pipe[s]) + 1] = c
            /\ \A i \in 1 .. Len(pipe[s]) : pipe'[s][i] = pipe[s][i]
        BY <1>2, <1>3
      <4>2. \A i \in 1 .. Len(pipe'[s]) :
              i \in 1 .. Len(pipe[s]) \/ i = Len(pipe[s]) + 1
        BY <4>1
      <4>3. ASSUME NEW i \in 1 .. Len(pipe'[s])
            PROVE  /\ thread[pipe'[s][i]] = "none" /\ fdServer[pipe'[s][i]] = s
                   /\ client'[pipe'[s][i]] \in {"openClient", "exited"}
        <5>1. CASE i \in 1 .. Len(pipe[s])
          <6>1. pipe'[s][i] = pipe[s][i] BY <4>1, <5>1
          <6>2. thread[pipe[s][i]] = "none" /\ fdServer[pipe[s][i]] = s
            BY <3>1, <3>4, <5>1 DEF Waiting
          <6>3. client'[pipe[s][i]] \in {"openClient", "exited"} BY <3>2, <3>4, <5>1
          <6> QED BY <6>1, <6>2, <6>3
        <5>2. CASE i = Len(pipe[s]) + 1 BY <1>3, <1>4, <4>1, <5>2 DEF s
        <5> QED BY <4>2, <5>1, <5>2
      <4>4. ASSUME NEW i \in 1 .. Len(pipe'[s]), NEW j \in 1 .. Len(pipe'[s]),
                   pipe'[s][i] = pipe'[s][j]
            PROVE  i = j
        <5>1. CASE i \in 1 .. Len(pipe[s]) /\ j \in 1 .. Len(pipe[s])
          BY <3>1, <3>4, <4>1, <4>4, <5>1 DEF Waiting
        <5>2. CASE i \in 1 .. Len(pipe[s]) /\ j = Len(pipe[s]) + 1
          BY <1>3, <1>6, <4>1, <4>4, <5>2
        <5>3. CASE j \in 1 .. Len(pipe[s]) /\ i = Len(pipe[s]) + 1
          BY <1>3, <1>6, <4>1, <4>4, <5>3
        <5> QED BY <4>2, <5>1, <5>2, <5>3
      <4> QED BY <1>2, <3>4, <4>3, <4>4 DEF Waiting
    <3> QED BY <3>3, <3>4
  <2>2. ASSUME NEW d \in Clients, thread[d] # "none"
        PROVE  client'[d] \in {"openClient", "read", "close", "exited"} /\ fdServer[d] # None
    BY <1>4, <2>2 DEF Requested
  <2> QED BY <1>2, <2>1, <2>2 DEF Requested
<1>8. Exclusive' BY <1>2 DEF Exclusive
<1>9. Computed' BY <1>2 DEF Computed, Remainder
<1>10. Sales' BY <1>2 DEF Sales, SalesOf, Sold, Drawn
<1>11. Answered' BY <1>2, <1>4 DEF Answered, Up
<1> QED BY <1>1, <1>5, <1>7, <1>8, <1>9, <1>10, <1>11

(* What is read is the answer, or nothing because the server went down. *)
LEMMA ReadStep ==
  ASSUME IInv, NEW c \in Clients, ClientRead(c), UNCHANGED example
  PROVE  IInv'
<1> USE DEF IInv, TypeOK, serverVars
<1>1. TypeOK' BY ClientType DEF ClientMain
<1>2. /\ client[c] = "read"
      /\ client' = [client EXCEPT ![c] = "close"]
      /\ UNCHANGED <<serverVars, tickets, fdServer>>
  BY DEF ClientRead, ClientMoves
<1>3. printed[c] = <<>> BY <1>2 DEF Answered
<1>4. /\ client'[c] = "close"
      /\ \A d \in Clients \ {c} : client'[d] = client[d]
  BY <1>2
<1>5. Found' BY <1>2, <1>4 DEF Found
<1>6. Requested'
  <2>1. ASSUME NEW r \in Servers PROVE Waiting(r)'
    <3>1. Waiting(r) BY DEF Requested
    <3>2. ASSUME NEW i \in 1 .. Len(pipe[r])
          PROVE  client'[pipe[r][i]] \in {"openClient", "exited"}
      <4>1. pipe[r][i] \in Clients /\ client[pipe[r][i]] \in {"openClient", "exited"}
        BY <3>1 DEF Waiting
      <4> QED BY <1>2, <1>4, <4>1
    <3> QED BY <1>2, <3>1, <3>2 DEF Waiting
  <2>2. ASSUME NEW d \in Clients, thread[d] # "none"
        PROVE  client'[d] \in {"openClient", "read", "close", "exited"} /\ fdServer[d] # None
    BY <1>4, <2>2 DEF Requested
  <2> QED BY <1>2, <2>1, <2>2 DEF Requested
<1>7. Exclusive' BY <1>2 DEF Exclusive
<1>8. Computed' BY <1>2 DEF Computed, Remainder
<1>9. Sales' BY <1>2 DEF Sales, SalesOf, Sold, Drawn
<1>10. Answered'
  <2>1. \A d \in Clients \ {c} : printed'[d] = printed[d] /\ reply'[d] = reply[d]
    BY DEF ClientRead
  <2>2. CASE reply[c] # <<>>
    <3>1. reply[c] = <<response[c]>> /\ thread[c] = "done" BY <2>2 DEF Answered
    <3>2. Head(reply[c]) = response[c] /\ Tail(reply[c]) = <<>> BY <3>1
    <3>3. printed'[c] = Append(printed[c], response[c]) /\ reply'[c] = <<>>
      <4>1. /\ reply' = [reply EXCEPT ![c] = Tail(reply[c])]
            /\ printed' = [printed EXCEPT ![c] = Append(printed[c], Head(reply[c]))]
        BY <2>2 DEF ClientRead
      <4>2. reply'[c] = Tail(reply[c]) BY <4>1
      <4>3. printed'[c] = Append(printed[c], Head(reply[c])) BY <4>1
      <4> QED BY <3>2, <4>2, <4>3
    <3>4. printed'[c] = <<response[c]>> BY <1>3, <3>3
    <3> QED BY <1>2, <1>4, <2>1, <3>1, <3>3, <3>4 DEF Answered, Up
  <2>3. CASE reply[c] = <<>>
    <3>1. printed'[c] = Append(printed[c], Garbage) /\ reply'[c] = <<>> /\ ~Up(fdServer[c])
      BY <2>3 DEF ClientRead
    <3>2. printed'[c] = <<Garbage>> BY <1>3, <3>1
    <3> QED BY <1>2, <1>4, <2>1, <3>1, <3>2 DEF Answered, Up
  <2> QED BY <2>2, <2>3
<1> QED BY <1>1, <1>5, <1>6, <1>7, <1>8, <1>9, <1>10
-----------------------------------------------------------------------------
LEMMA StutterStep == IInv /\ UNCHANGED vars => IInv'
  BY DEF IInv, vars, stepVars, serverVars, clientVars, TypeOK, Found, Requested, Waiting,
         Exclusive, Computed, Remainder, Sales, SalesOf, Sold, Drawn, Answered, Up

(* Every step of a server keeps the invariant. *)
LEMMA ServerStep ==
  ASSUME IInv, NEW s \in Servers,
         ServerStart(s) \/ ServerMain(s) \/ Interrupt(s) \/ KillServer(s),
         UNCHANGED example
  PROVE  IInv'
<1>1. CASE MakeFifo(s) BY <1>1, MainStep
<1>2. CASE MakeFifoFails(s) BY <1>2, MainStep DEF MakeFifoFails
<1>3. CASE OpenFifo(s) BY <1>3, MainStep
<1>4. CASE ReadRequest(s) BY <1>4, ReadRequestStep
<1>5. CASE Interrupt(s) BY <1>5, MainStep DEF Interrupt
<1>6. CASE KillServer(s) BY <1>6, MainStep DEF KillServer
<1> QED BY <1>1, <1>2, <1>3, <1>4, <1>5, <1>6 DEF ServerStart, ServerMain

(* Every step of a thread keeps it. *)
LEMMA ThreadStep ==
  ASSUME IInv, NEW s \in Servers, NEW c \in Clients, process(s, c), UNCHANGED example
  PROVE  IInv'
<1>1. CASE Lock(s, c) BY <1>1, LockStep
<1>2. CASE TicketFrom(s, c) BY <1>2, TicketFromStep
<1>3. CASE TicketTo(s, c) BY <1>3, TicketToStep
<1>4. CASE Unlock(s, c) BY <1>4, UnlockStep
<1>5. CASE OpenClientFifo(s, c) BY <1>5, OpenClientFifoStep
<1>6. CASE OpenClientFifoFails(s, c) BY <1>6, MainStep DEF OpenClientFifoFails
<1>7. CASE Respond(s, c) BY <1>7, RespondStep
<1>8. CASE BrokenPipe(s, c) BY <1>8, MainStep DEF BrokenPipe
<1> QED BY <1>1, <1>2, <1>3, <1>4, <1>5, <1>6, <1>7, <1>8 DEF process

(* Every step of a client keeps it. *)
LEMMA ClientStep ==
  ASSUME IInv, NEW c \in Clients,
         MakeOwnFifo(c) \/ ClientMain(c) \/ ClientKilled(c), UNCHANGED example
  PROVE  IInv'
<1>0. TypeOK' BY ClientType
<1>1. CASE MakeOwnFifo(c) BY <1>0, <1>1, ClientFrame DEF MakeOwnFifo, ClientMoves
<1>2. CASE ClientOpenServer(c) BY <1>2, OpenServerStep
<1>3. CASE ClientOpened(c) BY <1>0, <1>3, ClientFrame DEF ClientOpened, ClientMoves
<1>4. CASE ClientWrite(c) BY <1>4, WriteStep
<1>5. CASE ClientBrokenPipe(c) BY <1>0, <1>5, ClientFrame DEF ClientBrokenPipe, ClientMoves
<1>6. CASE ClientOpenOwn(c) BY <1>0, <1>6, ClientFrame DEF ClientOpenOwn, ClientMoves
<1>7. CASE ClientRead(c) BY <1>7, ReadStep
<1>8. CASE ClientUnlink(c) BY <1>0, <1>8, ClientFrame DEF ClientUnlink, ClientMoves
<1>9. CASE ClientKilled(c) BY <1>0, <1>9, ClientFrame DEF ClientKilled, ClientMoves
<1> QED BY <1>1, <1>2, <1>3, <1>4, <1>5, <1>6, <1>7, <1>8, <1>9 DEF ClientMain

(* It holds in every reachable state. *)
LEMMA Invariance == Spec => []IInv
<1>1. Init => IInv BY InitIInv
<1>2. IInv /\ [Next]_vars => IInv'
  BY StutterStep, ServerStep, ThreadStep, ClientStep DEF Next
<1> QED BY <1>1, <1>2, PTL DEF Spec

(* The variables of TicketServer keep their types. *)
THEOREM TypeCorrect == Spec => []TypeOK
<1>1. IInv => TypeOK BY DEF IInv
<1> QED BY <1>1, Invariance, PTL

(* The threads of a server, whatever their order, sell its tickets once each
   and leave none out (multithread_server_fifo.c 67-79): the mutex, or the one
   request at a time of fifoserver.c, keeps the first ticket of an answer equal
   to the counter that its last ticket is drawn from. *)
THEOREM SoldOnce == Spec => []TicketsSoldOnce
<1>1. IInv => TicketsSoldOnce
  <2> SUFFICES ASSUME IInv, NEW s \in Servers \ wrapped
               PROVE  /\ UNION {Drawn(c) : c \in Sold(s)} = 1 .. (next_ticket[s] - 1)
                      /\ \A c, d \in Sold(s) : c # d => Drawn(c) \cap Drawn(d) = {}
    BY DEF TicketsSoldOnce
  <2>1. SalesOf(s) BY DEF IInv, Sales
  <2>2. \A n : (\E c \in Sold(s) : n \in Drawn(c)) <=> n \in 1 .. (next_ticket[s] - 1)
    BY <2>1 DEF SalesOf
  <2> QED BY <2>1, <2>2 DEF SalesOf
<1> QED BY <1>1, Invariance, PTL

(* A client prints the tickets drawn for its own request, as many as it asked
   for, and prints garbage only if its server is down (fifoclient.c 128-134). *)
THEOREM OwnTickets == Spec => []PrintsOwnTickets
<1>1. IInv => PrintsOwnTickets
  <2> SUFFICES ASSUME IInv, NEW c \in Clients, printed[c] # <<>>
               PROVE  \/ /\ printed[c] = <<response[c]>> /\ thread[c] = "done"
                         /\ Remainder(c) = 0
                      \/ printed[c] = <<Garbage>> /\ ~Up(fdServer[c])
    BY DEF PrintsOwnTickets, Remainder
  <2> QED BY DEF IInv, Answered, Computed
<1> QED BY <1>1, Invariance, PTL
=============================================================================
