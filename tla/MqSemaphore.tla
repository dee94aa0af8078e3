---------------------------- MODULE MqSemaphore ----------------------------
(***************************************************************************)
(* A semaphore made of a POSIX message queue: its value is the number of   *)
(* messages.  Two programs in os/assignment use one each:                  *)
(*                                                                         *)
(*   semaphore   semaphore.c: one thread only signals, one only waits      *)
(*   test        test.c: both threads wait, work and signal, as round a    *)
(*               mutex, and open the queue by name in each call            *)
(*                                                                         *)
(* The threads loop for ever, so a run ends when it is killed and neither  *)
(* sem_close nor semaphore_destroy is ever reached: the queue and what it  *)
(* holds stay for the next run and are shared with a run beside it.        *)
(* get_value only feeds the output and is left out.                        *)
(***************************************************************************)
EXTENDS Integers, FiniteSets

CONSTANTS Processes,   (* processes that run the program                   *)
          MaxRuns      (* bound: how often a process is started            *)

VARIABLES semProgram,   (* "semaphore" or "test"                           *)
          tokens,       (* the messages in the queue                       *)
          stage,        (* what each process does                          *)
          toSend,       (* initial tokens its main has still to send       *)
          inside,       (* threads of test.c between wait and signal       *)
          runs          (* processes started so far                        *)

semVars == <<semProgram, tokens, stage, toSend, inside, runs>>

Kinds == {"producer", "consumer"}

SemaphoreMain == [init_value |-> 5, max_value |-> 10]
TestMain      == [init_value |-> 1, max_value |-> 10]

sem == IF semProgram = "semaphore" THEN SemaphoreMain ELSE TestMain

SemInit == /\ semProgram \in {"semaphore", "test"}
           /\ tokens = 0
           /\ stage = [p \in Processes |-> "off"]
           /\ toSend = [p \in Processes |-> 0]
           /\ inside = {}
           /\ runs = 0
-----------------------------------------------------------------------------
mq_send_anyway == tokens' = tokens + 1           (* fault: no limit *)
mq_peek        == tokens > 0 /\ tokens' = tokens  (* fault: nothing taken *)

(* The queue: a sender waits while it is full, a receiver while it is
   empty. *)
mq_send    == tokens < sem.max_value /\ tokens' = tokens + 1
mq_receive == tokens > 0 /\ tokens' = tokens - 1

Start(p) == /\ stage[p] = "off" /\ runs < MaxRuns
            /\ stage' = [stage EXCEPT ![p] = "open"]
            /\ toSend' = [toSend EXCEPT ![p] = sem.init_value]
            /\ runs' = runs + 1
            /\ UNCHANGED <<semProgram, tokens, inside>>

Kill(p) == /\ stage[p] # "off"
           /\ stage' = [stage EXCEPT ![p] = "off"]
           /\ inside' = {t \in inside : t[1] # p}
           /\ UNCHANGED <<semProgram, tokens, toSend, runs>>

(* mq_open with O_CREAT finds the queue or makes it, and in both cases main
   then sends the initial tokens before it creates the threads. *)
OpenQueue(p) ==
  /\ stage[p] = "open"
  /\ IF toSend[p] > 0
     THEN /\ mq_send
          /\ toSend' = [toSend EXCEPT ![p] = @ - 1]
          /\ UNCHANGED stage
     ELSE /\ stage' = [stage EXCEPT ![p] = "threads"]
          /\ UNCHANGED <<tokens, toSend>>
  /\ UNCHANGED <<semProgram, inside, runs>>

sem_open(p)       == semProgram = "semaphore" /\ OpenQueue(p)
semaphore_init(p) == semProgram = "test" /\ OpenQueue(p)

SemaphoreThread(p) == /\ semProgram = "semaphore" /\ stage[p] = "threads"
                      /\ UNCHANGED <<semProgram, stage, toSend, inside, runs>>

producer(p) == SemaphoreThread(p) /\ mq_send      (* signal *)
consumer(p) == SemaphoreThread(p) /\ mq_receive   (* wait *)

TestThread(p) == /\ semProgram = "test" /\ stage[p] = "threads"
                 /\ UNCHANGED <<semProgram, stage, toSend, runs>>

semaphore_wait(p, kind) == /\ TestThread(p) /\ <<p, kind>> \notin inside
                           /\ mq_receive
                           /\ inside' = inside \cup {<<p, kind>>}

semaphore_signal(p, kind) == /\ TestThread(p) /\ <<p, kind>> \in inside
                             /\ mq_send
                             /\ inside' = inside \ {<<p, kind>>}

SemNext == \E p \in Processes :
             \/ Start(p) \/ Kill(p)
             \/ sem_open(p) \/ producer(p) \/ consumer(p)
             \/ semaphore_init(p)
             \/ \E kind \in Kinds :
                  semaphore_wait(p, kind) \/ semaphore_signal(p, kind)

SemSpec == SemInit /\ [][SemNext]_semVars
-----------------------------------------------------------------------------
SemTypeOK ==
  /\ semProgram \in {"semaphore", "test"}
  /\ tokens \in 0 .. sem.max_value
  /\ stage \in [Processes -> {"off", "open", "threads"}]
  /\ toSend \in [Processes -> 0 .. sem.init_value]
  /\ inside \subseteq Processes \X Kinds
  /\ runs \in 0 .. MaxRuns

(* What is left of the semaphore across runs (semaphore.c 115, "if not create
   ignore the init_value", which a queue that exists already does not meet).
   The first run is right: in test.c one thread at most is between wait and
   signal (test.c 128), and main does not hang while it sends the initial
   tokens.  Each further run gives the threads of test.c one token more and
   no other step does, so that many of them may be inside together. *)
Sent(p) == IF stage[p] = "open" THEN toSend[p] ELSE 0

OneTokenPerRun ==
  /\ semProgram = "test" =>
       /\ tokens + Cardinality(inside)
            + Cardinality({p \in Processes : Sent(p) > 0}) <= runs
       /\ runs = 1 /\ (\A p \in Processes : stage[p] # "off" => Sent(p) = 0)
            /\ (\E p \in Processes : stage[p] = "threads")
            => tokens + Cardinality(inside) = 1
  /\ runs = 1 =>
       \A p \in Processes : Sent(p) > 0 => tokens < sem.max_value
=============================================================================
