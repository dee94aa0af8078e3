---------------------------- MODULE SignalBuffer ----------------------------
(***************************************************************************)
(* A count of units under a mutex, changed by producer and consumer        *)
(* threads.  Five programs of this kind differ in their bounds, in the     *)
(* number of threads, in when they signal, and in what a thread does that  *)
(* finds the buffer full or empty:                                         *)
(*                                                                         *)
(*   practice3b           practice/practice3b/practice3b.c                 *)
(*   exercise3b           practice/practice3b/exercise3b.c                 *)
(*   produconsu2          thread/produconsu2.c                             *)
(*   produconsu           thread/produconsu.c                              *)
(*   producerconsumer1    thread/producerconsumer1.c                       *)
(*                                                                         *)
(* A program is described by three records, for its two kinds of thread    *)
(* and for main; the steps of the threads are those of practice3b.c.       *)
(* Sleeps are left out: a thread may stay at "lock" as long as it likes.   *)
(***************************************************************************)
EXTENDS Integers, FiniteSets

CONSTANTS Producers, Consumers,   (* the threads argv asks for             *)
          min_units, max_units    (* the arguments of practice3b           *)

ASSUME SignalBufferAssumption ==
  /\ min_units \in Nat \ {0} /\ max_units \in Nat \ {0}
  /\ Producers # {} /\ Consumers # {} /\ Producers \cap Consumers = {}
  /\ IsFiniteSet(Producers) /\ IsFiniteSet(Consumers)
  /\ "nobody" \notin Producers \cup Consumers

VARIABLES
  program,    (* which of the programs runs                                *)
  count,      (* count, product or numberOfUnits                           *)
  mutex,      (* the thread that holds the mutex, or "nobody"              *)
  thread,     (* where each thread is; "none" before it is created         *)
  exited      (* the process has ended                                     *)

vars == <<program, count, mutex, thread, exited>>

Thread == Producers \cup Consumers
-----------------------------------------------------------------------------
(* The programs.  bound is the count at which a thread of the kind cannot
   go on; waits says that it then waits for a condition instead of trying
   again later; signals are the counts it has just made at which it signals
   the other kind; threads are those that main creates. *)

MAX_SIZE == 10
MAX_BUFFER_SIZE == 5

TwoThreads == {CHOOSE p \in Producers : TRUE, CHOOSE c \in Consumers : TRUE}

(* Fault: a producer signals at the edge only. *)
SignalsAtEdge      == [bound |-> max_units, waits |-> TRUE,
                       signals |-> {min_units + 1}]

Practice3bProducer == [bound |-> max_units, waits |-> TRUE,
                       signals |-> {n \in Nat : n > min_units}]
Practice3bConsumer == [bound |-> min_units, waits |-> TRUE,
                       signals |-> {n \in Nat : n < max_units}]
Practice3bMain     == [first |-> 0, threads |-> Thread]

Exercise3bProducer == [bound |-> MAX_SIZE, waits |-> TRUE, signals |-> {1}]
Exercise3bConsumer == [bound |-> 0, waits |-> TRUE,
                       signals |-> {MAX_SIZE - 1}]
Exercise3bMain     == [first |-> 5, threads |-> Thread]

Produconsu2Producer == [bound |-> MAX_BUFFER_SIZE, waits |-> TRUE,
                        signals |-> Nat]
Produconsu2Consumer == [bound |-> 0, waits |-> TRUE, signals |-> Nat]
Produconsu2Main     == [first |-> 0, threads |-> TwoThreads]

ProduconsuProducer == [bound |-> MAX_BUFFER_SIZE, waits |-> FALSE,
                       signals |-> {}]
ProduconsuConsumer == [bound |-> 0, waits |-> FALSE, signals |-> {}]
ProduconsuMain     == [first |-> 0, threads |-> TwoThreads]

Producerconsumer1Producer == ProduconsuProducer
Producerconsumer1Consumer == ProduconsuConsumer
Producerconsumer1Main     == ProduconsuMain

Programs == {"practice3b", "exercise3b", "produconsu2", "produconsu",
             "producerconsumer1"}

producer == CASE program = "practice3b"        -> Practice3bProducer
              [] program = "exercise3b"        -> Exercise3bProducer
              [] program = "produconsu2"       -> Produconsu2Producer
              [] program = "produconsu"        -> ProduconsuProducer
              [] program = "producerconsumer1" -> Producerconsumer1Producer

consumer == CASE program = "practice3b"        -> Practice3bConsumer
              [] program = "exercise3b"        -> Exercise3bConsumer
              [] program = "produconsu2"       -> Produconsu2Consumer
              [] program = "produconsu"        -> ProduconsuConsumer
              [] program = "producerconsumer1" -> Producerconsumer1Consumer

MainOf(p) == CASE p = "practice3b"        -> Practice3bMain
               [] p = "exercise3b"        -> Exercise3bMain
               [] p = "produconsu2"       -> Produconsu2Main
               [] p = "produconsu"        -> ProduconsuMain
               [] p = "producerconsumer1" -> Producerconsumer1Main

Init == /\ program \in Programs
        /\ count = MainOf(program).first
        /\ mutex = "nobody"
        /\ thread = [t \in Thread |-> "none"]
        /\ exited = FALSE
-----------------------------------------------------------------------------
(* main: producers first, then consumers.  A creation that fails ends the
   process with all its threads. *)

NextToCreate(t) == /\ ~exited
                   /\ t \in MainOf(program).threads /\ thread[t] = "none"
                   /\ t \in Consumers =>
                        \A p \in Producers \cap MainOf(program).threads :
                          thread[p] # "none"

Create(t) == /\ NextToCreate(t)
             /\ thread' = [thread EXCEPT ![t] = "lock"]
             /\ UNCHANGED <<program, count, mutex, exited>>

CreateFails == /\ \E t \in Thread : NextToCreate(t)
               /\ exited' = TRUE
               /\ UNCHANGED <<program, count, mutex, thread>>
-----------------------------------------------------------------------------
Move(t, from, to) == /\ ~exited /\ thread[t] = from
                     /\ thread' = [thread EXCEPT ![t] = to]
                     /\ UNCHANGED <<program, exited>>

(* pthread_mutex_lock, also inside pthread_cond_wait after a wake-up. *)
Lock(t) == /\ Move(t, "lock", "test") \/ Move(t, "woken", "test")
           /\ mutex = "nobody" /\ mutex' = t
           /\ UNCHANGED count

(* A thread that cannot go on either waits for the condition, which releases
   the mutex and sleeps in one step, or just unlocks. *)
CondWait(t, kind) == /\ kind.waits
                     /\ Move(t, "test", "waiting")
                     /\ mutex' = "nobody"
                     /\ UNCHANGED count

TryLater(t, kind) == /\ ~kind.waits
                     /\ Move(t, "test", "unlock")
                     /\ UNCHANGED <<count, mutex>>

(* pthread_cond_wait may also return without a signal. *)
SpuriousWake(t) == /\ Move(t, "waiting", "woken")
                   /\ UNCHANGED <<count, mutex>>

(* Fault: a consumer takes at the minimum, though never from nothing. *)
HasUnitAtMinimum == count >= consumer.bound /\ count > 0

HasSpace == count < producer.bound
HasUnit  == count > consumer.bound

Change(t, n, kind) == /\ count' = n
                      /\ Move(t, "test",
                              IF n \in kind.signals THEN "signal" ELSE "unlock")
                      /\ UNCHANGED mutex

Increase(t) == HasSpace /\ Change(t, count + 1, producer)
Decrease(t) == HasUnit /\ Change(t, count - 1, consumer)

Asleep(kind) == {t \in kind : thread[t] = "waiting"}

(* pthread_cond_signal wakes one thread of the other kind, if any waits. *)
Signal(t, others) ==
  /\ ~exited /\ thread[t] = "signal"
  /\ IF Asleep(others) = {}
     THEN thread' = [thread EXCEPT ![t] = "unlock"]
     ELSE \E s \in Asleep(others) :
            thread' = [thread EXCEPT ![t] = "unlock", ![s] = "woken"]
  /\ UNCHANGED <<program, count, mutex, exited>>

Unlock(t) == /\ Move(t, "unlock", "lock")
             /\ mutex' = "nobody"
             /\ UNCHANGED count

ProducerMoves(t) ==
  \/ Lock(t) \/ Increase(t) \/ Signal(t, Consumers) \/ Unlock(t)
  \/ ~HasSpace /\ (CondWait(t, producer) \/ TryLater(t, producer))

ConsumerMoves(t) ==
  \/ Lock(t) \/ Decrease(t) \/ Signal(t, Producers) \/ Unlock(t)
  \/ ~HasUnit /\ (CondWait(t, consumer) \/ TryLater(t, consumer))

Next == \/ \E t \in Thread : Create(t)
        \/ CreateFails
        \/ \E t \in Producers : ProducerMoves(t)
        \/ \E t \in Consumers : ConsumerMoves(t)
        \/ \E t \in Thread : SpuriousWake(t)

Spec == Init /\ [][Next]_vars
-----------------------------------------------------------------------------
TypeOK ==
  /\ program \in Programs
  /\ count \in Nat
  /\ mutex \in Thread \cup {"nobody"}
  /\ thread \in [Thread -> {"none", "lock", "test", "waiting", "woken",
                            "signal", "unlock"}]
  /\ exited \in BOOLEAN

(* Whoever looks at the count holds the mutex. *)
LooksUnderMutex ==
  \A t \in Thread : thread[t] \in {"test", "signal", "unlock"} <=> mutex = t

InBounds == count \in 0 .. producer.bound

StaysAboveMinimum == count >= consumer.bound => count' >= consumer.bound

(* The requirements in the headers of producerconsumer1.c (4-7), exercise3b.c
   (10-11) and practice3b.c (12-13): exclusive use of the buffer, no underflow
   and no overflow, and never fewer units than the minimum, with any number of
   threads that wake up together.  practice3b.c starts with an empty buffer
   (34), below its minimum, so what its consumers can keep is that the units
   never fall below the minimum again once they have reached it. *)
Requirements == /\ [](LooksUnderMutex /\ InBounds)
                /\ [][StaysAboveMinimum]_vars

(* No lost wake-up in the programs that signal at every change (practice3b.c
   67-71 and 113-117, produconsu2.c 43 and 84): threads of a kind sleep only
   while for each unit (each free place) that they could take another thread
   of the kind is awake and about to test the count, or a signal is about to
   be sent. *)
AboutToTest(kind) == {t \in kind : thread[t] \in {"woken", "test"}}
AboutToSignal(kind) == {t \in kind : thread[t] = "signal"}

SleepersMatchUnits ==
  program \in {"practice3b", "produconsu2"} =>
    /\ Asleep(Consumers) # {} =>
         count - consumer.bound <= Cardinality(AboutToTest(Consumers))
                                   + Cardinality(AboutToSignal(Producers))
    /\ Asleep(Producers) # {} =>
         producer.bound - count <= Cardinality(AboutToTest(Producers))
                                   + Cardinality(AboutToSignal(Consumers))

(* Signals at the edges only (exercise3b.c 62 and 122) do less, but in every
   program the threads of a kind do not all sleep when one could go on, and
   all threads sleep for good only when the minimum leaves no room below the
   maximum. *)
NotAllAsleep ==
  /\ Consumers \cap MainOf(program).threads \subseteq Asleep(Consumers)
       => ~HasUnit \/ AboutToSignal(Producers) # {}
  /\ Producers \cap MainOf(program).threads \subseteq Asleep(Producers)
       => ~HasSpace \/ AboutToSignal(Consumers) # {}
  /\ MainOf(program).threads = Asleep(Thread)
       => consumer.bound >= producer.bound

(* Both: no wake-up is lost that a program's own signals promise. *)
NoLostWakeUp == SleepersMatchUnits /\ NotAllAsleep
=============================================================================
