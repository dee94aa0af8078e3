----------------------------- MODULE CondBuffer -----------------------------
(***************************************************************************)
(* thread/producerconsumer_cond.c: one producer and one consumer thread    *)
(* count units under a mutex and wait on two condition variables.  Each    *)
(* signals the other only when the count has just left its bound: the      *)
(* producer when it has become 1, the consumer when it has become          *)
(* MAX_BUFFER_SIZE - 1.                                                    *)
(***************************************************************************)
EXTENDS Integers

CONSTANT MAX_BUFFER_SIZE   (* 5 in the code *)

ASSUME CondBufferAssumption == MAX_BUFFER_SIZE \in Nat \ {0}

VARIABLES
  numberOfUnits,
  mutex,          (* the thread that holds the mutex, or "nobody"          *)
  pc,             (* where each thread is; "none" before it is created     *)
  main            (* where the main thread is                              *)

vars == <<numberOfUnits, mutex, pc, main>>

Thread == {"producer", "consumer"}

TypeOK ==
  /\ numberOfUnits \in Nat
  /\ mutex \in Thread \cup {"nobody"}
  /\ pc \in [Thread -> {"none", "lock", "test", "waiting", "woken", "signal",
                        "unlock"}]
  /\ main \in {"thread1", "thread2", "join", "exited"}

Init == /\ numberOfUnits = 0
        /\ mutex = "nobody"
        /\ pc = [t \in Thread |-> "none"]
        /\ main = "thread1"
-----------------------------------------------------------------------------
(* main: the producer is created first.  A creation that fails ends the
   process with the threads it has. *)

Create(t, from, to) == /\ main = from /\ main' = to
                       /\ pc' = [pc EXCEPT ![t] = "lock"]
                       /\ UNCHANGED <<numberOfUnits, mutex>>

CreateThreads == \/ Create("producer", "thread1", "thread2")
                 \/ Create("consumer", "thread2", "join")

CreateFails == /\ main \in {"thread1", "thread2"}
               /\ main' = "exited"
               /\ UNCHANGED <<numberOfUnits, mutex, pc>>
-----------------------------------------------------------------------------
Running == main # "exited"

Move(t, from, to) == /\ Running /\ pc[t] = from
                     /\ pc' = [pc EXCEPT ![t] = to]
                     /\ UNCHANGED main

(* pthread_mutex_lock, also inside pthread_cond_wait after a wake-up. *)
Lock(t) == /\ Move(t, "lock", "test") \/ Move(t, "woken", "test")
           /\ mutex = "nobody" /\ mutex' = t
           /\ UNCHANGED numberOfUnits

(* pthread_cond_wait releases the mutex and sleeps in one step. *)
CondWait(t) == /\ Move(t, "test", "waiting")
               /\ mutex' = "nobody"
               /\ UNCHANGED numberOfUnits

(* pthread_cond_wait may also return without a signal. *)
SpuriousWake(t) == /\ Move(t, "waiting", "woken")
                   /\ UNCHANGED <<numberOfUnits, mutex>>

(* Fault: the signal goes to the condition variable of the caller itself. *)
SignalOwn(t, other) == /\ Move(t, "signal", "unlock")
                       /\ UNCHANGED <<numberOfUnits, mutex>>

(* pthread_cond_signal wakes the other thread if it waits. *)
Signal(t, other) ==
  /\ Running /\ pc[t] = "signal"
  /\ pc' = [pc EXCEPT ![t] = "unlock",
                      ![other] = IF @ = "waiting" THEN "woken" ELSE @]
  /\ UNCHANGED <<numberOfUnits, mutex, main>>

Unlock(t) == /\ Move(t, "unlock", "lock")
             /\ mutex' = "nobody"
             /\ UNCHANGED numberOfUnits

(* Fault: the bound is off by one. *)
HasSpaceOffByOne == numberOfUnits <= MAX_BUFFER_SIZE

HasSpace == numberOfUnits < MAX_BUFFER_SIZE
HasUnit  == numberOfUnits > 0

(* Fault: the count is compared before it has changed. *)
DecreaseEarlyTest == /\ HasUnit
                     /\ numberOfUnits' = numberOfUnits - 1
                     /\ Move("consumer", "test",
                             IF numberOfUnits = MAX_BUFFER_SIZE - 1
                             THEN "signal" ELSE "unlock")
                     /\ UNCHANGED mutex

Increase == /\ HasSpace
            /\ numberOfUnits' = numberOfUnits + 1
            /\ Move("producer", "test",
                    IF numberOfUnits' = 1 THEN "signal" ELSE "unlock")
            /\ UNCHANGED mutex

Decrease == /\ HasUnit
            /\ numberOfUnits' = numberOfUnits - 1
            /\ Move("consumer", "test",
                    IF numberOfUnits' = MAX_BUFFER_SIZE - 1
                    THEN "signal" ELSE "unlock")
            /\ UNCHANGED mutex

producer == \/ Lock("producer") \/ (~HasSpace /\ CondWait("producer"))
            \/ Increase \/ Signal("producer", "consumer") \/ Unlock("producer")

consumer == \/ Lock("consumer") \/ (~HasUnit /\ CondWait("consumer"))
            \/ Decrease \/ Signal("consumer", "producer") \/ Unlock("consumer")

Next == \/ CreateThreads \/ CreateFails \/ producer \/ consumer
        \/ (\E t \in Thread : SpuriousWake(t))

Spec == Init /\ [][Next]_vars

(* Both threads sleep between their turns and find the mutex free again and
   again: each gets it in the end. *)
Fairness == /\ WF_vars(CreateThreads)
            /\ WF_vars(producer) /\ SF_vars(Lock("producer"))
            /\ WF_vars(consumer) /\ SF_vars(Lock("consumer"))

FairSpec == Spec /\ Fairness
-----------------------------------------------------------------------------
(* The requirements of lines 5-7: whoever looks at numberOfUnits holds the
   mutex, there is no underflow and no overflow. *)
Requirements ==
  /\ \A t \in Thread : pc[t] \in {"test", "signal", "unlock"} => mutex = t
  /\ numberOfUnits \in 0 .. MAX_BUFFER_SIZE

(* No lost wake-up, although signals are sent only at the edges (60, 111):
   a thread sleeps only while its condition is false, or the other thread is
   about to signal it; the two never sleep at the same time. *)
NoLostWakeUp ==
  /\ pc["consumer"] = "waiting" /\ HasUnit  => pc["producer"] = "signal"
  /\ pc["producer"] = "waiting" /\ HasSpace => pc["consumer"] = "signal"

(* A producer that blocks goes on in the end, and so does a consumer. *)
BlockedGoOn == \A t \in Thread :
  (pc[t] = "waiting" /\ main = "join") ~> pc[t] = "unlock"
=============================================================================
