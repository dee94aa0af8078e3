--------------------------- MODULE MessageCounter ---------------------------
(***************************************************************************)
(* numMessages in shared memory, which practice/practice6/pr62producer.c   *)
(* increases and pr62consumer.c decreases, between named POSIX semaphores. *)
(*                                                                         *)
(* The producer makes the three semaphores and the memory under their      *)
(* names if they are not there, and removes the names when it exits; a set *)
(* of the four is a "generation".  A killed producer leaves the names      *)
(* behind, and a consumer keeps what it has opened.  There is one producer *)
(* and one consumer at a time, each of which may be stopped, killed and    *)
(* started again.  That a consumer finds some of the names missing and     *)
(* exits is covered by ConsumerKilled.                                     *)
(***************************************************************************)
EXTENDS Integers, Sequences

CONSTANTS MSG_COUNT,   (* 10 in the code                                   *)
          MaxProducers, MaxConsumers   (* bounds: how often they start     *)

VARIABLES
  names,      (* the generation the names mean, or 0                       *)
  made,       (* generations made so far                                   *)
  full, empty, semMutex, numMessages,   (* the objects of each generation  *)
  prod,       (* the producer: where it is, its generation, what it read   *)
  cons,       (* the consumer: where it is, what it opened, what it read   *)
  prodStarts, consStarts,
  reused,     (* some producer was started on what a killed one left       *)
  mixed       (* some consumer opened objects of different generations     *)

objects == <<full, empty, semMutex, numMessages>>
msgVars == <<names, made, objects, prod, cons, prodStarts, consStarts, reused,
             mixed>>

Generations == 1 .. MaxProducers

NoProducer == [at |-> "off", gen |-> 0, read |-> 0]
NoConsumer == [at |-> "off", opened |-> <<>>, read |-> 0]

MsgInit == /\ names = 0 /\ made = 0
           /\ full = [g \in Generations |-> 0]
           /\ empty = [g \in Generations |-> MSG_COUNT]
           /\ semMutex = [g \in Generations |-> 1]
           /\ numMessages = [g \in Generations |-> 0]
           /\ prod = NoProducer /\ cons = NoConsumer
           /\ prodStarts = 0 /\ consStarts = 0
           /\ reused = FALSE /\ mixed = FALSE
-----------------------------------------------------------------------------
sem_wait(sem, g) == sem[g] > 0 /\ sem' = [sem EXCEPT ![g] = @ - 1]
sem_post(sem, g) == sem' = [sem EXCEPT ![g] = @ + 1]

(* sem_open with O_CREAT takes what is there, whatever its value. *)
ProducerStarts ==
  /\ prod.at = "off" /\ prodStarts < MaxProducers
  /\ prodStarts' = prodStarts + 1
  /\ names' = IF names = 0 THEN made + 1 ELSE names
  /\ made' = IF names = 0 THEN made + 1 ELSE made
  /\ reused' = (reused \/ names # 0)
  /\ prod' = [at |-> "init", gen |-> names', read |-> 0]
  /\ UNCHANGED <<objects, cons, consStarts, mixed>>

ProducerStep(from, to) ==
  /\ prod.at = from
  /\ prod' = [prod EXCEPT !.at = to]
  /\ UNCHANGED <<names, made, cons, prodStarts, consStarts, reused, mixed>>

(* The memory is reset without the mutex. *)
ResetMessages == /\ ProducerStep("init", "waitEmpty")
                 /\ numMessages' = [numMessages EXCEPT ![prod.gen] = 0]
                 /\ UNCHANGED <<full, empty, semMutex>>

WaitEmpty == /\ ProducerStep("waitEmpty", "waitMutex")
             /\ sem_wait(empty, prod.gen)
             /\ UNCHANGED <<full, semMutex, numMessages>>

(* Fault: the producer does not wait for the mutex. *)
ProducerLocksAtOnce ==
  /\ ProducerStep("waitMutex", "read")
  /\ semMutex' = [semMutex EXCEPT ![prod.gen] = IF @ > 0 THEN @ - 1 ELSE 0]
  /\ UNCHANGED <<full, empty, numMessages>>

ProducerLocks == /\ ProducerStep("waitMutex", "read")
                 /\ sem_wait(semMutex, prod.gen)
                 /\ UNCHANGED <<full, empty, numMessages>>

ProducerReads ==
  /\ prod.at = "read"
  /\ prod' = [prod EXCEPT !.at = "write", !.read = numMessages[prod.gen]]
  /\ UNCHANGED <<objects, names, made, cons, prodStarts, consStarts, reused,
                 mixed>>

Increase == /\ ProducerStep("write", "postMutex")
            /\ numMessages' = [numMessages EXCEPT ![prod.gen] = prod.read + 1]
            /\ UNCHANGED <<full, empty, semMutex>>

ProducerUnlocks == /\ ProducerStep("postMutex", "postFull")
                   /\ sem_post(semMutex, prod.gen)
                   /\ UNCHANGED <<full, empty, numMessages>>

PostFull == /\ ProducerStep("postFull", "waitEmpty")
            /\ sem_post(full, prod.gen)
            /\ UNCHANGED <<empty, semMutex, numMessages>>

(* Control-C runs cleanup, which removes the names; a kill does not. *)
ProducerStops(namesLeft) ==
  /\ prod.at # "off" /\ prod' = NoProducer
  /\ names' = namesLeft
  /\ UNCHANGED <<made, objects, cons, prodStarts, consStarts, reused, mixed>>

ProducerInterrupted == ProducerStops(0)
ProducerKilled      == ProducerStops(names)
-----------------------------------------------------------------------------
ConsumerStarts ==
  /\ cons.at = "off" /\ consStarts < MaxConsumers
  /\ consStarts' = consStarts + 1
  /\ cons' = [NoConsumer EXCEPT !.at = "open"]
  /\ UNCHANGED <<names, made, objects, prod, prodStarts, reused, mixed>>

(* The full, empty and mutex semaphores and the memory are opened one after
   the other. *)
ConsumerOpens ==
  /\ cons.at = "open" /\ names # 0
  /\ LET opened == Append(cons.opened, names)
     IN /\ cons' = [cons EXCEPT !.opened = opened,
                                !.at = IF Len(opened) = 4 THEN "waitFull"
                                                          ELSE "open"]
        /\ mixed' = (mixed \/ \E i \in DOMAIN opened : opened[i] # names)
  /\ UNCHANGED <<names, made, objects, prod, prodStarts, consStarts, reused>>

ConsumerStep(from, to) ==
  /\ cons.at = from
  /\ cons' = [cons EXCEPT !.at = to]
  /\ UNCHANGED <<names, made, prod, prodStarts, consStarts, reused, mixed>>

WaitFull == /\ ConsumerStep("waitFull", "waitMutex")
            /\ sem_wait(full, cons.opened[1])
            /\ UNCHANGED <<empty, semMutex, numMessages>>

ConsumerLocks == /\ ConsumerStep("waitMutex", "read")
                 /\ sem_wait(semMutex, cons.opened[3])
                 /\ UNCHANGED <<full, empty, numMessages>>

ConsumerReads ==
  /\ cons.at = "read"
  /\ cons' = [cons EXCEPT !.at = "write", !.read = numMessages[cons.opened[4]]]
  /\ UNCHANGED <<objects, names, made, prod, prodStarts, consStarts, reused,
                 mixed>>

Decrease == /\ ConsumerStep("write", "postMutex")
            /\ numMessages' = [numMessages EXCEPT ![cons.opened[4]] =
                                 cons.read - 1]
            /\ UNCHANGED <<full, empty, semMutex>>

ConsumerUnlocks == /\ ConsumerStep("postMutex", "postEmpty")
                   /\ sem_post(semMutex, cons.opened[3])
                   /\ UNCHANGED <<full, empty, numMessages>>

PostEmpty == /\ ConsumerStep("postEmpty", "waitFull")
             /\ sem_post(empty, cons.opened[2])
             /\ UNCHANGED <<full, semMutex, numMessages>>

ConsumerKilled ==
  /\ cons.at # "off" /\ cons' = NoConsumer
  /\ UNCHANGED <<names, made, objects, prod, prodStarts, consStarts, reused,
                 mixed>>
-----------------------------------------------------------------------------
MsgNext == \/ ProducerStarts \/ ResetMessages \/ WaitEmpty \/ ProducerLocks
           \/ ProducerReads \/ Increase \/ ProducerUnlocks \/ PostFull
           \/ ProducerInterrupted \/ ProducerKilled
           \/ ConsumerStarts \/ ConsumerOpens \/ WaitFull \/ ConsumerLocks
           \/ ConsumerReads \/ Decrease \/ ConsumerUnlocks \/ PostEmpty
           \/ ConsumerKilled

MsgSpec == MsgInit /\ [][MsgNext]_msgVars
-----------------------------------------------------------------------------
MsgTypeOK ==
  /\ names \in 0 .. MaxProducers /\ made \in 0 .. MaxProducers
  /\ full \in [Generations -> Nat] /\ empty \in [Generations -> Nat]
  /\ semMutex \in [Generations -> Nat] /\ numMessages \in [Generations -> Int]
  /\ prod \in [at : {"off", "init", "waitEmpty", "waitMutex", "read",
                     "write", "postMutex", "postFull"},
               gen : 0 .. MaxProducers, read : Int]
  /\ cons.at \in {"off", "open", "waitFull", "waitMutex", "read", "write",
                  "postMutex", "postEmpty"}
  /\ cons.opened \in Seq(Generations) /\ cons.read \in Int
  /\ prodStarts \in 0 .. MaxProducers /\ consStarts \in 0 .. MaxConsumers
  /\ reused \in BOOLEAN /\ mixed \in BOOLEAN

(* The conditions (b) and (c) in the header of pr62producer.c (5-6), with a
   consumer that may be killed between any two steps and a producer that may
   be stopped and started again.  Two things break them and are left out: a
   producer that resets the memory of a killed one but finds its semaphores
   as they were, and a consumer whose four opens straddle a restart. *)
NumMessagesInRange ==
  ~reused /\ ~mixed =>
    \A g \in Generations : numMessages[g] \in 0 .. MSG_COUNT
=============================================================================
