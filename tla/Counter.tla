------------------------------ MODULE Counter ------------------------------
(***************************************************************************)
(* Threads that increment one shared counter.  main creates them, waits    *)
(* for all of them and ends; the number it or they print last is "printed".*)
(*                                                                         *)
(*   thread1          thread/thread1.c: no mutex, main prints the count    *)
(*   thread_teacher   thread/thread_teacher.c: mutex, main prints          *)
(*   exercise         practice/practice3a/exercise.c: mutex, each thread   *)
(*                    prints the new count                                 *)
(*   exercise_for     practice/practice3a/exercise_for.c: both print       *)
(*                                                                         *)
(* count++ of a volatile int is a load and a store: what the build makes   *)
(* of it where no mutex orders the two threads.                            *)
(***************************************************************************)
EXTENDS Integers, FiniteSetsExt

CONSTANTS CounterThreads,   (* the threads of exercise_for, SIZE of them   *)
          Increments        (* the numbers of increments asked for         *)

VARIABLES counting,    (* which program runs                               *)
          increments,  (* how often each thread increments                 *)
          counter,     (* the shared count                                 *)
          lockedBy,    (* the thread that holds the mutex, or "nobody"     *)
          main,        (* what main does                                   *)
          at,          (* where each thread is                             *)
          left,        (* the rounds of the loop each thread has left      *)
          loaded,      (* the value of count a thread has loaded           *)
          printed      (* the last number written to the output            *)

countVars == <<counting, increments, counter, lockedBy, main, at, left,
               loaded, printed>>
-----------------------------------------------------------------------------
(* The programs: the threads main creates, whether they lock, and who prints
   the count. *)

TwoOfThem == {CHOOSE t \in CounterThreads : TRUE,
              CHOOSE t \in CounterThreads :
                t # CHOOSE u \in CounterThreads : TRUE}

Thread1       == [threads |-> TwoOfThem, locks |-> FALSE,
                  threadPrints |-> FALSE, mainPrints |-> TRUE]
ThreadTeacher == [threads |-> TwoOfThem, locks |-> TRUE,
                  threadPrints |-> FALSE, mainPrints |-> TRUE]
Exercise      == [threads |-> TwoOfThem, locks |-> TRUE,
                  threadPrints |-> TRUE, mainPrints |-> FALSE]
ExerciseFor   == [threads |-> CounterThreads, locks |-> TRUE,
                  threadPrints |-> TRUE, mainPrints |-> TRUE]

CountingPrograms == {"thread1", "thread_teacher", "exercise", "exercise_for"}

this == CASE counting = "thread1"        -> Thread1
          [] counting = "thread_teacher" -> ThreadTeacher
          [] counting = "exercise"       -> Exercise
          [] counting = "exercise_for"   -> ExerciseFor

(* thread_teacher.c checks its argument, thread1.c has none and asks for
   many increments; atoi of the others may be anything. *)
MayAskFor(p, n) == p \in {"thread1", "thread_teacher"} => n > 0

CountInit == /\ counting \in CountingPrograms
             /\ increments \in {n \in Increments : MayAskFor(counting, n)}
             /\ counter = 0
             /\ lockedBy = "nobody"
             /\ main = "create"
             /\ at = [t \in CounterThreads |-> "none"]
             /\ left = [t \in CounterThreads |-> 0]
             /\ loaded = [t \in CounterThreads |-> 0]
             /\ printed = 0
-----------------------------------------------------------------------------
CreateThread(t) ==
  /\ main = "create" /\ t \in this.threads /\ at[t] = "none"
  /\ at' = [at EXCEPT ![t] = "loop"]
  /\ left' = [left EXCEPT ![t] = increments]
  /\ main' = IF \A u \in this.threads \ {t} : at[u] # "none"
             THEN "join" ELSE "create"
  /\ UNCHANGED <<counting, increments, counter, lockedBy, loaded, printed>>

(* A failed pthread_create ends the process. *)
CreateThreadFails ==
  /\ main = "create" /\ main' = "exit(1)"
  /\ UNCHANGED <<counting, increments, counter, lockedBy, at, left, loaded,
                 printed>>

(* main has joined all threads, prints the total and exits. *)
JoinAndExit ==
  /\ main = "join" /\ \A t \in this.threads : at[t] = "done"
  /\ main' = "exit(0)"
  /\ printed' = IF this.mainPrints THEN counter ELSE printed
  /\ UNCHANGED <<counting, increments, counter, lockedBy, at, left, loaded>>
-----------------------------------------------------------------------------
Running(t) == main \in {"create", "join"} /\ at[t] # "none"

Goto(t, from, to) == /\ Running(t) /\ at[t] = from
                     /\ at' = [at EXCEPT ![t] = to]
                     /\ UNCHANGED <<counting, increments, main>>

LeaveLoop(t) == /\ left[t] <= 0
                /\ Goto(t, "loop", "done")
                /\ UNCHANGED <<counter, lockedBy, left, loaded, printed>>

(* Fault: the mutex is not waited for. *)
LockAtOnce(t) == /\ left[t] > 0
                 /\ Goto(t, "loop", "load")
                 /\ lockedBy' = IF this.locks THEN t ELSE lockedBy
                 /\ UNCHANGED <<counter, left, loaded, printed>>

LockMutex(t) == /\ left[t] > 0
                /\ Goto(t, "loop", "load")
                /\ this.locks => lockedBy = "nobody"
                /\ lockedBy' = IF this.locks THEN t ELSE lockedBy
                /\ UNCHANGED <<counter, left, loaded, printed>>

LoadCount(t) == /\ Goto(t, "load", "store")
                /\ loaded' = [loaded EXCEPT ![t] = counter]
                /\ UNCHANGED <<counter, lockedBy, left, printed>>

StoreCount(t) == /\ Goto(t, "store",
                         CASE this.threadPrints -> "print"
                           [] this.locks /\ ~this.threadPrints -> "unlock"
                           [] OTHER -> "loop")
                 /\ counter' = loaded[t] + 1
                 /\ left' = [left EXCEPT ![t] = @ - 1]
                 /\ UNCHANGED <<lockedBy, loaded, printed>>

PrintCount(t) == /\ Goto(t, "print", "unlock")
                 /\ printed' = counter
                 /\ UNCHANGED <<counter, lockedBy, left, loaded>>

UnlockMutex(t) == /\ Goto(t, "unlock", "loop")
                  /\ lockedBy' = "nobody"
                  /\ UNCHANGED <<counter, left, loaded, printed>>

CountNext == \/ CreateThreadFails \/ JoinAndExit
             \/ \E t \in CounterThreads :
                  \/ CreateThread(t) \/ LeaveLoop(t) \/ LockMutex(t)
                  \/ LoadCount(t) \/ StoreCount(t) \/ PrintCount(t)
                  \/ UnlockMutex(t)

CountSpec == CountInit /\ [][CountNext]_countVars
-----------------------------------------------------------------------------
CountTypeOK ==
  /\ counting \in CountingPrograms /\ increments \in Increments
  /\ counter \in Nat /\ printed \in Nat
  /\ lockedBy \in CounterThreads \cup {"nobody"}
  /\ main \in {"create", "join", "exit(0)", "exit(1)"}
  /\ at \in [CounterThreads -> {"none", "loop", "load", "store", "print",
                                "unlock", "done"}]
  /\ left \in [CounterThreads -> Int] /\ loaded \in [CounterThreads -> Nat]

(* What the programs are there to show (exercise.c 18, "Did count get updated
   correctly?"): with the mutex the number printed last is the sum of all
   increments, whoever prints it.  Without it increments get lost, but never
   so many that fewer than two remain, or one where each thread makes one. *)
Total == Cardinality(this.threads) * Max({0, increments})

PrintedCountIsSum ==
  main = "exit(0)" =>
    IF this.locks THEN printed = Total
                  ELSE printed \in Min({2, increments}) .. Total
=============================================================================
