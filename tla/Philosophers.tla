---------------------------- MODULE Philosophers ----------------------------
(***************************************************************************)
(* os/assignment/philosophier.c: dining philosophers, one thread each, with *)
(* a named semaphore per chopstick.  An even philosopher picks up the right *)
(* chopstick first, an odd one the left.                                   *)
(*                                                                         *)
(* The chopsticks are kernel objects with fixed names that are unlinked    *)
(* only after the threads end, which they never do.  Every run of the      *)
(* program therefore works on the same chopsticks, at the same time as     *)
(* another run or after it was killed with chopsticks in its hands.        *)
(***************************************************************************)
EXTENDS Integers, FiniteSets

CONSTANTS Runs,              (* the executions of the program              *)
          NUM_PHILOSOPHERS   (* 5 in the code                              *)

ASSUME PhilosophersAssumption ==
  /\ NUM_PHILOSOPHERS \in Nat /\ NUM_PHILOSOPHERS >= 2
  /\ IsFiniteSet(Runs)

Id      == 0 .. (NUM_PHILOSOPHERS - 1)
Threads == Runs \X Id
Missing == -1

VARIABLES
  chopsticks,   (* the values of the named semaphores                      *)
  main,         (* where the main thread of each run is                    *)
  i,            (* its loop variable                                       *)
  pc,           (* where each philosopher is                               *)
  killed        (* the runs that were killed                               *)

vars == <<chopsticks, main, i, pc, killed>>

TypeOK == /\ chopsticks \in [Id -> {Missing, 0, 1}]
          /\ main \in [Runs -> {"idle", "open", "create", "join", "exited"}]
          /\ i \in [Runs -> 0 .. NUM_PHILOSOPHERS]
          /\ pc \in [Threads -> {"none", "hungry", "first", "eating", "last"}]
          /\ killed \subseteq Runs

Init == /\ chopsticks = [c \in Id |-> Missing]
        /\ main = [r \in Runs |-> "idle"]
        /\ i = [r \in Runs |-> 0]
        /\ pc = [t \in Threads |-> "none"]
        /\ killed = {}
-----------------------------------------------------------------------------
(* main *)

At(r, l) == main[r] = l /\ r \notin killed

Start(r) == /\ At(r, "idle")
            /\ main' = [main EXCEPT ![r] = "open"]
            /\ UNCHANGED <<chopsticks, i, pc, killed>>

(* sem_open with O_CREAT and 1, which counts only if the name is new. *)
Open(r) ==
  /\ At(r, "open") /\ i[r] < NUM_PHILOSOPHERS
  /\ chopsticks' = IF chopsticks[i[r]] = Missing
                   THEN [chopsticks EXCEPT ![i[r]] = 1] ELSE chopsticks
  /\ i' = [i EXCEPT ![r] = @ + 1]
  /\ UNCHANGED <<main, pc, killed>>

OpenFails(r) == /\ At(r, "open") /\ i[r] < NUM_PHILOSOPHERS
                /\ main' = [main EXCEPT ![r] = "exited"]
                /\ UNCHANGED <<chopsticks, i, pc, killed>>

(* A creation that fails is not noticed.  It is left out: to the others it is
   a philosopher who never takes a step. *)
Create(r) == /\ At(r, "create") /\ i[r] < NUM_PHILOSOPHERS
             /\ pc' = [pc EXCEPT ![<<r, i[r]>>] = "hungry"]
             /\ i' = [i EXCEPT ![r] = @ + 1]
             /\ UNCHANGED <<chopsticks, main, killed>>

(* The end of a loop: open, create, join. *)
NextLoop(r) ==
  /\ i[r] = NUM_PHILOSOPHERS
  /\ \/ At(r, "open") /\ main' = [main EXCEPT ![r] = "create"]
     \/ At(r, "create") /\ main' = [main EXCEPT ![r] = "join"]
  /\ i' = [i EXCEPT ![r] = 0]
  /\ UNCHANGED <<chopsticks, pc, killed>>

(* The process is killed with all its threads; no handler runs. *)
Kill(r) == /\ main[r] \notin {"idle", "exited"} /\ r \notin killed
           /\ killed' = killed \cup {r}
           /\ UNCHANGED <<chopsticks, main, i, pc>>
-----------------------------------------------------------------------------
(* philosopher, thread <<r, id>>: thinking and being hungry are one place. *)

Left(t)   == t[2]
Right(t)  == (t[2] + 1) % NUM_PHILOSOPHERS

(* Fault: every philosopher starts on the left. *)
NobodyStartsRight(t) == FALSE

StartsRight(t) == t[2] % 2 = 0
First(t)  == IF StartsRight(t) THEN Right(t) ELSE Left(t)
Second(t) == IF StartsRight(t) THEN Left(t) ELSE Right(t)

Step(t, from, to) == /\ pc[t] = from /\ t[1] \notin killed
                     /\ pc' = [pc EXCEPT ![t] = to]
                     /\ UNCHANGED <<main, i, killed>>

SemWait(c) == /\ chopsticks[c] > 0
              /\ chopsticks' = [chopsticks EXCEPT ![c] = @ - 1]

SemPost(c) == chopsticks' = [chopsticks EXCEPT ![c] = @ + 1]

(* Faults: the second chopstick is not waited for; the left one is put down
   twice. *)
TakeSecondAtOnce(t) == Step(t, "first", "eating") /\ UNCHANGED chopsticks
PutLeftAgain(t)     == Step(t, "last", "hungry") /\ SemPost(Left(t))

TakeFirst(t)  == Step(t, "hungry", "first") /\ SemWait(First(t))
TakeSecond(t) == Step(t, "first", "eating") /\ SemWait(Second(t))
PutLeft(t)    == Step(t, "eating", "last") /\ SemPost(Left(t))
PutRight(t)   == Step(t, "last", "hungry") /\ SemPost(Right(t))

philosopher(t) == TakeFirst(t) \/ TakeSecond(t) \/ PutLeft(t) \/ PutRight(t)

Next == \/ (\E r \in Runs : \/ Start(r) \/ Open(r) \/ OpenFails(r)
                            \/ Create(r) \/ NextLoop(r) \/ Kill(r))
        \/ (\E t \in Threads : philosopher(t))

Spec == Init /\ [][Next]_vars

(* The kernel schedules every thread that can run. *)
FairSpec == Spec /\ \A t \in Threads : WF_vars(philosopher(t))
-----------------------------------------------------------------------------
(* The chopsticks in the hands of a philosopher, a killed one included. *)
Hands(t) == CASE pc[t] = "first"  -> {First(t)}
              [] pc[t] = "eating" -> {Left(t), Right(t)}
              [] pc[t] = "last"   -> {Right(t)}
              [] OTHER            -> {}

(* A chopstick that exists is on the table or in the hands of exactly one
   philosopher of one run, also when runs overlap or are killed (32-46, 58). *)
OneHolder == \A c \in Id :
  LET holders == {t \in Threads : c \in Hands(t)} IN
  /\ chopsticks[c] = 0 <=> holders # {}
  /\ \A t, u \in holders : t = u

(* The asymmetric order (3: "an odd philosopher picks up the left one first
   and an even philosopher picks up the right one first") excludes a circle
   of waiting philosophers: while no run was killed, some philosopher of
   those who are seated can take its next step, whatever the table's size. *)
Seated   == {t \in Threads : pc[t] # "none"}
Blocked(t) == \/ pc[t] = "hungry" /\ chopsticks[First(t)] = 0
              \/ pc[t] = "first" /\ chopsticks[Second(t)] = 0
NoCircularWait ==
  killed = {} /\ Seated # {} => \E t \in Seated : ~Blocked(t)

(* Somebody eats, again and again, while no run was killed. *)
SomebodyEats ==
  (Seated # {} /\ killed = {})
    ~> (killed # {} \/ \E t \in Threads : pc[t] = "eating")
=============================================================================
