------------------------------ MODULE Crossing ------------------------------
(***************************************************************************)
(* os/osprj/cross_criticalsection.c: an intersection.  A controller thread *)
(* rotates the green light over groups of two directions under a mutex and *)
(* broadcasts a condition variable; one traffic thread per direction waits *)
(* for its group's light, releases the mutex and then lets a vehicle pass  *)
(* under the direction's own mutex.                                        *)
(***************************************************************************)
EXTENDS Integers, FiniteSets

CONSTANTS Directions,          (* the directions, numbered as in the enum   *)
          MAX_DIRECTION_SIZE   (* the number of groups                      *)

ASSUME CrossingAssumption ==
  /\ MAX_DIRECTION_SIZE \in Nat \ {0}
  /\ Directions \subseteq 0 .. (2 * MAX_DIRECTION_SIZE - 1)

(* threads[DIRECTION_COUNT] is the controller thread. *)
DIRECTION_COUNT == 2 * MAX_DIRECTION_SIZE
Controller      == DIRECTION_COUNT
Nobody          == -1

VARIABLES
  current_direction,  (* the group that has green; 7 means all red          *)
  schedule_mutex,     (* the thread that holds the mutex, or Nobody         *)
  mutexes,            (* the thread that holds each direction's mutex       *)
  pc,                 (* where each thread is; "none" before it is created  *)
  main                (* main creates the threads, joins them or has exited *)

vars == <<current_direction, schedule_mutex, mutexes, pc, main>>

Threads == Directions \cup {Controller}
AllRed  == 7
Group(d) == d \div 2

TypeOK ==
  /\ current_direction \in 0 .. (MAX_DIRECTION_SIZE - 1) \cup {AllRed}
  /\ schedule_mutex \in Threads \cup {Nobody}
  /\ mutexes \in [Directions -> Directions \cup {Nobody}]
  /\ pc \in [Threads -> {"none", "lock", "test", "rotate", "waiting", "woken",
                         "unlock", "enter", "passing"}]
  /\ main \in {"create", "join", "exited"}

Init == /\ current_direction = AllRed
        /\ schedule_mutex = Nobody
        /\ mutexes = [d \in Directions |-> Nobody]
        /\ pc = [t \in Threads |-> "none"]
        /\ main = "create"

Running == main # "exited"
Move(t, from, to) == /\ Running
                     /\ pc[t] = from
                     /\ pc' = [pc EXCEPT ![t] = to]
-----------------------------------------------------------------------------
(* main: the controller first, then the directions in order. *)

Created(t) == pc[t] # "none"

CreateController == /\ main = "create"
                    /\ Move(Controller, "none", "lock")
                    /\ UNCHANGED <<current_direction, schedule_mutex, mutexes, main>>

CreateTraffic(d) ==
  /\ main = "create"
  /\ Created(Controller) /\ \A e \in Directions : e < d => Created(e)
  /\ Move(d, "none", "lock")
  /\ UNCHANGED <<current_direction, schedule_mutex, mutexes, main>>

AllCreated == /\ main = "create" /\ \A t \in Threads : Created(t)
              /\ main' = "join"
              /\ UNCHANGED <<current_direction, schedule_mutex, mutexes, pc>>

(* pthread_create fails: exit ends every thread of the process. *)
CreateFails == /\ main = "create" /\ \E t \in Threads : ~Created(t)
               /\ main' = "exited"
               /\ UNCHANGED <<current_direction, schedule_mutex, mutexes, pc>>
-----------------------------------------------------------------------------
(* schedule_mutex, for both kinds of thread. *)

Lock(t, from, to) == /\ Move(t, from, to)
                     /\ schedule_mutex = Nobody
                     /\ schedule_mutex' = t
                     /\ UNCHANGED <<current_direction, mutexes, main>>

Unlock(t, from, to) == /\ Move(t, from, to)
                       /\ schedule_mutex' = Nobody
                       /\ UNCHANGED <<current_direction, mutexes, main>>

(* Faults: the light turns without the mutex, past the last group, without
   waking anybody; the mutex is never released. *)
ControllerNoLock == /\ Move(Controller, "lock", "rotate")
                    /\ UNCHANGED <<current_direction, schedule_mutex, mutexes, main>>

RotatePastLast ==
  /\ Move(Controller, "rotate", "unlock")
  /\ current_direction' = current_direction + 1
  /\ UNCHANGED <<schedule_mutex, mutexes, main>>

RotateSilently ==
  /\ Move(Controller, "rotate", "unlock")
  /\ current_direction' = (current_direction + 1) % MAX_DIRECTION_SIZE
  /\ UNCHANGED <<schedule_mutex, mutexes, main>>

ControllerNoUnlock ==
  /\ Move(Controller, "unlock", "lock")
  /\ UNCHANGED <<current_direction, schedule_mutex, mutexes, main>>

(* The controller gives green to the next group and wakes every waiter. *)
ControllerLock == Lock(Controller, "lock", "rotate")

Rotate ==
  /\ Running /\ pc[Controller] = "rotate"
  /\ current_direction' = (current_direction + 1) % MAX_DIRECTION_SIZE
  /\ pc' = [t \in Threads |-> CASE t = Controller        -> "unlock"
                                [] pc[t] = "waiting"     -> "woken"
                                [] OTHER                 -> pc[t]]
  /\ UNCHANGED <<schedule_mutex, mutexes, main>>

ControllerUnlock == Unlock(Controller, "unlock", "lock")

(* A direction: lock, or lock again inside pthread_cond_wait. *)
TrafficLock(d) == Lock(d, "lock", "test") \/ Lock(d, "woken", "test")

(* Red: pthread_cond_wait releases the mutex and waits, in one step. *)
Red(d) == /\ current_direction # Group(d)
          /\ Unlock(d, "test", "waiting")

(* pthread_cond_wait may return without a broadcast. *)
SpuriousWake(d) ==
  /\ Move(d, "waiting", "woken")
  /\ UNCHANGED <<current_direction, schedule_mutex, mutexes, main>>

Green(d) == /\ current_direction = Group(d)
            /\ Move(d, "test", "unlock")
            /\ UNCHANGED <<current_direction, schedule_mutex, mutexes, main>>

TrafficUnlock(d) == Unlock(d, "unlock", "enter")

(* The vehicle passes under the mutex of its direction. *)
Enter(d) == /\ Move(d, "enter", "passing")
            /\ mutexes[d] = Nobody
            /\ mutexes' = [mutexes EXCEPT ![d] = d]
            /\ UNCHANGED <<current_direction, schedule_mutex, main>>

Leave(d) == /\ Move(d, "passing", "lock")
            /\ mutexes' = [mutexes EXCEPT ![d] = Nobody]
            /\ UNCHANGED <<current_direction, schedule_mutex, main>>
-----------------------------------------------------------------------------
cross_traffic_controller == ControllerLock \/ Rotate \/ ControllerUnlock

traffic(d) == TrafficLock(d) \/ Red(d) \/ Green(d) \/ TrafficUnlock(d)
              \/ Enter(d) \/ Leave(d)

Create == CreateController \/ AllCreated
          \/ (\E d \in Directions : CreateTraffic(d))

Next == \/ Create \/ CreateFails \/ cross_traffic_controller
        \/ (\E d \in Directions : traffic(d) \/ SpuriousWake(d))

Spec == Init /\ [][Next]_vars

(* Every thread that can run does, and the controller, which sleeps between
   its turns and finds the mutex free again and again, gets it in the end. *)
Fairness == /\ WF_vars(Create)
            /\ WF_vars(cross_traffic_controller) /\ SF_vars(ControllerLock)
            /\ \A d \in Directions : WF_vars(traffic(d))

FairSpec == Spec /\ Fairness
-----------------------------------------------------------------------------
(* A direction that has seen its light green and still holds the schedule
   mutex sees it green: the light changes only under the mutex (114-131). *)
GreenWhileHeld == \A d \in Directions :
  pc[d] = "unlock" => schedule_mutex = d /\ current_direction = Group(d)

(* No lost wake-up: a direction sleeps in pthread_cond_wait only while its
   light is red; whoever saw red was asleep before the light could turn and
   was woken when it did (82-84, 120-123). *)
NoSleeperAtGreen == \A d \in Directions :
  pc[d] = "waiting" => current_direction # Group(d)

(* The light keeps rotating, so that a direction that waits is woken and
   every group has green again and again (13: "fair traffic control"). *)
LightGoesOn == \A d \in Directions :
  /\ Running ~> (~Running \/ current_direction = Group(d))
  /\ (pc[d] = "waiting") ~> (pc[d] # "waiting" \/ ~Running)

(* Line 13: "allowing mutually independent directions to pass
   simultaneously"; lines 28-31 list which.  Vehicles that pass at the same
   time belong to one group. *)
OneGroupPasses == \A d, e \in Directions :
  pc[d] = "passing" /\ pc[e] = "passing" => Group(d) = Group(e)
=============================================================================
