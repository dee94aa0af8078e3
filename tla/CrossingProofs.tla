--------------------------- MODULE CrossingProofs ---------------------------
(***************************************************************************)
(* The safety of Crossing for every number of groups and every set of      *)
(* directions.                                                             *)
(***************************************************************************)
EXTENDS Crossing, TLAPS

(* The two kinds of thread keep to their own locations. *)
Locations ==
  /\ pc[Controller] \in {"none", "lock", "rotate", "unlock"}
  /\ \A d \in Directions : pc[d] # "rotate"

(* Who is between pthread_mutex_lock and pthread_mutex_unlock holds the
   schedule mutex, so no two threads are there.  The sleep inside
   pthread_cond_wait is not in between. *)
HolderIsInside ==
  \A t \in Threads : pc[t] \in {"test", "rotate", "unlock"} <=> schedule_mutex = t

IInv == TypeOK /\ Locations /\ HolderIsInside /\ GreenWhileHeld /\ NoSleeperAtGreen

(* The controller's number is nobody else's, and Nobody is no thread. *)
LEMMA DistinctThreads ==
  /\ Controller \in Threads /\ Controller \notin Directions
  /\ Directions \subseteq Threads /\ Nobody \notin Threads
  /\ \A d \in Directions : d \in Int
  /\ \A t \in Threads : t \in Directions \/ t = Controller
  BY CrossingAssumption DEF Threads, Controller, DIRECTION_COUNT, Nobody

(* The next group is a group again. *)
LEMMA NextGroup ==
  ASSUME current_direction \in 0 .. (MAX_DIRECTION_SIZE - 1) \cup {AllRed}
  PROVE  (current_direction + 1) % MAX_DIRECTION_SIZE \in 0 .. (MAX_DIRECTION_SIZE - 1)
  BY CrossingAssumption DEF AllRed

(* It holds at first. *)
LEMMA InitIInv == Init => IInv
  BY DistinctThreads
     DEF Init, IInv, TypeOK, Locations, HolderIsInside, GreenWhileHeld, NoSleeperAtGreen

(* The steps of main create threads at "lock" or end the process. *)
LEMMA MainIInv == ASSUME IInv, Create \/ CreateFails
                  PROVE  IInv'
<1> USE DistinctThreads
    DEF IInv, TypeOK, Locations, HolderIsInside, GreenWhileHeld, NoSleeperAtGreen, Move
<1>1. CASE CreateController BY <1>1 DEF CreateController
<1>2. ASSUME NEW d \in Directions, CreateTraffic(d) PROVE IInv'
  BY <1>2 DEF CreateTraffic
<1>3. CASE AllCreated BY <1>3 DEF AllCreated
<1>4. CASE CreateFails BY <1>4 DEF CreateFails
<1> QED BY <1>1, <1>2, <1>3, <1>4 DEF Create

(* The controller turns the light while it holds the mutex, so no direction
   stands between its test and its unlock, and it wakes every sleeper. *)
LEMMA ControllerIInv == ASSUME IInv, cross_traffic_controller
                        PROVE  IInv'
<1> USE DistinctThreads
    DEF IInv, TypeOK, Locations, HolderIsInside, GreenWhileHeld, NoSleeperAtGreen
<1>1. CASE ControllerLock BY <1>1 DEF ControllerLock, Lock, Move
<1>2. CASE Rotate
  <2>1. schedule_mutex = Controller BY <1>2 DEF Rotate
  <2>2. TypeOK' BY <1>2, NextGroup DEF Rotate
  <2>3. (Locations /\ HolderIsInside)' BY <1>2, <2>1 DEF Rotate
  <2>4. GreenWhileHeld' BY <1>2, <2>1 DEF Rotate
  <2>5. NoSleeperAtGreen' BY <1>2 DEF Rotate
  <2> QED BY <2>2, <2>3, <2>4, <2>5
<1>3. CASE ControllerUnlock BY <1>3 DEF ControllerUnlock, Unlock, Move
<1> QED BY <1>1, <1>2, <1>3 DEF cross_traffic_controller

(* A direction goes to sleep or goes on by the light it sees under the
   mutex; a waiter that wakes tests the light again. *)
LEMMA TrafficIInv == ASSUME IInv, NEW d \in Directions, traffic(d) \/ SpuriousWake(d)
                     PROVE  IInv'
<1> USE DistinctThreads
    DEF IInv, TypeOK, Locations, HolderIsInside, GreenWhileHeld, NoSleeperAtGreen, Move
<1>1. CASE TrafficLock(d)   BY <1>1 DEF TrafficLock, Lock
<1>2. CASE Red(d)           BY <1>2 DEF Red, Unlock
<1>3. CASE Green(d)         BY <1>3 DEF Green
<1>4. CASE TrafficUnlock(d) BY <1>4 DEF TrafficUnlock, Unlock
<1>5. CASE Enter(d)         BY <1>5 DEF Enter
<1>6. CASE Leave(d)         BY <1>6 DEF Leave
<1>7. CASE SpuriousWake(d)  BY <1>7 DEF SpuriousWake
<1> QED BY <1>1, <1>2, <1>3, <1>4, <1>5, <1>6, <1>7 DEF traffic

(* Every step keeps the invariant. *)
LEMMA StepIInv == IInv /\ [Next]_vars => IInv'
<1> SUFFICES ASSUME IInv, [Next]_vars PROVE IInv' OBVIOUS
<1>1. CASE Create \/ CreateFails BY <1>1, MainIInv
<1>2. CASE cross_traffic_controller BY <1>2, ControllerIInv
<1>3. ASSUME NEW d \in Directions, traffic(d) \/ SpuriousWake(d) PROVE IInv'
  BY <1>3, TrafficIInv
<1>4. CASE UNCHANGED vars
  BY <1>4 DEF vars, IInv, TypeOK, Locations, HolderIsInside, GreenWhileHeld, NoSleeperAtGreen
<1> QED BY <1>1, <1>2, <1>3, <1>4 DEF Next

(* It holds in every reachable state. *)
LEMMA Invariance == Spec => []IInv
  BY InitIInv, StepIInv, PTL DEF Spec

(* The state has its type in every reachable state: the light is a group's or
   all red, for every number of groups. *)
THEOREM TypeCorrect == Spec => []TypeOK
  BY Invariance, PTL DEF IInv

(* The light does not turn between the moment a direction sees green and the
   moment it releases the schedule mutex (lines 114-131 of the program). *)
THEOREM LightHeld == Spec => []GreenWhileHeld
  BY Invariance, PTL DEF IInv

(* No broadcast is lost: nobody sleeps in pthread_cond_wait at its own green
   light (lines 82-84 and 120-123), spurious wake-ups included. *)
THEOREM NobodySleepsAtGreen == Spec => []NoSleeperAtGreen
  BY Invariance, PTL DEF IInv
=============================================================================
