-------------------------- MODULE CondBufferProofs --------------------------
(***************************************************************************)
(* The safety of CondBuffer for every MAX_BUFFER_SIZE.                     *)
(***************************************************************************)
EXTENDS CondBuffer, TLAPS

(* The three properties are inductive together: that nobody sleeps through
   a signal rests on the count changing only in the hands of the thread
   that holds the mutex, one unit at a time, and on threads that have not
   been created being nowhere yet. *)
Uncreated == /\ main = "thread1" => pc["producer"] = "none"
             /\ main \in {"thread1", "thread2"} => pc["consumer"] = "none"

IInv == TypeOK /\ Requirements /\ NoLostWakeUp /\ Uncreated

(* It holds at first. *)
LEMMA InitIInv == Init => IInv
  BY CondBufferAssumption
     DEF Init, IInv, TypeOK, Requirements, NoLostWakeUp, Uncreated, Thread, HasUnit, HasSpace

(* The steps of main. *)
LEMMA MainIInv == ASSUME IInv, CreateThreads \/ CreateFails
                  PROVE  IInv'
<1> USE DEF IInv, TypeOK, Requirements, NoLostWakeUp, Uncreated, Thread, HasUnit, HasSpace
<1>1. CASE CreateThreads
  BY <1>1 DEF CreateThreads, Create
<1>2. CASE CreateFails
  BY <1>2 DEF CreateFails
<1> QED BY <1>1, <1>2

(* The steps on the mutex and the condition variables, of either thread. *)
LEMMA SyncIInv == ASSUME IInv, NEW t \in Thread, NEW other \in Thread \ {t},
                         \/ Lock(t) \/ SpuriousWake(t)
                         \/ Signal(t, other) \/ Unlock(t)
                  PROVE  IInv'
<1> USE DEF IInv, TypeOK, Requirements, NoLostWakeUp, Uncreated, Thread, HasUnit, HasSpace, Move
<1>1. CASE Lock(t)          BY <1>1 DEF Lock
<1>2. CASE SpuriousWake(t)  BY <1>2 DEF SpuriousWake
<1>3. CASE Signal(t, other) BY <1>3 DEF Signal
<1>4. CASE Unlock(t)        BY <1>4 DEF Unlock
<1> QED BY <1>1, <1>2, <1>3, <1>4

(* The steps that look at the count. *)
LEMMA CountIInv == ASSUME IInv,
                          \/ Increase \/ (~HasSpace /\ CondWait("producer"))
                          \/ Decrease \/ (~HasUnit /\ CondWait("consumer"))
                   PROVE  IInv'
<1> USE CondBufferAssumption
    DEF IInv, TypeOK, Requirements, NoLostWakeUp, Uncreated, Thread, HasUnit, HasSpace, Move
<1>1. CASE Increase BY <1>1 DEF Increase
<1>2. CASE Decrease BY <1>2 DEF Decrease
<1>3. CASE ~HasSpace /\ CondWait("producer") BY <1>3 DEF CondWait
<1>4. CASE ~HasUnit /\ CondWait("consumer") BY <1>4 DEF CondWait
<1> QED BY <1>1, <1>2, <1>3, <1>4

(* Every step keeps the invariant. *)
LEMMA StepIInv == IInv /\ [Next]_vars => IInv'
<1> SUFFICES ASSUME IInv, [Next]_vars PROVE IInv' OBVIOUS
<1>1. CASE CreateThreads \/ CreateFails
  BY <1>1, MainIInv
<1>2. CASE producer
  BY <1>2, SyncIInv, CountIInv DEF producer, Thread
<1>3. CASE consumer
  BY <1>3, SyncIInv, CountIInv DEF consumer, Thread
<1>4. ASSUME NEW t \in Thread, SpuriousWake(t) PROVE IInv'
  <2>1. PICK other \in Thread \ {t} : TRUE BY DEF Thread
  <2> QED BY <1>4, <2>1, SyncIInv
<1>5. CASE UNCHANGED vars
  BY <1>5 DEF vars, IInv, TypeOK, Requirements, NoLostWakeUp, Uncreated, HasUnit, HasSpace
<1> QED BY <1>1, <1>2, <1>3, <1>4, <1>5 DEF Next

(* It holds in every reachable state. *)
LEMMA Invariance == Spec => []IInv
  BY InitIInv, StepIInv, PTL DEF Spec

(* The state has its type in every reachable state, for every buffer size. *)
THEOREM TypeCorrect == Spec => []TypeOK
  BY Invariance, PTL DEF IInv

(* The header's requirements (1) to (3), lines 5-7 of the program. *)
THEOREM MeetsRequirements == Spec => []Requirements
  BY Invariance, PTL DEF IInv

(* No wake-up is lost although signals are sent at the edges only. *)
THEOREM WakesUp == Spec => []NoLostWakeUp
  BY Invariance, PTL DEF IInv
=============================================================================
