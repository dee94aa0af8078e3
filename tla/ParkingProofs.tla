---------------------------- MODULE ParkingProofs ----------------------------
(***************************************************************************)
(* Proofs about Parking, for any number of runs, entrances, exits and      *)
(* spaces.  The inductive invariant says what main's control location      *)
(* tells about the run's handles, its children and the two names.          *)
(***************************************************************************)
EXTENDS Parking, FiniteSetTheorems, TLAPS

Before == {"idle", "unlinkParking", "unlinkVehicle", "openParking"}

(* One main process at a time, in the order of the runs. *)
OneMain == \A r, q \in Run :
             q < r /\ pc[r] # "idle" => pc[q] # "idle" /\ ~Alive(q)

(* What a run has opened at each location, and that only a run that has
   opened both semaphores has children. *)
Handles(r) ==
  /\ P(r) \in {None, r}
  /\ pc[r] \in Before => P(r) = None
  /\ pc[r] \in Before \cup {"openVehicle"} => V(r) = None /\ parking[r] = Capacity
  /\ pc[r] = "openVehicle" => P(r) = r
  /\ pc[r] \in {"fork", "wait"} => V(r) # None
  /\ V(r) # None => P(r) = r
  /\ V(r) = None => /\ link["vehicle"] # r
                    /\ \A k \in Kid : kid[r][k] = "unborn"

(* While main is between the two halves of an unlink or about to open, the
   name of the spaces is free; between the two opens it is taken. *)
ParkingName(r) ==
  /\ At(r, "unlinkVehicle") \/ At(r, "openParking") => link["parking"] = None
  /\ At(r, "openVehicle") => link["parking"] # None
ParkingFree == \A r \in Run : ParkingName(r)

(* No name is left alone unless a main process was torn. *)
NoneTorn == \A q \in Run : ~Torn(q)
Midway(r) == At(r, "unlinkVehicle") \/ At(r, "exitVehicle")
Paired == NoneTorn =>
  /\ (\A r \in Run : ~Midway(r)) =>
        (link["vehicle"] # None => link["parking"] # None)
  /\ \A r \in Run : At(r, "openVehicle") => link["vehicle"] = None

IInv == /\ TypeOK
        /\ OneMain
        /\ \A r \in Run : Handles(r)
        /\ ParkingFree
        /\ Paired
        /\ Conservation
        /\ FreshUnlessTorn
-----------------------------------------------------------------------------
(* Every variable keeps its type: the counters of the semaphores never go
   below zero, and a name is linked to nothing or to the object of a run. *)
LEMMA KidType ==
  ASSUME TypeOK, NEW r \in Run, NEW k \in Kid, NEW from, NEW to \in KidStates,
         KidMoves(r, k, from, to)
  PROVE  kid' \in [Run -> [Kid -> KidStates]]
  <1>1. kid' = [kid EXCEPT ![r] = [@ EXCEPT ![k] = to]]
    BY DEF KidMoves
  <1> QED
    BY <1>1 DEF TypeOK

(* sem_post and sem_wait keep a counter a natural number. *)
LEMMA UpType == ASSUME NEW f \in [Run -> Nat], NEW x
                PROVE  [f EXCEPT ![x] = @ + 1] \in [Run -> Nat]
  <1>1. CASE x \in Run
    BY <1>1
  <1>2. CASE x \notin Run
    BY <1>2
  <1> QED
    BY <1>1, <1>2

(* A decrement of a positive entry stays a natural. *)
LEMMA DownType == ASSUME NEW f \in [Run -> Nat], NEW x, f[x] > 0
                  PROVE  [f EXCEPT ![x] = @ - 1] \in [Run -> Nat]
  <1>1. CASE x \in Run
    <2>1. f[x] \in Nat
      BY <1>1
    <2> QED
      BY <1>1, <2>1
  <1>2. CASE x \notin Run
    BY <1>2
  <1> QED
    BY <1>1, <1>2

(* Every step keeps the types. *)
LEMMA TypeStep == TypeOK /\ [Next]_vars => TypeOK'
  <1> SUFFICES ASSUME TypeOK, [Next]_vars PROVE TypeOK'
    OBVIOUS
  <1> USE ParkingAssumption DEF TypeOK, semaphores, Goto, Names, Run, None
  <1>1. ASSUME NEW r \in Run, Start(r) PROVE TypeOK'
    BY <1>1 DEF Start, PCs
  <1>2. ASSUME NEW r \in Run, UnlinkOld(r) PROVE TypeOK'
    BY <1>2 DEF UnlinkOld, UnlinkParking, UnlinkVehicle, PCs
  <1>3. ASSUME NEW r \in Run, OpenParking(r) PROVE TypeOK'
    <2> DEFINE o == Opened(r, "parking")
    <2>1. o \in Run \cup {None}
      BY DEF Opened
    <2>2. link' = [link EXCEPT !["parking"] = o] /\ link' \in [Names -> Run \cup {None}]
      BY <1>3, <2>1 DEF OpenParking
    <2>3. mysem' = [mysem EXCEPT ![r] = [@ EXCEPT !["parking"] = o]]
      BY <1>3 DEF OpenParking
    <2>4. mysem' \in [Run -> [Names -> Run \cup {None}]]
      BY <2>1, <2>3
    <2> QED
      BY <1>3, <2>2, <2>4 DEF OpenParking, PCs
  <1>4. ASSUME NEW r \in Run, OpenVehicle(r) PROVE TypeOK'
    <2> DEFINE o == Opened(r, "vehicle")
    <2>1. o \in Run \cup {None}
      BY DEF Opened
    <2>2. link' = [link EXCEPT !["vehicle"] = o] /\ link' \in [Names -> Run \cup {None}]
      BY <1>4, <2>1 DEF OpenVehicle
    <2>3. mysem' = [mysem EXCEPT ![r] = [@ EXCEPT !["vehicle"] = o]]
      BY <1>4 DEF OpenVehicle
    <2>4. mysem' \in [Run -> [Names -> Run \cup {None}]]
      BY <2>1, <2>3
    <2>5. vehicle' \in [Run -> Nat]
      <3>1. Capacity - Capacity \in Nat
        OBVIOUS
      <3> QED
        BY <1>4, <3>1 DEF OpenVehicle
    <2> QED
      BY <1>4, <2>2, <2>4, <2>5 DEF OpenVehicle, PCs
  <1>5. ASSUME NEW r \in Run, NEW k \in Kid, Fork(r, k) PROVE TypeOK'
    BY <1>5 DEF Fork, KidStates
  <1>6. ASSUME NEW r \in Run, AllForked(r) \/ AllReaped(r) PROVE TypeOK'
    BY <1>6 DEF AllForked, AllReaped, PCs
  <1>7. ASSUME NEW r \in Run, cleanup(r) PROVE TypeOK'
    BY <1>7 DEF cleanup, UnlinkParking, UnlinkVehicle, PCs
  <1>8. ASSUME NEW r \in Run, OpenFails(r) \/ Interrupt(r) \/ Kill(r)
        PROVE TypeOK'
    BY <1>8 DEF OpenFails, Interrupt, Kill, PCs
  <1>9. ASSUME NEW r \in Run, NEW k \in Kid, ForkFails(r, k) PROVE TypeOK'
    BY <1>9 DEF ForkFails, PCs
  <1>10. ASSUME NEW r \in Run, NEW k \in Kid, KidDies(r, k) PROVE TypeOK'
    <2>1. KidMoves(r, k, "loop", "gone") \/ KidMoves(r, k, "mid", "lost")
      BY <1>10 DEF KidDies
    <2> QED
      BY <1>10, <2>1, KidType DEF KidDies, KidStates, KidMoves
  <1>11. ASSUME NEW r \in Run, NEW k \in Kid, Work(r, k) PROVE TypeOK'
    <2>1. PICK to \in KidStates, from \in KidStates : KidMoves(r, k, from, to)
      BY <1>11 DEF Work, EnterWait, EnterPost, LeaveWait, LeavePost, KidStates
    <2>2. parking' \in [Run -> Nat] /\ vehicle' \in [Run -> Nat]
      <3>1. CASE EnterWait(r, k)
        BY <3>1, UpType, DownType DEF EnterWait
      <3>2. CASE EnterPost(r, k)
        BY <3>2, UpType, DownType DEF EnterPost
      <3>3. CASE LeaveWait(r, k)
        BY <3>3, UpType, DownType DEF LeaveWait
      <3>4. CASE LeavePost(r, k)
        BY <3>4, UpType, DownType DEF LeavePost
      <3> QED
        BY <1>11, <3>1, <3>2, <3>3, <3>4 DEF Work
    <2> QED
      BY <2>1, <2>2, KidType DEF KidMoves
  <1>12. CASE UNCHANGED vars
    BY <1>12 DEF vars
  <1> QED
    BY <1>1, <1>2, <1>3, <1>4, <1>5, <1>6, <1>7, <1>8, <1>9, <1>10, <1>11,
       <1>12 DEF Next, Main, Fail

(* The initial state has its type. *)
LEMMA TypeInit == Init => TypeOK
  BY ParkingAssumption DEF Init, TypeOK, Run, Names, None, PCs, KidStates

(* In every reachable state the variables have their types. *)
THEOREM TypeCorrect == Spec => []TypeOK
  BY TypeInit, TypeStep, PTL DEF Spec
-----------------------------------------------------------------------------
(* Which steps move main, and what the others leave alone. *)

MainStep(r) == Start(r) \/ UnlinkOld(r) \/ OpenParking(r) \/ OpenVehicle(r)
               \/ AllForked(r) \/ AllReaped(r) \/ cleanup(r)
               \/ OpenFails(r) \/ Interrupt(r) \/ Kill(r)
               \/ \E k \in Kid : ForkFails(r, k)

(* One step of one run moves main of that run alone, and only if it is alive
   or starts; the other runs' control locations and deaths stay. *)
LEMMA OthersStay ==
  ASSUME TypeOK, NEW r \in Run, MainStep(r)
  PROVE  /\ \A q \in Run \ {r} : pc'[q] = pc[q] /\ (q \in killed' <=> q \in killed)
         /\ Alive(r) \/ Start(r)
         /\ pc'[r] # "idle"
         /\ \A q \in Run \ {r} : mysem'[q] = mysem[q]
         /\ kid' = kid
         /\ pc' \in [Run -> PCs] /\ killed' \subseteq Run
  <1> USE DEF TypeOK, Goto, semaphores, At, Alive
  <1>1. CASE Start(r)
    BY <1>1 DEF Start, PCs
  <1>2. CASE UnlinkOld(r)
    BY <1>2 DEF UnlinkOld, UnlinkParking, UnlinkVehicle, PCs
  <1>3. CASE OpenParking(r)
    BY <1>3 DEF OpenParking, PCs
  <1>4. CASE OpenVehicle(r)
    BY <1>4 DEF OpenVehicle, PCs
  <1>5. CASE AllForked(r) \/ AllReaped(r) \/ OpenFails(r) \/ Interrupt(r)
    BY <1>5 DEF AllForked, AllReaped, OpenFails, Interrupt, PCs
  <1>6. CASE Kill(r)
    BY <1>6 DEF Kill, PCs
  <1>7. CASE cleanup(r)
    BY <1>7 DEF cleanup, UnlinkParking, UnlinkVehicle, PCs
  <1>8. CASE \E k \in Kid : ForkFails(r, k)
    BY <1>8 DEF ForkFails, NextToFork, PCs
  <1> QED
    BY <1>1, <1>2, <1>3, <1>4, <1>5, <1>6, <1>7, <1>8 DEF MainStep

(* A step of a child, a fork or a death of a child leaves main alone. *)
KidStep(r, k) == Fork(r, k) \/ Work(r, k) \/ KidDies(r, k)

(* A child's step leaves the main processes, their handles and the names alone. *)
LEMMA MainStays ==
  ASSUME NEW r \in Run, NEW k \in Kid, KidStep(r, k)
  PROVE  pc' = pc /\ killed' = killed /\ mysem' = mysem /\ link' = link
  BY DEF KidStep, Fork, Work, KidDies, EnterWait, EnterPost, LeaveWait,
         LeavePost, KidMoves, semaphores

(* A step is one of a main process or one of a child. *)
LEMMA NextSplit ==
  Next <=> \E r \in Run : MainStep(r) \/ \E k \in Kid : KidStep(r, k)
  BY Zenon DEF Next, Main, Fail, MainStep, KidStep

(* At most one main process lives at a time. *)
LEMMA OneMainStep ==
  ASSUME TypeOK, OneMain, [Next]_vars PROVE OneMain'
  <1>1. ASSUME NEW r \in Run, MainStep(r) PROVE OneMain'
    <2>1. CASE Alive(r)
      BY <1>1, <2>1, OthersStay DEF OneMain, Alive, Run
    <2>2. CASE Start(r)
      BY <1>1, <2>2, OthersStay DEF OneMain, Alive, Run, Start
    <2> QED
      BY <1>1, <2>1, <2>2, OthersStay
  <1>2. ASSUME NEW r \in Run, NEW k \in Kid, KidStep(r, k) PROVE OneMain'
    BY <1>2, MainStays DEF OneMain, Alive
  <1>3. CASE UNCHANGED vars
    BY <1>3 DEF vars, OneMain, Alive
  <1> QED
    BY <1>1, <1>2, <1>3, NextSplit
-----------------------------------------------------------------------------
(* The handles of every run fit its control location. *)
AllHandles == \A q \in Run : Handles(q)

(* Children leave what names and handles stand for. *)
LEMMA HandlesKid ==
  ASSUME TypeOK, AllHandles, NEW r \in Run, NEW k \in Kid, KidStep(r, k)
  PROVE  AllHandles'
  <1> SUFFICES ASSUME NEW q \in Run PROVE Handles(q)'
    BY DEF AllHandles
  <1> USE DEF Handles, P, V, AllHandles, None
  <1>1. pc' = pc /\ mysem' = mysem /\ link' = link
    BY MainStays
  <1>2. CASE Fork(r, k)
    BY <1>1, <1>2 DEF Fork, NextToFork, At, semaphores, TypeOK, Before
  <1>3. CASE Work(r, k) \/ KidDies(r, k)
    <2>1. kid[r][k] # "unborn"
      BY <1>3 DEF Work, KidDies, EnterWait, EnterPost, LeaveWait, LeavePost,
                  KidMoves
    <2>2. V(r) # None /\ P(r) = r
      BY <2>1
    <2>3. q # r => parking'[q] = parking[q] /\ kid'[q] = kid[q]
      BY <1>3, <2>2 DEF Work, KidDies, EnterWait, EnterPost, LeaveWait,
                        LeavePost, KidMoves, TypeOK
    <2>4. pc[r] \notin Before \cup {"openVehicle"}
      BY <2>2
    <2> QED
      BY <1>1, <2>2, <2>3, <2>4
  <1> QED
    BY <1>2, <1>3 DEF KidStep

(* The start-up and the clean-up keep it, one program point at a time. *)
LEMMA HandlesMain ==
  ASSUME TypeOK, AllHandles, ParkingFree, NEW r \in Run, MainStep(r)
  PROVE  AllHandles'
  <1> SUFFICES ASSUME NEW q \in Run PROVE Handles(q)'
    BY DEF AllHandles
  <1> USE DEF AllHandles, Handles, P, V, None, At, Goto, semaphores, TypeOK, Before
  <1>1. CASE Start(r)
    BY <1>1 DEF Start
  <1>2. CASE UnlinkOld(r)
    <2>1. mysem' = mysem /\ parking' = parking /\ kid' = kid
          /\ link'["vehicle"] \in {link["vehicle"], None}
      BY <1>2 DEF UnlinkOld, UnlinkParking, UnlinkVehicle, Names
    <2>2. \E l \in {"unlinkVehicle", "openParking"} : pc' = [pc EXCEPT ![r] = l]
      BY <1>2 DEF UnlinkOld, UnlinkParking, UnlinkVehicle
    <2>3. pc[r] \in {"unlinkParking", "unlinkVehicle"}
      BY <1>2 DEF UnlinkOld, UnlinkParking, UnlinkVehicle
    <2> QED
      BY <2>1, <2>2, <2>3 DEF Run
  <1>3. CASE OpenParking(r)
    <2>1. link' = [link EXCEPT !["parking"] = Opened(r, "parking")]
          /\ mysem' = [mysem EXCEPT ![r] = [@ EXCEPT !["parking"] = Opened(r, "parking")]]
          /\ pc' = [pc EXCEPT ![r] = "openVehicle"] /\ kid' = kid
          /\ pc[r] = "openParking"
      BY <1>3 DEF OpenParking
    <2>2. Opened(r, "parking") = r /\ parking' = [parking EXCEPT ![r] = Capacity]
      BY <1>3 DEF OpenParking, Opened, ParkingFree, ParkingName
    <2>3. P(r)' = r /\ V(r)' = V(r) /\ link'["vehicle"] = link["vehicle"]
      BY <2>1, <2>2 DEF Names
    <2>4. q # r => Handles(q)' = Handles(q)
      BY <2>1, <2>2, <2>3
    <2>5. Handles(r)'
      BY <2>1, <2>2, <2>3
    <2> QED
      BY <2>4, <2>5
  <1>4. CASE OpenVehicle(r)
    <2> DEFINE o == Opened(r, "vehicle")
    <2>1. link' = [link EXCEPT !["vehicle"] = o]
          /\ mysem' = [mysem EXCEPT ![r] = [@ EXCEPT !["vehicle"] = o]]
          /\ pc' = [pc EXCEPT ![r] = "fork"] /\ kid' = kid
          /\ pc[r] = "openVehicle" /\ parking' = parking
      BY <1>4 DEF OpenVehicle
    <2>2. o \in Run
      BY DEF Opened, Names, Run
    <2>3. V(r)' = o /\ P(r)' = P(r) /\ link'["vehicle"] = o
      BY <2>1 DEF Names
    <2>4. V(q) = None => o = r \/ o # q
      BY DEF Opened
    <2>5. q # r => Handles(q)'
      BY <2>1, <2>3, <2>4
    <2>6. Handles(r)'
      BY <2>1, <2>2, <2>3 DEF Run
    <2> QED
      BY <2>5, <2>6
  <1>5. CASE AllForked(r) \/ AllReaped(r) \/ OpenFails(r) \/ Interrupt(r)
    BY <1>5 DEF AllForked, AllReaped, OpenFails, Interrupt
  <1>6. CASE Kill(r)
    BY <1>6 DEF Kill
  <1>7. CASE cleanup(r)
    <2>1. mysem' = mysem /\ parking' = parking /\ kid' = kid
          /\ link'["vehicle"] \in {link["vehicle"], None}
      BY <1>7 DEF cleanup, UnlinkParking, UnlinkVehicle, Names
    <2>2. \E l \in {"exitVehicle", "exited"} : pc' = [pc EXCEPT ![r] = l]
      BY <1>7 DEF cleanup, UnlinkParking, UnlinkVehicle
    <2>3. pc[r] \in {"exitParking", "exitVehicle"}
      BY <1>7 DEF cleanup, UnlinkParking, UnlinkVehicle
    <2> QED
      BY <2>1, <2>2, <2>3 DEF Run
  <1>8. CASE \E k \in Kid : ForkFails(r, k)
    BY <1>8 DEF ForkFails, NextToFork
  <1> QED
    BY <1>1, <1>2, <1>3, <1>4, <1>5, <1>6, <1>7, <1>8 DEF MainStep
-----------------------------------------------------------------------------
(* A run whose main process steps is the only one whose main process lives. *)
LEMMA Sole ==
  ASSUME TypeOK, OneMain, NEW r \in Run, MainStep(r)
  PROVE  \A q \in Run \ {r} : ~Alive(q) /\ ~Alive(q)'
  <1>1. \A q \in Run \ {r} : ~Alive(q)
    <2>1. CASE Alive(r)
      BY <2>1 DEF OneMain, Alive, Run
    <2>2. CASE Start(r)
      BY <2>2 DEF OneMain, Start, Alive, Run
    <2> QED
      BY <2>1, <2>2, OthersStay
  <1> QED
    BY <1>1, OthersStay DEF Alive

(* While main is halfway through start-up, the name of the spaces is free. *)
LEMMA ParkingFreeStep ==
  ASSUME TypeOK, OneMain, ParkingFree, [Next]_vars
  PROVE  ParkingFree'
  <1>1. ASSUME NEW r \in Run, MainStep(r) PROVE ParkingFree'
    <2>1. SUFFICES ParkingName(r)'
      BY <1>1, Sole DEF ParkingFree, ParkingName, Alive, At
    <2> USE DEF At, Goto, TypeOK, Names, semaphores, ParkingFree, ParkingName
    <2>2. CASE OpenParking(r)
      BY <2>2 DEF OpenParking, Opened, Run, None
    <2>3. CASE UnlinkOld(r)
      <3>1. CASE UnlinkParking(r, "unlinkParking", "unlinkVehicle", "openParking")
        BY <3>1 DEF UnlinkParking
      <3>2. CASE UnlinkVehicle(r, "unlinkVehicle", "openParking")
        BY <3>2 DEF UnlinkVehicle
      <3> QED
        BY <2>3, <3>1, <3>2 DEF UnlinkOld
    <2>4. CASE cleanup(r) \/ Kill(r)
      BY <2>4 DEF cleanup, UnlinkParking, UnlinkVehicle, Kill
    <2>5. CASE Start(r) \/ OpenVehicle(r) \/ AllForked(r) \/ AllReaped(r)
               \/ OpenFails(r) \/ Interrupt(r) \/ \E k \in Kid : ForkFails(r, k)
      BY <2>5 DEF Start, OpenVehicle, AllForked, AllReaped, OpenFails, Interrupt,
                  ForkFails, NextToFork
    <2> QED
      BY <1>1, <2>2, <2>3, <2>4, <2>5 DEF MainStep
  <1>2. ASSUME NEW r \in Run, NEW k \in Kid, KidStep(r, k) PROVE ParkingFree'
    BY <1>2, MainStays DEF ParkingFree, ParkingName, At
  <1>3. CASE UNCHANGED vars
    BY <1>3 DEF vars, ParkingFree, ParkingName, At
  <1> QED
    BY <1>1, <1>2, <1>3, NextSplit

(* A torn main process stays torn. *)
LEMMA TornStays ==
  ASSUME TypeOK, NEW r \in Run, MainStep(r), NoneTorn' PROVE NoneTorn
  BY OthersStay DEF NoneTorn, Torn, Alive, Start, TypeOK

(* No name is left alone while no main process was torn. *)
LEMMA PairedMain ==
  ASSUME TypeOK, OneMain, ParkingFree, AllHandles, Paired, NEW r \in Run, MainStep(r)
  PROVE  Paired'
  <1> SUFFICES ASSUME NoneTorn'
               PROVE  /\ (\A q \in Run : ~Midway(q)') =>
                         (link'["vehicle"] # None => link'["parking"] # None)
                      /\ \A q \in Run : At(q, "openVehicle")' => link'["vehicle"] = None
    BY DEF Paired
  <1>1. NoneTorn
    BY TornStays
  <1>2. \A q \in Run \ {r} : ~Midway(q) /\ ~Midway(q)' /\ ~At(q, "openVehicle")'
    BY Sole DEF Midway, At, Alive
  <1> USE DEF Midway, At, Goto, semaphores, TypeOK, Names
  <1>3. CASE OpenParking(r)
    <2>1. link["parking"] = None /\ link["vehicle"] = None
      BY <1>1, <1>2, <1>3 DEF OpenParking, ParkingFree, ParkingName, Paired
    <2>2. link'["vehicle"] = None
      BY <1>3, <2>1 DEF OpenParking
    <2> QED
      BY <2>2
  <1>4. CASE OpenVehicle(r)
    <2>1. link["parking"] # None /\ link'["parking"] = link["parking"]
      BY <1>4 DEF OpenVehicle, ParkingFree, ParkingName
    <2>2. ~At(r, "openVehicle")'
      BY <1>4 DEF OpenVehicle
    <2> QED
      BY <1>2, <2>1, <2>2
  <1>5. CASE Start(r) \/ AllForked(r) \/ AllReaped(r) \/ OpenFails(r)
             \/ Interrupt(r) \/ \E k \in Kid : ForkFails(r, k)
    BY <1>1, <1>2, <1>5 DEF Start, AllForked, AllReaped, OpenFails, Interrupt,
       ForkFails, NextToFork, Paired
  <1>6. CASE Kill(r)
    <2>1. ~Midway(r)
      BY <1>6 DEF Kill, NoneTorn, Torn, Alive
    <2> QED
      BY <1>1, <1>2, <1>6, <2>1 DEF Kill, Paired
  <1>7. CASE \E from, to : UnlinkVehicle(r, from, to) /\ to # "openVehicle"
    BY <1>2, <1>7 DEF UnlinkVehicle
  <1>8. CASE \E from, more, skip : /\ UnlinkParking(r, from, more, skip)
                                   /\ from \in {"unlinkParking", "exitParking"}
                                   /\ more \in {"unlinkVehicle", "exitVehicle"}
                                   /\ skip \in {"openParking", "exited"}
    <2>1. ~Midway(r) /\ ~At(r, "openVehicle")'
      BY <1>8 DEF UnlinkParking
    <2>2. CASE link["parking"] = None
      BY <1>1, <1>2, <1>8, <2>1, <2>2 DEF UnlinkParking, Paired
    <2>3. CASE link["parking"] # None
      <3>1. Midway(r)'
        BY <1>8, <2>3 DEF UnlinkParking
      <3> QED
        BY <1>2, <2>1, <3>1
    <2> QED
      BY <2>2, <2>3
  <1>9. CASE UnlinkOld(r) \/ cleanup(r)
    BY <1>7, <1>8, <1>9 DEF UnlinkOld, cleanup
  <1> QED
    BY <1>3, <1>4, <1>5, <1>6, <1>9 DEF MainStep

(* Every step keeps it. *)
LEMMA PairedStep ==
  ASSUME TypeOK, OneMain, ParkingFree, AllHandles, Paired, [Next]_vars
  PROVE  Paired'
  <1>1. ASSUME NEW r \in Run, NEW k \in Kid, KidStep(r, k) PROVE Paired'
    BY <1>1, MainStays DEF Paired, NoneTorn, Torn, Midway, At
  <1>2. CASE UNCHANGED vars
    BY <1>2 DEF vars, Paired, NoneTorn, Torn, Midway, At
  <1> QED
    BY <1>1, <1>2, PairedMain, NextSplit
-----------------------------------------------------------------------------
(* A run opens two semaphores of its own making unless a main was torn. *)
LEMMA FreshStep ==
  ASSUME TypeOK, OneMain, AllHandles, Paired, FreshUnlessTorn, [Next]_vars
  PROVE  FreshUnlessTorn'
  <1> USE DEF P, V, IsOpen
  <1>1. ASSUME NEW r \in Run, MainStep(r) PROVE FreshUnlessTorn'
    <2> SUFFICES ASSUME NoneTorn', NEW q \in Run, IsOpen(q)'
                 PROVE  P(q)' = q /\ V(q)' = q
      BY DEF FreshUnlessTorn, NoneTorn
    <2>1. NoneTorn
      BY <1>1, TornStays
    <2>2. CASE mysem'[q] = mysem[q]
      BY <2>1, <2>2 DEF FreshUnlessTorn, NoneTorn
    <2>3. CASE q = r /\ OpenParking(r)
      BY <2>3 DEF OpenParking, AllHandles, Handles, At, Before, TypeOK, Names
    <2>4. CASE q = r /\ OpenVehicle(r)
      <3>1. Opened(r, "vehicle") = r
        BY <2>1, <2>4 DEF OpenVehicle, Paired, Opened
      <3>2. P(r) = r
        BY <2>4 DEF OpenVehicle, AllHandles, Handles, At
      <3>3. mysem' = [mysem EXCEPT ![r] = [@ EXCEPT !["vehicle"] = r]]
        BY <2>4, <3>1 DEF OpenVehicle
      <3> QED
        BY <2>4, <3>2, <3>3 DEF TypeOK, Names
    <2>5. q = r /\ ~OpenParking(r) /\ ~OpenVehicle(r) => mysem'[q] = mysem[q]
      BY <1>1 DEF MainStep, Start, UnlinkOld, AllForked, AllReaped, cleanup,
         OpenFails, Interrupt, Kill, ForkFails, UnlinkParking, UnlinkVehicle, semaphores
    <2> QED
      BY <1>1, <2>2, <2>3, <2>4, <2>5, OthersStay
  <1>2. ASSUME NEW r \in Run, NEW k \in Kid, KidStep(r, k) PROVE FreshUnlessTorn'
    BY <1>2, MainStays DEF FreshUnlessTorn, Torn
  <1>3. CASE UNCHANGED vars
    BY <1>3 DEF vars, FreshUnlessTorn, Torn
  <1> QED
    BY <1>1, <1>2, <1>3, NextSplit
-----------------------------------------------------------------------------
(* Conservation.  The units in the hands of children are a finite set, which
   grows by sem_wait and shrinks by sem_post. *)
LEMMA InHandFinite ==
  ASSUME NEW r \in Run
  PROVE  /\ IsFiniteSet(InHand(r)) /\ Cardinality(InHand(r)) \in Nat
         /\ IsFiniteSet(InHand(r)') /\ Cardinality(InHand(r)') \in Nat
  <1>1. IsFiniteSet(Kid)
    BY ParkingAssumption DEF Kid
  <1>2. InHand(r) \subseteq Kid /\ InHand(r)' \subseteq Kid
    BY DEF InHand
  <1> QED
    BY <1>1, <1>2, FS_Subset, FS_CardinalityType

(* What a child's move does to the number of units in hand. *)
LEMMA InHandMoves ==
  ASSUME TypeOK, NEW r \in Run, NEW k \in Kid, NEW from, NEW to,
         KidMoves(r, k, from, to)
  PROVE  /\ from = "loop" /\ to = "mid" =>
              Cardinality(InHand(r)') = Cardinality(InHand(r)) + 1
         /\ from = "mid" /\ to = "loop" =>
              Cardinality(InHand(r)') = Cardinality(InHand(r)) - 1
         /\ (from = "loop" /\ to = "gone") \/ (from = "mid" /\ to = "lost") =>
              InHand(r)' = InHand(r)
         /\ \A q \in Run \ {r} : InHand(q)' = InHand(q)
  <1>1. kid' = [kid EXCEPT ![r] = [@ EXCEPT ![k] = to]] /\ kid[r][k] = from
    BY DEF KidMoves
  <1>2. \A q \in Run \ {r} : kid'[q] = kid[q]
    BY <1>1 DEF TypeOK
  <1>3. kid'[r] = [kid[r] EXCEPT ![k] = to] /\ kid[r] \in [Kid -> KidStates]
    BY <1>1 DEF TypeOK
  <1>4. ASSUME from = "loop", to = "mid"
        PROVE  Cardinality(InHand(r)') = Cardinality(InHand(r)) + 1
    <2>1. InHand(r)' = InHand(r) \cup {k} /\ k \notin InHand(r)
      BY <1>1, <1>3, <1>4 DEF InHand
    <2> QED
      BY <2>1, InHandFinite, FS_AddElement
  <1>5. ASSUME from = "mid", to = "loop"
        PROVE  Cardinality(InHand(r)') = Cardinality(InHand(r)) - 1
    <2>1. InHand(r)' = InHand(r) \ {k} /\ k \in InHand(r)
      BY <1>1, <1>3, <1>5 DEF InHand
    <2> QED
      BY <2>1, InHandFinite, FS_RemoveElement
  <1>6. (from = "loop" /\ to = "gone") \/ (from = "mid" /\ to = "lost") =>
              InHand(r)' = InHand(r)
    BY <1>1, <1>3 DEF InHand
  <1> QED
    BY <1>2, <1>4, <1>5, <1>6 DEF InHand

(* A child touches the two objects its run has opened and no other. *)
LEMMA KidTouches ==
  ASSUME TypeOK, AllHandles, NEW r \in Run, NEW k \in Kid, KidStep(r, k),
         NEW q \in Run, Isolated(q)
  PROVE  q # r => /\ parking'[q] = parking[q] /\ vehicle'[q] = vehicle[q]
                  /\ InHand(q)' = InHand(q)
  <1> SUFFICES ASSUME q # r PROVE /\ parking'[q] = parking[q]
                                  /\ vehicle'[q] = vehicle[q] /\ InHand(q)' = InHand(q)
    OBVIOUS
  <1>1. P(r) # q /\ V(r) # q
    BY DEF Isolated
  <1>2. CASE Fork(r, k)
    BY <1>2 DEF Fork, InHand, semaphores, TypeOK
  <1>3. CASE Work(r, k) \/ KidDies(r, k)
    BY <1>1, <1>3 DEF Work, KidDies, EnterWait, EnterPost, LeaveWait, LeavePost,
                      KidMoves, InHand, TypeOK
  <1> QED
    BY <1>2, <1>3 DEF KidStep

(* A child's step moves a unit, and makes none. *)
LEMMA ConservationKid ==
  ASSUME TypeOK, AllHandles, Conservation, NEW r \in Run, NEW k \in Kid, KidStep(r, k)
  PROVE  Conservation'
  <1> SUFFICES ASSUME NEW q \in Run, Isolated(q)'
      PROVE  parking'[q] + vehicle'[q] + Cardinality(InHand(q)') = Capacity
    BY DEF Conservation
  <1>1. Isolated(q)
    BY MainStays DEF Isolated, P, V
  <1>2. parking[q] + vehicle[q] + Cardinality(InHand(q)) = Capacity
    BY <1>1 DEF Conservation
  <1>3. CASE q # r
    BY <1>1, <1>2, <1>3, KidTouches
  <1>4. CASE q = r
    <2>1. P(r) = r /\ V(r) = r
      BY <1>1, <1>4 DEF Isolated
    <2>2. parking[r] \in Nat /\ vehicle[r] \in Nat /\ Cardinality(InHand(r)) \in Nat
      BY InHandFinite DEF TypeOK
    <2>3. CASE Fork(r, k)
      <3>1. InHand(r)' = InHand(r)
        BY <2>3 DEF Fork, NextToFork, InHand, TypeOK
      <3> QED
        BY <1>2, <1>4, <2>3, <3>1 DEF Fork, semaphores
    <2>4. CASE EnterWait(r, k)
      <3>1. parking'[r] = parking[r] - 1 /\ vehicle' = vehicle
        BY <2>1, <2>4 DEF EnterWait, TypeOK
      <3> QED
        BY <1>2, <1>4, <2>2, <2>4, <3>1, InHandMoves DEF EnterWait
    <2>5. CASE EnterPost(r, k)
      <3>1. vehicle'[r] = vehicle[r] + 1 /\ parking' = parking
        BY <2>1, <2>5 DEF EnterPost, TypeOK
      <3> QED
        BY <1>2, <1>4, <2>2, <2>5, <3>1, InHandMoves DEF EnterPost
    <2>6. CASE LeaveWait(r, k)
      <3>1. vehicle'[r] = vehicle[r] - 1 /\ parking' = parking
        BY <2>1, <2>6 DEF LeaveWait, TypeOK
      <3> QED
        BY <1>2, <1>4, <2>2, <2>6, <3>1, InHandMoves DEF LeaveWait
    <2>7. CASE LeavePost(r, k)
      <3>1. parking'[r] = parking[r] + 1 /\ vehicle' = vehicle
        BY <2>1, <2>7 DEF LeavePost, TypeOK
      <3> QED
        BY <1>2, <1>4, <2>2, <2>7, <3>1, InHandMoves DEF LeavePost
    <2>8. CASE KidDies(r, k)
      <3>1. InHand(r)' = InHand(r)
        BY <2>8, InHandMoves DEF KidDies
      <3> QED
        BY <1>2, <1>4, <2>8, <3>1 DEF KidDies
    <2> QED
      BY <2>3, <2>4, <2>5, <2>6, <2>7, <2>8 DEF KidStep, Work
  <1> QED
    BY <1>3, <1>4

(* A main process gives a pair its capacity before anybody has a unit in hand. *)
LEMMA ConservationMain ==
  ASSUME TypeOK, AllHandles, Conservation, NEW r \in Run, MainStep(r)
  PROVE  Conservation'
  <1> SUFFICES ASSUME NEW q \in Run, Isolated(q)'
      PROVE  parking'[q] + vehicle'[q] + Cardinality(InHand(q)') = Capacity
    BY DEF Conservation
  <1>1. InHand(q)' = InHand(q)
    BY OthersStay DEF InHand
  <1>2. CASE OpenParking(r)
    <2>1. V(r) = None /\ P(r) = None /\ parking[r] = Capacity
      BY <1>2 DEF OpenParking, At, AllHandles, Handles, Before
    <2>2. V(r)' = None
      BY <1>2, <2>1 DEF OpenParking, V, TypeOK, Names
    <2>3. q # r
      BY <2>2 DEF Isolated, None, Run
    <2>4. Isolated(q)
      BY <2>1, <2>3, OthersStay DEF Isolated, P, V, None, Run
    <2>5. parking'[q] = parking[q] /\ vehicle' = vehicle
      BY <1>2, <2>3 DEF OpenParking, TypeOK
    <2> QED
      BY <1>1, <2>4, <2>5 DEF Conservation
  <1>3. CASE OpenVehicle(r)
    <2>1. V(r) = None /\ P(r) = r /\ parking[r] = Capacity /\ link["vehicle"] # r
          /\ \A k \in Kid : kid[r][k] = "unborn"
      BY <1>3 DEF OpenVehicle, At, AllHandles, Handles, Before
    <2>2. CASE q # r
      <3>1. Isolated(q)
        BY <2>1, <2>2, OthersStay DEF Isolated, P, V, None, Run
      <3>2. vehicle'[q] = vehicle[q] /\ parking' = parking
        BY <1>3, <2>2 DEF OpenVehicle, TypeOK
      <3> QED
        BY <1>1, <3>1, <3>2 DEF Conservation
    <2>3. CASE q = r
      <3>1. V(r)' = Opened(r, "vehicle")
        BY <1>3 DEF OpenVehicle, V, TypeOK, Names
      <3>2. link["vehicle"] = None
        BY <2>1, <2>3, <3>1 DEF Opened, Isolated
      <3>3. vehicle'[r] = Capacity - Capacity /\ parking' = parking
        BY <1>3, <3>2 DEF OpenVehicle, TypeOK
      <3>4. InHand(r) = {}
        BY <2>1 DEF InHand
      <3> QED
        BY <1>1, <2>1, <2>3, <3>3, <3>4, FS_EmptySet, ParkingAssumption
    <2> QED
      BY <2>2, <2>3
  <1>4. CASE ~OpenParking(r) /\ ~OpenVehicle(r)
    <2>1. mysem' = mysem /\ parking' = parking /\ vehicle' = vehicle
      BY <1>4 DEF MainStep, Start, UnlinkOld, AllForked, AllReaped, cleanup,
         OpenFails, Interrupt, Kill, ForkFails, UnlinkParking, UnlinkVehicle, semaphores
    <2> QED
      BY <1>1, <2>1 DEF Conservation, Isolated, P, V
  <1> QED
    BY <1>2, <1>3, <1>4

(* The inductive invariant holds at first. *)
LEMMA InvInit == Init => IInv
  <1> SUFFICES ASSUME Init PROVE IInv
    OBVIOUS
  <1>1. TypeOK
    BY TypeInit
  <1>2. \A r \in Run : P(r) = None /\ V(r) = None /\ r # None
    BY DEF Init, P, V, Names, Run, None
  <1> QED
    BY <1>1, <1>2 DEF Init, IInv, OneMain, Handles, ParkingFree, ParkingName, Paired,
       Conservation, FreshUnlessTorn, Isolated, IsOpen, Before, At, Alive, Names, V

(* Every step keeps it. *)
LEMMA InvStep == IInv /\ [Next]_vars => IInv'
  <1> SUFFICES ASSUME IInv, [Next]_vars PROVE IInv'
    OBVIOUS
  <1>1. TypeOK /\ OneMain /\ AllHandles /\ ParkingFree /\ Paired
        /\ Conservation /\ FreshUnlessTorn
    BY DEF IInv, AllHandles
  <1>2. AllHandles' /\ Conservation'
    <2>1. CASE UNCHANGED vars
      BY <1>1, <2>1 DEF vars, AllHandles, Handles, Conservation, Isolated, InHand, P, V
    <2> QED
      BY <1>1, <2>1, NextSplit, HandlesMain, HandlesKid, ConservationMain, ConservationKid
  <1> QED
    BY <1>1, <1>2, TypeStep, OneMainStep, ParkingFreeStep, PairedStep, FreshStep
       DEF IInv, AllHandles

(* It holds in every reachable state. *)
LEMMA Invariant == Spec => []IInv
  BY InvInit, InvStep, PTL DEF Spec

(* However the children of a run interleave, and wherever any of them dies,
   the spaces, the vehicles and the units in hand of a run that is alone on
   its two semaphores add up to the capacity. *)
THEOREM SpacesConserved == Spec => []Conservation
  <1>1. IInv => Conservation
    BY DEF IInv
  <1> QED
    BY <1>1, Invariant, PTL

(* Start-up recovers from every earlier end of the program but one: a main
   process that died between the two halves of mysem_unlink. *)
THEOREM FreshStart == Spec => []FreshUnlessTorn
  <1>1. IInv => FreshUnlessTorn
    BY DEF IInv
  <1> QED
    BY <1>1, Invariant, PTL
-----------------------------------------------------------------------------
(* The refinement.  A step of a child on a run that is alone is a step of
   the abstract semaphore or no step; on a shared one, a disturbance. *)
Shared == {r \in Run : IsOpen(r) /\ ~Isolated(r)}

(* A run with children has a pair of its own, isolated unless shared. *)
LEMMA IsolatedOrShared ==
  ASSUME AllHandles, NEW r \in Run, NEW k \in Kid, kid[r][k] # "unborn"
  PROVE  P(r) = r /\ (r \in Shared \/ Isolated(r))
  BY DEF AllHandles, Handles, Shared, IsOpen, V

(* A child's step is a wait, a post or a stutter of the bounded semaphore. *)
LEMMA RefineKid ==
  ASSUME IInv, NEW r \in Run, NEW k \in Kid, KidStep(r, k)
  PROVE  [Lot!Next]_<<parking, Shared>>
  <1>1. TypeOK /\ AllHandles /\ Conservation
    BY DEF IInv, AllHandles
  <1>2. Shared' = Shared
    BY MainStays DEF Shared, IsOpen, Isolated, P, V
  <1>3. CASE EnterWait(r, k) \/ LeavePost(r, k)
    <2>1. P(r) = r /\ (r \in Shared \/ Isolated(r))
      BY <1>1, <1>3, IsolatedOrShared DEF EnterWait, LeavePost, KidMoves
    <2>2. CASE r \in Shared
      <3>1. \A m \in Run \ {r} : parking'[m] = parking[m]
        BY <1>1, <1>3, <2>1 DEF EnterWait, LeavePost, TypeOK
      <3>2. Lot!Disturb(r)
        BY <1>2, <2>2, <3>1 DEF Lot!Disturb, Shared, IsOpen, Isolated, P, V
      <3> QED
        BY <3>2 DEF Lot!Next
    <2>3. CASE Isolated(r) /\ EnterWait(r, k)
      <3>1. Lot!Wait(r)
        BY <1>2, <2>1, <2>3 DEF EnterWait, Lot!Wait, Shared
      <3> QED
        BY <3>1 DEF Lot!Next
    <2>4. CASE Isolated(r) /\ LeavePost(r, k)
      <3>1. parking[r] + vehicle[r] + Cardinality(InHand(r)) = Capacity
        BY <1>1, <2>4 DEF Conservation
      <3>2. k \in InHand(r)
        BY <2>4 DEF LeavePost, KidMoves, InHand
      <3>3. Cardinality(InHand(r)) \in Nat \ {0}
        BY <3>2, InHandFinite, FS_EmptySet
      <3>4. parking[r] < Capacity
        <4>1. parking[r] \in Nat /\ vehicle[r] \in Nat
          BY <1>1 DEF TypeOK
        <4> QED
          BY <3>1, <3>3, <4>1
      <3>5. Lot!Post(r)
        BY <1>2, <2>1, <2>4, <3>4 DEF LeavePost, Lot!Post, Shared
      <3> QED
        BY <3>5 DEF Lot!Next
    <2> QED
      BY <1>3, <2>1, <2>2, <2>3, <2>4
  <1>4. CASE ~(EnterWait(r, k) \/ LeavePost(r, k))
    BY <1>2, <1>4 DEF KidStep, Work, Fork, KidDies, EnterPost, LeaveWait, semaphores
  <1> QED
    BY <1>3, <1>4

(* A handle, once opened, is never replaced. *)
LEMMA HandlesKept ==
  ASSUME TypeOK, AllHandles, NEW r \in Run, MainStep(r), NEW q \in Run,
         NEW n \in Names, mysem[q][n] # None
  PROVE  mysem'[q][n] = mysem[q][n]
  <1>1. CASE OpenParking(r)
    BY <1>1 DEF OpenParking, AllHandles, Handles, At, Before, P, V, Names, TypeOK
  <1>2. CASE OpenVehicle(r)
    BY <1>2 DEF OpenVehicle, AllHandles, Handles, At, Before, P, V, Names, TypeOK
  <1> QED
    BY <1>1, <1>2 DEF MainStep, Start, UnlinkOld, AllForked, AllReaped, cleanup,
       OpenFails, Interrupt, Kill, ForkFails, UnlinkParking, UnlinkVehicle, semaphores

(* Start-up, failures and exits of main never move the counter of spaces;
   they can only put an object into the use of a second run. *)
LEMMA RefineMain ==
  ASSUME IInv, NEW r \in Run, MainStep(r)
  PROVE  [Lot!Next]_<<parking, Shared>>
  <1>1. TypeOK /\ AllHandles
    BY DEF IInv, AllHandles
  <1>2. parking' = parking
    <2>1. CASE OpenParking(r)
      BY <1>1, <2>1 DEF OpenParking, AllHandles, Handles, At, Before, TypeOK
    <2> QED
      BY <2>1 DEF MainStep, Start, UnlinkOld, OpenVehicle, AllForked, AllReaped,
         cleanup, OpenFails, Interrupt, Kill, ForkFails, UnlinkParking,
         UnlinkVehicle, semaphores
  <1>3. ASSUME NEW q \in Run, q \in Shared PROVE q \in Shared'
    <2>1. IsOpen(q)' /\ V(q)' = V(q) /\ P(q)' = P(q)
      BY <1>1, <1>3, HandlesKept DEF Shared, IsOpen, P, V, Names, AllHandles,
                                     Handles, None, Run
    <2>2. ~Isolated(q)'
      BY <1>1, <1>3, <2>1, HandlesKept DEF Shared, Isolated, P, V, Names, None, Run
    <2> QED
      BY <2>1, <2>2 DEF Shared
  <1>4. Shared \subseteq Shared' /\ Shared' \subseteq Run
    BY <1>3 DEF Shared
  <1>5. Lot!Share
    BY <1>2, <1>4 DEF Lot!Share, Shared
  <1> QED
    BY <1>5 DEF Lot!Next

(* The pair of semaphores of parking.c is a semaphore that blocks at both
   ends, for every lot that is not shared with a second run. *)
THEOREM PairImplementsSemaphore == Spec => ImplementsBoundedSemaphore
  <1>1. Init => Lot!Init
    <2> SUFFICES ASSUME Init PROVE Lot!Init
      OBVIOUS
    <2>1. Shared = {}
      BY DEF Init, Shared, IsOpen, V, Names
    <2> QED
      BY <2>1 DEF Init, Lot!Init, Shared
  <1>2. IInv /\ [Next]_vars => [Lot!Next]_<<parking, Shared>>
    <2>1. UNCHANGED vars => UNCHANGED <<parking, Shared>>
      BY DEF vars, Shared, IsOpen, Isolated, P, V
    <2> QED
      BY <2>1, RefineKid, RefineMain, NextSplit
  <1> QED
    BY <1>1, <1>2, Invariant, PTL DEF Spec, ImplementsBoundedSemaphore, Lot!Spec, Shared
=============================================================================
