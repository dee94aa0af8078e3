------------------------------ MODULE Parking -------------------------------
(***************************************************************************)
(* os/osprj/parking.c: a parking lot whose spaces are counted by a pair of *)
(* named POSIX semaphores.  A main process removes what an earlier run may *)
(* have left, creates the pair, forks entrance and exit processes and      *)
(* waits for them; its exit handler removes the pair again.                *)
(*                                                                         *)
(* The program keeps state OUTSIDE itself: the kernel's semaphores outlive *)
(* a run that is killed.  The model therefore follows a sequence of runs   *)
(* 1..Runs over one kernel.  Run r + 1 starts once the main process of run *)
(* r is gone; the children of run r may be orphans that still park cars.   *)
(***************************************************************************)
EXTENDS Integers, FiniteSets

CONSTANTS Runs,       (* how often the program is started                  *)
          Entrances,  (* the entrance processes of a run                   *)
          Exits,      (* the exit processes of a run                       *)
          Capacity    (* the spaces of the lot                             *)

ASSUME ParkingAssumption == /\ Runs \in Nat
                            /\ Capacity \in Nat
                            /\ Entrances \cap Exits = {}
                            /\ IsFiniteSet(Entrances \cup Exits)

Run  == 1 .. Runs
Kid  == Entrances \cup Exits
None == 0

VARIABLES
  link,     (* what run created the object each semaphore name stands for  *)
  parking,  (* value of the /sem_parking object created by each run        *)
  vehicle,  (* value of the /sem_vehicle object created by each run        *)
  mysem,    (* the objects each run has opened, by the run that made them  *)
  pc,       (* where the main process of each run is                       *)
  killed,   (* the runs whose main process died without cleaning up        *)
  kid       (* what each child process of each run is doing                *)

vars == <<link, parking, vehicle, mysem, pc, killed, kid>>

Names == {"parking", "vehicle"}

PCs == {"idle", "unlinkParking", "unlinkVehicle", "openParking",
        "openVehicle", "fork", "wait", "exitParking", "exitVehicle", "exited"}

(* "mid": between the two semaphore operations of mysem_wait or mysem_post;
   "gone" and "lost": killed outside and inside that window. *)
KidStates == {"unborn", "loop", "mid", "gone", "lost"}

TypeOK == /\ link \in [Names -> Run \cup {None}]
          /\ parking \in [Run -> Nat]
          /\ vehicle \in [Run -> Nat]
          /\ mysem \in [Run -> [Names -> Run \cup {None}]]
          /\ pc \in [Run -> PCs]
          /\ killed \in SUBSET Run
          /\ kid \in [Run -> [Kid -> KidStates]]

Init == /\ link = [n \in Names |-> None]
        /\ parking = [r \in Run |-> Capacity]
        /\ vehicle = [r \in Run |-> 0]
        /\ mysem = [r \in Run |-> [n \in Names |-> None]]
        /\ pc = [r \in Run |-> "idle"]
        /\ killed = {}
        /\ kid = [r \in Run |-> [k \in Kid |-> "unborn"]]

At(r, l)  == pc[r] = l /\ r \notin killed
Alive(r)  == pc[r] \notin {"idle", "exited"} /\ r \notin killed
Goto(r, l) == pc' = [pc EXCEPT ![r] = l]

semaphores == <<link, parking, vehicle, mysem>>
-----------------------------------------------------------------------------
(* The main process: start-up. *)

(* main, up to the registration of the exit handler. *)
Start(r) == /\ pc[r] = "idle"
            /\ \A q \in Run : q < r => pc[q] # "idle" /\ ~Alive(q)
            /\ Goto(r, "unlinkParking")
            /\ UNCHANGED <<semaphores, killed, kid>>

(* mysem_unlink, first half, from main or from cleanup.  A name that is not
   linked makes sem_unlink fail, and the || skips the other name. *)
UnlinkParking(r, from, more, skip) ==
  /\ At(r, from)
  /\ link' = [link EXCEPT !["parking"] = None]
  /\ Goto(r, IF link["parking"] = None THEN skip ELSE more)
  /\ UNCHANGED <<parking, vehicle, mysem, killed, kid>>

(* mysem_unlink, second half; its failure is printed and ignored. *)
UnlinkVehicle(r, from, to) ==
  /\ At(r, from)
  /\ link' = [link EXCEPT !["vehicle"] = None]
  /\ Goto(r, to)
  /\ UNCHANGED <<parking, vehicle, mysem, killed, kid>>

(* Fault: the pair an earlier run has left is not removed. *)
UnlinkNothing(r) == /\ At(r, "unlinkParking")
                    /\ Goto(r, "openParking")
                    /\ UNCHANGED <<semaphores, killed, kid>>

UnlinkOld(r) ==
  \/ UnlinkParking(r, "unlinkParking", "unlinkVehicle", "openParking")
  \/ UnlinkVehicle(r, "unlinkVehicle", "openParking")

(* sem_open with O_CREAT: the initial value counts only when the name is not
   linked; otherwise the object that is there is opened as it is. *)
Opened(r, n) == IF link[n] = None THEN r ELSE link[n]

OpenParking(r) ==
  /\ At(r, "openParking")
  /\ link' = [link EXCEPT !["parking"] = Opened(r, "parking")]
  /\ mysem' = [mysem EXCEPT ![r]["parking"] = Opened(r, "parking")]
  /\ parking' = IF link["parking"] = None
                THEN [parking EXCEPT ![r] = Capacity] ELSE parking
  /\ Goto(r, "openVehicle")
  /\ UNCHANGED <<vehicle, killed, kid>>

OpenVehicle(r) ==
  /\ At(r, "openVehicle")
  /\ link' = [link EXCEPT !["vehicle"] = Opened(r, "vehicle")]
  /\ mysem' = [mysem EXCEPT ![r]["vehicle"] = Opened(r, "vehicle")]
  /\ vehicle' = IF link["vehicle"] = None
                THEN [vehicle EXCEPT ![r] = Capacity - Capacity] ELSE vehicle
  /\ Goto(r, "fork")
  /\ UNCHANGED <<parking, killed, kid>>

(* A sem_open that fails, or after both the malloc of mysem or the first
   sem_getvalue: main exits through the handler. *)
OpenFails(r) == /\ \/ At(r, "openParking") \/ At(r, "openVehicle")
                   \/ At(r, "fork") /\ \A k \in Kid : kid[r][k] = "unborn"
                /\ Goto(r, "exitParking")
                /\ UNCHANGED <<semaphores, killed, kid>>

(* Entrances are forked before exits. *)
NextToFork(r, k) ==
  /\ At(r, "fork")
  /\ kid[r][k] = "unborn"
  /\ k \in Exits => \A e \in Entrances : kid[r][e] # "unborn"

Fork(r, k) == /\ NextToFork(r, k)
              /\ kid' = [kid EXCEPT ![r][k] = "loop"]
              /\ UNCHANGED <<semaphores, pc, killed>>

(* A failed fork of an entrance ends main with exit, which runs the handler;
   of an exit, with _exit, which does not. *)
ForkFails(r, k) == /\ NextToFork(r, k)
                   /\ Goto(r, IF k \in Entrances THEN "exitParking" ELSE "exited")
                   /\ UNCHANGED <<semaphores, killed, kid>>

(* All children forked: the SIGINT handler is installed. *)
AllForked(r) == /\ At(r, "fork")
                /\ \A k \in Kid : kid[r][k] # "unborn"
                /\ Goto(r, "wait")
                /\ UNCHANGED <<semaphores, killed, kid>>
-----------------------------------------------------------------------------
(* The main process: its end. *)

(* waitpid has collected every child: main returns. *)
AllReaped(r) == /\ At(r, "wait")
                /\ \A k \in Kid : kid[r][k] \in {"gone", "lost"}
                /\ Goto(r, "exitParking")
                /\ UNCHANGED <<semaphores, killed, kid>>

(* SIGINT while main waits: the handler calls exit. *)
Interrupt(r) == /\ At(r, "wait")
                /\ Goto(r, "exitParking")
                /\ UNCHANGED <<semaphores, killed, kid>>

(* The exit handler. *)
cleanup(r) ==
  \/ UnlinkParking(r, "exitParking", "exitVehicle", "exited")
  \/ UnlinkVehicle(r, "exitVehicle", "exited")

(* SIGKILL at any time, a SIGINT before the handler is installed, or one that
   calls exit again inside the exit handler. *)
Kill(r) == /\ Alive(r)
           /\ killed' = killed \cup {r}
           /\ UNCHANGED <<semaphores, pc, kid>>
-----------------------------------------------------------------------------
(* The children of run r, on the objects that run r opened. *)

P(r) == mysem[r]["parking"]
V(r) == mysem[r]["vehicle"]

KidMoves(r, k, from, to) == /\ kid[r][k] = from
                            /\ kid' = [kid EXCEPT ![r][k] = to]
                            /\ UNCHANGED <<link, mysem, pc, killed>>

(* Faults: a vehicle enters a full lot; each second operation acts on the
   semaphore of the first; a vehicle that leaves is still counted. *)
EnterFullLot(r, k) == /\ k \in Entrances
                      /\ KidMoves(r, k, "loop", "mid")
                      /\ parking' = [parking EXCEPT ![P(r)] = @ - 1]
                      /\ UNCHANGED vehicle

LeavePostVehicle(r, k) == /\ k \in Exits
                          /\ KidMoves(r, k, "mid", "loop")
                          /\ vehicle' = [vehicle EXCEPT ![V(r)] = @ + 1]
                          /\ UNCHANGED parking

LeaveUncounted(r, k) == /\ k \in Exits
                        /\ KidMoves(r, k, "loop", "mid")
                        /\ vehicle[V(r)] > 0
                        /\ UNCHANGED <<parking, vehicle>>

(* mysem_wait: sem_wait(parking), then sem_post(vehicle). *)
EnterWait(r, k) == /\ k \in Entrances
                   /\ KidMoves(r, k, "loop", "mid")
                   /\ parking[P(r)] > 0
                   /\ parking' = [parking EXCEPT ![P(r)] = @ - 1]
                   /\ UNCHANGED vehicle

EnterPost(r, k) == /\ k \in Entrances
                   /\ KidMoves(r, k, "mid", "loop")
                   /\ vehicle' = [vehicle EXCEPT ![V(r)] = @ + 1]
                   /\ UNCHANGED parking

(* mysem_post: sem_wait(vehicle), then sem_post(parking). *)
LeaveWait(r, k) == /\ k \in Exits
                   /\ KidMoves(r, k, "loop", "mid")
                   /\ vehicle[V(r)] > 0
                   /\ vehicle' = [vehicle EXCEPT ![V(r)] = @ - 1]
                   /\ UNCHANGED parking

LeavePost(r, k) == /\ k \in Exits
                   /\ KidMoves(r, k, "mid", "loop")
                   /\ parking' = [parking EXCEPT ![P(r)] = @ + 1]
                   /\ UNCHANGED vehicle

(* A child dies of SIGINT (its handler is _exit) or of SIGKILL. *)
KidDies(r, k) == /\ \/ KidMoves(r, k, "loop", "gone")
                    \/ KidMoves(r, k, "mid", "lost")
                 /\ UNCHANGED <<parking, vehicle>>
-----------------------------------------------------------------------------
Main(r) == \/ UnlinkOld(r) \/ OpenParking(r) \/ OpenVehicle(r)
           \/ (\E k \in Kid : Fork(r, k))
           \/ AllForked(r) \/ AllReaped(r) \/ cleanup(r)

Work(r, k) == EnterWait(r, k) \/ EnterPost(r, k)
              \/ LeaveWait(r, k) \/ LeavePost(r, k)

Fail(r) == \/ OpenFails(r) \/ Interrupt(r) \/ Kill(r)
           \/ (\E k \in Kid : ForkFails(r, k) \/ KidDies(r, k))

Next == \E r \in Run : \/ Start(r) \/ Main(r) \/ Fail(r)
                       \/ (\E k \in Kid : Work(r, k))

Spec == Init /\ [][Next]_vars

(* The kernel schedules every process that can run: main and each child. *)
Fairness == \A r \in Run : /\ WF_vars(Main(r))
                           /\ \A k \in Kid : WF_vars(Work(r, k))

FairSpec == Spec /\ Fairness
-----------------------------------------------------------------------------
(* A run has opened its pair. *)
IsOpen(r) == mysem[r]["vehicle"] # None

(* The run made both its semaphores and no other run has opened them. *)
Isolated(r) == /\ P(r) = r /\ V(r) = r
               /\ \A q \in Run \ {r} : P(q) # r /\ V(q) # r

(* The children that hold a unit they have taken from one semaphore and not
   yet given to the other; a child that died there holds it for ever. *)
InHand(r) == {k \in Kid : kid[r][k] \in {"mid", "lost"}}

(* Of a run that is alone on its pair, no space and no vehicle is ever made
   or destroyed: free spaces, parked vehicles and the units in the hands of
   children (dead ones too) add up to the capacity, at every point between
   the two semaphore operations of mysem_wait and mysem_post (103-127). *)
Conservation ==
  \A r \in Run : Isolated(r) =>
    parking[r] + vehicle[r] + Cardinality(InHand(r)) = Capacity

(* A name can survive alone only if a main process died between the two
   halves of mysem_unlink (82).  As long as none did, every run works on two
   semaphores of its own making, whatever other deaths, failed forks, failed
   opens and orphans came before it (193-201). *)
Torn(r) == r \in killed /\ pc[r] \in {"unlinkVehicle", "exitVehicle"}
FreshUnlessTorn ==
  (\A q \in Run : ~Torn(q)) => \A r \in Run : IsOpen(r) => P(r) = r /\ V(r) = r

(* "Remove existing semaphone ... Create a new semaphone" (lines 193, 200):
   a run that goes on to fork works on two semaphores it has created. *)
CreatesNewPair == \A r \in Run : IsOpen(r) => P(r) = r /\ V(r) = r

(* A lot that is full opens again, and one that is empty fills again, as
   long as the run is alone on its pair and all its children live: the two
   ends of the semaphore never block each other for good (102, 115). *)
Healthy(r) == Isolated(r) /\ \A k \in Kid : kid[r][k] \in {"loop", "mid"}
LotGoesOn ==
  \A r \in Run :
    /\ (Healthy(r) /\ parking[r] = 0) ~> (parking[r] > 0 \/ ~Healthy(r))
    /\ (Healthy(r) /\ vehicle[r] = 0) ~> (vehicle[r] > 0 \/ ~Healthy(r))

(* The two-semaphore construction implements a semaphore that blocks at both
   ends: a vehicle enters when sem_wait takes its space and has left when
   sem_post gives the space back (comment, lines 24-26). *)
Lot == INSTANCE BoundedSemaphore WITH
         Lots   <- Run,
         space  <- parking,
         shared <- {r \in Run : IsOpen(r) /\ ~Isolated(r)}
ImplementsBoundedSemaphore == Lot!Spec
=============================================================================
