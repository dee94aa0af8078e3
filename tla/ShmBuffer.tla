----------------------------- MODULE ShmBuffer ------------------------------
(***************************************************************************)
(* ipc/shm/producer.c and ipc/shm/consumer.c: a ring buffer in shared      *)
(* memory guarded by three named semaphores.  Each program opens them,     *)
(* maps the memory, sets both indices to 0, forks its children and waits;  *)
(* when its children are gone it unlinks the names.  No program catches a  *)
(* signal, so any process may be killed at any point, and either program   *)
(* may be started any number of times over the same names.                 *)
(*                                                                         *)
(* The model follows one life of the names, up to the first unlink: a      *)
(* program started after it would work on new objects.                     *)
(***************************************************************************)
EXTENDS Integers, Sequences, FiniteSets

CONSTANTS ProducerRuns,  (* executions of ./producer                       *)
          ConsumerRuns,  (* executions of ./consumer                       *)
          num,           (* argv[1], the children of an execution          *)
          BUF_SIZE,      (* slots of the ring                              *)
          ValueSize,     (* values are 0 .. ValueSize - 1 (100 in the code) *)
          MaxKills       (* bound: no process is killed after so many were *)

ASSUME ShmBufferAssumption == /\ num \in Nat
                              /\ BUF_SIZE \in Nat \ {0}
                              /\ ValueSize \in Nat \ {0}
                              /\ MaxKills \in Nat
                              /\ ProducerRuns \cap ConsumerRuns = {}
                              /\ IsFiniteSet(ProducerRuns \cup ConsumerRuns)

Run       == ProducerRuns \cup ConsumerRuns
Producers == ProducerRuns \X (1 .. num)
Consumers == ConsumerRuns \X (1 .. num)
Kid       == Producers \cup Consumers
Slots     == 0 .. (BUF_SIZE - 1)
Values    == 0 .. (ValueSize - 1)
Missing   == -1

VARIABLES
  sem,       (* the named semaphores; Missing until created                *)
  shm,       (* the shared memory object: "missing", "empty" or "sized"    *)
  buffer, in, out,   (* *mem                                               *)
  value,     (* the value each consumer has read last                      *)
  main,      (* where the main process of each execution is                *)
  pc,        (* where each child is                                        *)
  killed,    (* the mains and children that were killed                    *)
  retired,   (* some name has been unlinked                                *)
  disturbed  (* history: some reset of in or out was not a no-op           *)

memory == <<buffer, in, out>>
vars == <<sem, shm, memory, value, main, pc, killed, retired, disturbed>>

SemNames == {"full", "empty", "mutex"}

TypeOK ==
  /\ sem \in [SemNames -> Nat \cup {Missing}]
  /\ shm \in {"missing", "empty", "sized"}
  /\ buffer \in [Slots -> Values] /\ in \in Slots /\ out \in Slots
  /\ value \in [Consumers -> Values]
  /\ main \in [Run -> {"idle", "full", "empty", "mutex", "shm", "ftruncate",
                       "in", "out", "fork", "wait", "unlink", "exited"}]
  /\ pc \in [Kid -> {"unborn", "first", "lock", "access", "advance",
                     "unlock", "last"}]
  /\ killed \subseteq Run \cup Kid
  /\ retired \in BOOLEAN /\ disturbed \in BOOLEAN

Init ==
  /\ sem = [n \in SemNames |-> Missing]
  /\ shm = "missing"
  /\ buffer = [s \in Slots |-> 0] /\ in = 0 /\ out = 0
  /\ value = [c \in Consumers |-> 0]
  /\ main = [r \in Run |-> "idle"]
  /\ pc = [k \in Kid |-> "unborn"]
  /\ killed = {}
  /\ retired = FALSE /\ disturbed = FALSE
-----------------------------------------------------------------------------
(* The main processes. *)

At(r, l)    == main[r] = l /\ r \notin killed
MainAlive(r) == main[r] \notin {"idle", "exited"} /\ r \notin killed
Goto(r, l)  == main' = [main EXCEPT ![r] = l]

MainMoves(r, from, to) == At(r, from) /\ Goto(r, to)

Start(r) == /\ ~retired
            /\ MainMoves(r, "idle", "full")
            /\ UNCHANGED <<sem, shm, memory, value, pc, killed, retired, disturbed>>

(* sem_open: the producer passes O_CREAT and an initial value, the consumer
   does not and exits when the name is missing. *)
InitialValue == [full |-> 0, empty |-> BUF_SIZE, mutex |-> 1]

OpenSem(r, n, next) ==
  /\ ~retired
  /\ IF sem[n] = Missing /\ r \in ProducerRuns
     THEN sem' = [sem EXCEPT ![n] = InitialValue[n]] ELSE UNCHANGED sem
  /\ MainMoves(r, n, IF sem'[n] = Missing THEN "exited" ELSE next)
  /\ UNCHANGED <<shm, memory, value, pc, killed, retired, disturbed>>

OpenSems(r) == \/ OpenSem(r, "full", "empty") \/ OpenSem(r, "empty", "mutex")
               \/ OpenSem(r, "mutex", "shm")

(* shm_open, with O_CREAT in the producer only. *)
OpenShm(r) ==
  /\ ~retired
  /\ IF shm = "missing" /\ r \in ProducerRuns
     THEN shm' = "empty" ELSE UNCHANGED shm
  /\ MainMoves(r, "shm", CASE r \in ProducerRuns -> "ftruncate"
                           [] r \in ConsumerRuns /\ shm # "missing" -> "in"
                           [] OTHER -> "exited")
  /\ UNCHANGED <<sem, memory, value, pc, killed, retired, disturbed>>

(* ftruncate, in the producer only: the new memory is all zeros. *)
Truncate(r) == /\ MainMoves(r, "ftruncate", "in")
               /\ shm' = "sized"
               /\ UNCHANGED <<sem, memory, value, pc, killed, retired, disturbed>>

(* mem->in = 0: the process dies of SIGBUS if the memory has no size yet. *)
ResetIn(r) ==
  /\ At(r, "in")
  /\ IF shm = "sized"
     THEN in' = 0 /\ Goto(r, "out") /\ UNCHANGED killed
     ELSE killed' = killed \cup {r} /\ UNCHANGED <<in, main>>
  /\ disturbed' = (disturbed \/ in' # in)
  /\ UNCHANGED <<sem, shm, buffer, out, value, pc, retired>>

ResetOut(r) ==
  /\ MainMoves(r, "out", IF num = 0 THEN "wait" ELSE "fork")
  /\ out' = 0
  /\ disturbed' = (disturbed \/ out' # out)
  /\ UNCHANGED <<sem, shm, buffer, in, value, pc, killed, retired>>

NextToFork(r, i) == /\ At(r, "fork")
                    /\ pc[<<r, i>>] = "unborn"
                    /\ \A j \in 1 .. (i - 1) : pc[<<r, j>>] # "unborn"

Fork(r, i) ==
  /\ NextToFork(r, i)
  /\ pc' = [pc EXCEPT ![<<r, i>>] = "first"]
  /\ Goto(r, IF i = num THEN "wait" ELSE "fork")
  /\ UNCHANGED <<sem, shm, memory, value, killed, retired, disturbed>>

(* fork fails: main exits, the children it has forked go on. *)
ForkFails(r, i) ==
  /\ NextToFork(r, i)
  /\ Goto(r, "exited")
  /\ UNCHANGED <<sem, shm, memory, value, pc, killed, retired, disturbed>>

(* wait has collected every child, which only a kill can end; the names are
   unlinked, until one of them turns out to be unlinked already. *)
AllReaped(r) == /\ MainMoves(r, "wait", "unlink")
                /\ \A i \in 1 .. num : <<r, i>> \in killed
                /\ UNCHANGED <<sem, shm, memory, value, pc, killed, retired, disturbed>>

Unlink(r) == /\ MainMoves(r, "unlink", "exited")
             /\ retired' = TRUE
             /\ UNCHANGED <<sem, shm, memory, value, pc, killed, disturbed>>

KillMain(r) == /\ MainAlive(r) /\ Cardinality(killed) < MaxKills
               /\ killed' = killed \cup {r}
               /\ UNCHANGED <<sem, shm, memory, value, main, pc, retired, disturbed>>
-----------------------------------------------------------------------------
(* The children. *)

Step(k, from, to) == /\ pc[k] = from /\ k \notin killed
                     /\ pc' = [pc EXCEPT ![k] = to]
                     /\ UNCHANGED <<shm, main, killed, retired, disturbed>>

SemWait(k, n, from, to) == /\ Step(k, from, to)
                           /\ sem[n] > 0
                           /\ sem' = [sem EXCEPT ![n] = @ - 1]
                           /\ UNCHANGED <<memory, value>>

SemPost(k, n, from, to) == /\ Step(k, from, to)
                           /\ sem' = [sem EXCEPT ![n] = @ + 1]
                           /\ UNCHANGED <<memory, value>>

(* mem->buffer[mem->in] = value, for a random value. *)
Write(k) == /\ Step(k, "access", "advance")
            /\ \E v \in Values : buffer' = [buffer EXCEPT ![in] = v]
            /\ UNCHANGED <<sem, in, out, value>>

(* Fault: the index does not wrap round. *)
AdvanceInPast(k) == /\ Step(k, "advance", "unlock")
                    /\ in' = in + 1
                    /\ UNCHANGED <<sem, buffer, out, value>>

AdvanceIn(k) == /\ Step(k, "advance", "unlock")
                /\ in' = (in + 1) % BUF_SIZE
                /\ UNCHANGED <<sem, buffer, out, value>>

(* value = mem->buffer[mem->out]. *)
Read(k) == /\ Step(k, "access", "advance")
           /\ value' = [value EXCEPT ![k] = buffer[out]]
           /\ UNCHANGED <<sem, memory>>

AdvanceOut(k) == /\ Step(k, "advance", "unlock")
                 /\ out' = (out + 1) % BUF_SIZE
                 /\ UNCHANGED <<sem, buffer, in, value>>

(* Faults: a semaphore is not waited for, or not posted. *)
TakeSlotAtOnce(k, n) == Step(k, "first", "lock") /\ UNCHANGED <<sem, memory, value>>
LockAtOnce(k)        == Step(k, "lock", "access") /\ UNCHANGED <<sem, memory, value>>
UnlockNothing(k)     == Step(k, "unlock", "last") /\ UNCHANGED <<sem, memory, value>>
GiveNothing(k, n)    == Step(k, "last", "first") /\ UNCHANGED <<sem, memory, value>>

TakeSlot(k, n) == SemWait(k, n, "first", "lock")
Lock(k)        == SemWait(k, "mutex", "lock", "access")
Unlock(k)      == SemPost(k, "mutex", "unlock", "last")
GiveSlot(k, n) == SemPost(k, n, "last", "first")

producer(k) == /\ k \in Producers
               /\ \/ TakeSlot(k, "empty") \/ Lock(k) \/ Write(k) \/ AdvanceIn(k)
                  \/ Unlock(k) \/ GiveSlot(k, "full")

consumer(k) == /\ k \in Consumers
               /\ \/ TakeSlot(k, "full") \/ Lock(k) \/ Read(k) \/ AdvanceOut(k)
                  \/ Unlock(k) \/ GiveSlot(k, "empty")

KillKid(k) == /\ pc[k] # "unborn" /\ k \notin killed /\ Cardinality(killed) < MaxKills
              /\ killed' = killed \cup {k}
              /\ UNCHANGED <<sem, shm, memory, value, main, pc, retired, disturbed>>
-----------------------------------------------------------------------------
Main(r) == \/ OpenSems(r) \/ OpenShm(r) \/ Truncate(r)
           \/ ResetIn(r) \/ ResetOut(r)
           \/ (\E i \in 1 .. num : Fork(r, i)) \/ AllReaped(r) \/ Unlink(r)

Work(k) == producer(k) \/ consumer(k)

Fail == \/ (\E r \in Run : KillMain(r) \/ \E i \in 1 .. num : ForkFails(r, i))
        \/ (\E k \in Kid : KillKid(k))

Next == \/ (\E r \in Run : Start(r) \/ Main(r))
        \/ (\E k \in Kid : Work(k))
        \/ Fail

Spec == Init /\ [][Next]_vars

(* The kernel schedules every child that can run. *)
Fairness == \A k \in Kid : WF_vars(Work(k))

FairSpec == Spec /\ Fairness
-----------------------------------------------------------------------------
Units(K, locs) == Cardinality({k \in K : pc[k] \in locs})

(* No slot is ever made or lost: the full slots, the empty ones and those in
   the hands of children, dead ones too, add up to the size of the ring,
   through kills, restarts and resets.  At most one process is at the memory,
   the mutex is then 0, and if it is killed there the mutex stays 0. *)
Conservation ==
  /\ sem["full"] # Missing /\ sem["empty"] # Missing =>
       sem["full"] + sem["empty"]
         + Units(Kid, {"lock", "access", "advance", "unlock", "last"})
       = BUF_SIZE
  /\ sem["mutex"] # Missing =>
       sem["mutex"] = 1 - Units(Kid, {"access", "advance", "unlock"})

(* What the ring holds: the values signalled as full, those written but not
   signalled yet, those claimed by a consumer but not read yet. *)
Held  == (IF sem["full"] = Missing THEN 0 ELSE sem["full"])
         + Units(Producers, {"advance", "unlock", "last"})
         + Units(Consumers, {"lock", "access"})
First == out + Units(Consumers, {"advance"})

(* The ring is a bounded first-in-first-out queue as long as no execution
   sets an index back: no value is lost, duplicated, overwritten before it
   is read or read before it is written, whoever is killed wherever. *)
Fifo == INSTANCE BoundedFifo WITH
          queue <- [i \in 1 .. Held |-> buffer[(First + i - 1) % BUF_SIZE]]
ImplementsBoundedFifo == Fifo!Spec

(* While nobody is killed and no index is set back, a held value is read in
   the end, and a free slot is filled in the end. *)
Healthy == ~disturbed /\ killed = {} /\ \A k \in Kid : pc[k] # "unborn"
RingGoesOn == \A s \in Slots :
  /\ (Healthy /\ out = s /\ Held > 0) ~> (~Healthy \/ out # s)
  /\ (Healthy /\ in = s /\ Held < BUF_SIZE) ~> (~Healthy \/ in # s)

(* ipc/shm/examples/pseudocode.c:11 sets the count of items to 0 "since
   initially there are no items in the buffer".  While nobody is at the
   memory, the distance of the indices is the count of items. *)
IndicesMatchItems ==
  Units(Kid, {"access", "advance", "unlock"}) = 0 =>
    (in - out) % BUF_SIZE = Held % BUF_SIZE
=============================================================================
