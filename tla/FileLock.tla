------------------------------ MODULE FileLock ------------------------------
(***************************************************************************)
(* Processes that hold a lock on a file while they run:                    *)
(*                                                                         *)
(*   oneinstance   ipc/filelock/oneinstance.c: a record lock that fails at *)
(*                 once when another process has it; the holder writes its *)
(*                 pid into the file and leaves the file there             *)
(*   filelock      ipc/filelock/filelock.c: flock, which waits             *)
(*                                                                         *)
(* The kernel releases the lock of a process that ends or is killed.       *)
(***************************************************************************)
EXTENDS Naturals, FiniteSets

CONSTANT LockPids   (* the processes, by pid                               *)

VARIABLES locking,    (* the program that the processes run                *)
          holder,     (* the process that has the lock, or "none"          *)
          pidFile,    (* what the file says: a pid, or "" when it is empty *)
          atLock      (* where each process is                             *)

lockVars == <<locking, holder, pidFile, atLock>>

LockInit == /\ locking \in {"oneinstance", "filelock"}
            /\ holder = "none"
            /\ pidFile = ""
            /\ atLock = [p \in LockPids |-> "off"]
-----------------------------------------------------------------------------
LockStep(p, from, to) == /\ atLock[p] = from
                         /\ atLock' = [atLock EXCEPT ![p] = to]
                         /\ UNCHANGED locking

(* Fault: the file is truncated when it is opened. *)
OpenTruncating(p) == /\ LockStep(p, "off", "lock")
                     /\ pidFile' = ""
                     /\ UNCHANGED holder

Open(p) == /\ LockStep(p, "off", "lock")
           /\ UNCHANGED <<holder, pidFile>>

(* F_SETLK of the whole file; a process that does not get it exits. *)
lockRegion(p) ==
  /\ locking = "oneinstance"
  /\ IF holder = "none"
     THEN LockStep(p, "lock", "truncate") /\ holder' = p
     ELSE LockStep(p, "lock", "off") /\ UNCHANGED holder
  /\ UNCHANGED pidFile

Truncate(p) == /\ LockStep(p, "truncate", "write")
               /\ pidFile' = ""
               /\ UNCHANGED holder

WritePid(p) == /\ LockStep(p, "write", "sleep")
               /\ pidFile' = p
               /\ UNCHANGED holder

(* flock with LOCK_EX waits for the lock. *)
Flock(p) == /\ locking = "filelock"
            /\ LockStep(p, "lock", "sleep")
            /\ holder = "none" /\ holder' = p
            /\ UNCHANGED pidFile

(* The end of the process, or its death at any point. *)
Close(p) == /\ atLock[p] # "off"
            /\ LockStep(p, atLock[p], "off")
            /\ holder' = IF holder = p THEN "none" ELSE holder
            /\ UNCHANGED pidFile

LockNext == \E p \in LockPids :
              \/ Open(p) \/ lockRegion(p) \/ Truncate(p) \/ WritePid(p)
              \/ Flock(p) \/ Close(p)

LockSpec == LockInit /\ [][LockNext]_lockVars
-----------------------------------------------------------------------------
LockTypeOK ==
  /\ locking \in {"oneinstance", "filelock"}
  /\ holder \in LockPids \cup {"none"} /\ pidFile \in LockPids \cup {""}
  /\ atLock \in [LockPids -> {"off", "lock", "truncate", "write", "sleep"}]

(* "Only one instance" (oneinstance.c 2): at most one process is past the
   lock, and while it runs the file names that process, whatever started,
   failed or was killed before or beside it. *)
OneInstance ==
  /\ Cardinality({p \in LockPids :
                    atLock[p] \in {"truncate", "write", "sleep"}}) <= 1
  /\ locking = "oneinstance" =>
       \A p \in LockPids : atLock[p] = "sleep" => pidFile = p
=============================================================================
