--------------------------- MODULE SharedRecords ----------------------------
(***************************************************************************)
(* practice/practice6/pr61w.c and pr61r.c: a writer fills an array in      *)
(* shared memory, a reader copies it, both under a named semaphore.  The   *)
(* writer makes what it does not find; the reader removes both names when  *)
(* it ends.  Several writers and readers may run, one after the other or   *)
(* at the same time, and be killed.                                        *)
(*                                                                         *)
(* An object is named by the writer that made it.  Every writer writes the *)
(* same persons: of a record only whether it is written is kept.           *)
(***************************************************************************)
EXTENDS Naturals, FiniteSets

CONSTANTS Writers, Readers,  (* the executions of pr61w and of pr61r       *)
          ARRAY_SIZE         (* the number of records, 10 in the code      *)

Nothing == "nothing"
People  == Writers \cup Readers
Objects == Writers \cup {Nothing}
Records == 1 .. ARRAY_SIZE

VARIABLES
  SEM, SHM,   (* the objects the names mean                                *)
  value,      (* the value of each semaphore                               *)
  sized,      (* the memories that ftruncate has given their size          *)
  written,    (* the records written in each memory                        *)
  place,      (* where each process is                                     *)
  has,        (* the objects it has open, the number of records it has been
                 through, and those that a reader found written            *)
  guards      (* history: the semaphores each memory was opened along with *)

kernelVars == <<SEM, SHM, value, sized, written, guards>>
recordVars == <<kernelVars, place, has>>

HasNothing == [sem |-> Nothing, mem |-> Nothing, copied |-> 0, found |-> {}]

RecordInit ==
  /\ SEM = Nothing /\ SHM = Nothing
  /\ value = [o \in Writers |-> 1] /\ sized = {}
  /\ written = [o \in Writers |-> {}]
  /\ place = [p \in People |-> "start"]
  /\ has = [p \in People |-> HasNothing]
  /\ guards = [o \in Writers |-> {}]
-----------------------------------------------------------------------------
Moves(p, from, to) == /\ place[p] = from
                      /\ place' = [place EXCEPT ![p] = to]

Ends(p, from) == /\ Moves(p, from, "end")
                 /\ has' = [has EXCEPT ![p] = HasNothing]

(* sem_open: with O_CREAT in the writer; without the name the reader ends. *)
OpenSem(p) ==
  /\ IF p \in Readers /\ SEM = Nothing
     THEN Ends(p, "start") /\ UNCHANGED SEM
     ELSE /\ Moves(p, "start", "openMem")
          /\ SEM' = IF SEM = Nothing THEN p ELSE SEM
          /\ has' = [has EXCEPT ![p].sem = SEM']
  /\ UNCHANGED <<SHM, value, sized, written, guards>>

(* shm_open: the same; the reader then removes the name of the semaphore
   only. *)
OpenMem(p) ==
  /\ IF p \in Readers /\ SHM = Nothing
     THEN Moves(p, "openMem", "unlinkSem") /\ UNCHANGED <<SHM, has, guards>>
     ELSE /\ Moves(p, "openMem", IF p \in Writers THEN "size" ELSE "wait")
          /\ SHM' = IF SHM = Nothing THEN p ELSE SHM
          /\ has' = [has EXCEPT ![p].mem = SHM']
          /\ guards' = [guards EXCEPT ![SHM'] = @ \cup {has[p].sem}]
  /\ UNCHANGED <<SEM, value, sized, written>>

Truncate(p) == /\ Moves(p, "size", "wait")
               /\ sized' = sized \cup {has[p].mem}
               /\ UNCHANGED <<SEM, SHM, value, written, guards, has>>

(* Fault: nobody waits for the semaphore. *)
sem_nowait(p) == Moves(p, "wait", "copy") /\ UNCHANGED <<kernelVars, has>>

sem_wait(p) == /\ Moves(p, "wait", "copy")
               /\ value[has[p].sem] > 0
               /\ value' = [value EXCEPT ![has[p].sem] = @ - 1]
               /\ UNCHANGED <<SEM, SHM, sized, written, guards, has>>

(* memcpy of the next record; in a memory without a size it is SIGBUS. *)
Copy(p) ==
  LET m == has[p].mem
      i == has[p].copied + 1
  IN /\ i \in Records
     /\ \/ m \notin sized /\ Ends(p, "copy") /\ UNCHANGED written
        \/ /\ m \in sized /\ p \in Writers /\ Moves(p, "copy", "copy")
           /\ has' = [has EXCEPT ![p].copied = i]
           /\ written' = [written EXCEPT ![m] = @ \cup {i}]
        \/ /\ m \in sized /\ p \in Readers /\ Moves(p, "copy", "copy")
           /\ has' = [has EXCEPT ![p].copied = i,
                                 ![p].found = @ \cup (written[m] \cap {i})]
           /\ UNCHANGED written
     /\ UNCHANGED <<SEM, SHM, value, sized, guards>>

sem_post(p) == /\ has[p].copied = ARRAY_SIZE
               /\ \/ p \in Writers /\ Ends(p, "copy")
                  \/ p \in Readers /\ Moves(p, "copy", "unlinkSem") /\ UNCHANGED has
               /\ value' = [value EXCEPT ![has[p].sem] = @ + 1]
               /\ UNCHANGED <<SEM, SHM, sized, written, guards>>

(* cleanup of the reader: the name of a memory it has not opened stays. *)
UnlinkSem(p) == /\ \/ has[p].mem = Nothing /\ Ends(p, "unlinkSem")
                   \/ /\ has[p].mem # Nothing /\ UNCHANGED has
                      /\ Moves(p, "unlinkSem", "unlinkMem")
                /\ SEM' = Nothing
                /\ UNCHANGED <<SHM, value, sized, written, guards>>

UnlinkMem(p) == /\ Ends(p, "unlinkMem")
                /\ SHM' = Nothing
                /\ UNCHANGED <<SEM, value, sized, written, guards>>

Killed(p) == /\ place[p] \notin {"start", "end"}
             /\ Ends(p, place[p])
             /\ UNCHANGED kernelVars

RecordNext == \E p \in People :
  \/ OpenSem(p) \/ OpenMem(p) \/ Truncate(p) \/ sem_wait(p) \/ Copy(p)
  \/ sem_post(p) \/ UnlinkSem(p) \/ UnlinkMem(p) \/ Killed(p)

RecordSpec == RecordInit /\ [][RecordNext]_recordVars
-----------------------------------------------------------------------------
RecordTypeOK ==
  /\ {SEM, SHM} \subseteq Objects
  /\ value \in [Writers -> 0 .. 1] /\ sized \subseteq Writers
  /\ written \in [Writers -> SUBSET Records]
  /\ place \in [People -> {"start", "openMem", "size", "wait", "copy",
                           "unlinkSem", "unlinkMem", "end"}]
  /\ has \in [People -> [sem : Objects, mem : Objects,
                         copied : 0 .. ARRAY_SIZE, found : SUBSET Records]]
  /\ guards \in [Writers -> SUBSET Writers]

(* A reader finds all records or none, never an array half written, wherever
   others are killed, as long as all who opened the memory did so along with
   one semaphore: a reader that removes the names between the two opens of
   another process (pr61w.c 73-80, pr61r.c 45-58) makes the memory outlive
   its semaphore. *)
ReadsAllOrNothing ==
  \A r \in Readers :
    has[r].copied = ARRAY_SIZE /\ Cardinality(guards[has[r].mem]) = 1
      => has[r].found \in {{}, Records}
=============================================================================
