-------------------------- MODULE BoundedSemaphore --------------------------
(***************************************************************************)
(* What os/osprj/parking.c promises of its mysem_t (comment, lines 24-26): *)
(* a semaphore that blocks at both ends.  A caller of wait blocks while no *)
(* space is left, a caller of post blocks while every space is free.  Each *)
(* call is one atomic step here; the program makes it two.                 *)
(*                                                                         *)
(* There is one such semaphore per lot.  A lot whose kernel objects come   *)
(* into use by a second run of the program is "shared": nothing is         *)
(* promised about it any more.                                             *)
(***************************************************************************)
EXTENDS Integers

CONSTANTS Lots,      (* the lots, one per run of the program               *)
          Capacity   (* the spaces of a lot                                *)

VARIABLES space,     (* the free spaces of each lot                        *)
          shared     (* the lots that are no longer used by one run alone  *)

Init == /\ space = [l \in Lots |-> Capacity]
        /\ shared = {}

(* Take a space; blocks while there is none. *)
Wait(l) == /\ l \notin shared
           /\ space[l] > 0
           /\ space' = [space EXCEPT ![l] = @ - 1]
           /\ UNCHANGED shared

(* Give a space back; blocks while none is taken. *)
Post(l) == /\ l \notin shared
           /\ space[l] < Capacity
           /\ space' = [space EXCEPT ![l] = @ + 1]
           /\ UNCHANGED shared

(* A run opens an object of another's lot: from here on neither is alone. *)
Share == /\ shared \subseteq shared' /\ shared' \subseteq Lots
         /\ UNCHANGED space

(* Nothing is known of a shared lot, except that it is no other lot. *)
Disturb(l) == /\ l \in shared
              /\ \A m \in Lots \ {l} : space'[m] = space[m]
              /\ UNCHANGED shared

Next == Share \/ \E l \in Lots : Wait(l) \/ Post(l) \/ Disturb(l)

Spec == Init /\ [][Next]_<<space, shared>>
=============================================================================
