---------------------------- MODULE BoundedFifo -----------------------------
(***************************************************************************)
(* What the shared-memory buffer of ipc/shm promises: a queue of at most   *)
(* BUF_SIZE values.  Producers add at the end, consumers remove the value  *)
(* at the front, each in one atomic step.  Nothing is promised once the    *)
(* queue is "disturbed".                                                   *)
(***************************************************************************)
EXTENDS Integers, Sequences

CONSTANTS Values,     (* what a producer may put in                        *)
          Consumers,  (* who takes values out                              *)
          BUF_SIZE    (* the capacity                                      *)

VARIABLES queue,      (* the values that are in, oldest first              *)
          value,      (* the value each consumer has taken out last        *)
          disturbed   (* an outside write has broken the queue             *)

vars == <<queue, value, disturbed>>

Init == queue = <<>> /\ value = [c \in Consumers |-> 0] /\ disturbed = FALSE

Put(v) == /\ ~disturbed
          /\ Len(queue) < BUF_SIZE
          /\ queue' = Append(queue, v)
          /\ UNCHANGED <<value, disturbed>>

Get(c) == /\ ~disturbed
          /\ queue # <<>>
          /\ value' = [value EXCEPT ![c] = Head(queue)]
          /\ queue' = Tail(queue)
          /\ UNCHANGED disturbed

Disturb == disturbed'

Next == Disturb \/ (\E v \in Values : Put(v)) \/ (\E c \in Consumers : Get(c))

Spec == Init /\ [][Next]_vars
=============================================================================
