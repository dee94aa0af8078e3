------------------------------- MODULE Queue -------------------------------
(***************************************************************************)
(* algorithm/queue.c: a queue of at most QUEUESIZE items in an array that  *)
(* is used as a ring.  What does not fit is dropped with a warning.        *)
(***************************************************************************)
EXTENDS Integers

CONSTANT QUEUESIZE   (* 1000 in the code *)

(* What the array holds at first is never read; here it is 0. *)
init_queue == [q |-> [i \in 0 .. QUEUESIZE |-> 0], first |-> 0,
               last |-> QUEUESIZE - 1, count |-> 0]

empty_queue(q) == q.count <= 0

(* Fault: one place stays free. *)
EnqueueTooFew(q, x) ==
  LET last == (q.last + 1) % QUEUESIZE
  IN  IF q.count >= QUEUESIZE - 1
      THEN q
      ELSE [q EXCEPT !.last = last, !.q[last] = x, !.count = @ + 1]

enqueue(q, x) ==
  LET last == (q.last + 1) % QUEUESIZE
  IN  IF q.count >= QUEUESIZE
      THEN q
      ELSE [q EXCEPT !.last = last, !.q[last] = x, !.count = @ + 1]

headq(q)   == q.q[q.first]
dequeue(q) == IF empty_queue(q) THEN q
              ELSE [q EXCEPT !.first = (@ + 1) % QUEUESIZE, !.count = @ - 1]
=============================================================================
