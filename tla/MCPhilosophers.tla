--------------------------- MODULE MCPhilosophers ---------------------------
(* Philosophers on a small instance. *)
EXTENDS Philosophers
=============================================================================
