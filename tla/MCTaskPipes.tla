---------------------------- MODULE MCTaskPipes -----------------------------
(* TaskPipes on a small instance. *)
EXTENDS TaskPipes
=============================================================================
