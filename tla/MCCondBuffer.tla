---------------------------- MODULE MCCondBuffer ----------------------------
(* CondBuffer on a small instance. *)
EXTENDS CondBuffer
=============================================================================
