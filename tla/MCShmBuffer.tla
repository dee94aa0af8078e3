---------------------------- MODULE MCShmBuffer -----------------------------
(* ShmBuffer on a small instance. *)
EXTENDS ShmBuffer
=============================================================================
