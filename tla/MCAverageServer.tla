-------------------------- MODULE MCAverageServer ---------------------------
(* AverageServer on a small instance. *)
EXTENDS AverageServer
=============================================================================
