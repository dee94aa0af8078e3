----------------------------- MODULE MCCrossing -----------------------------
(* Crossing on a small instance: some of the eight directions. *)
EXTENDS Crossing
=============================================================================
