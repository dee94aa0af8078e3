------------------------------ MODULE MCParking ------------------------------
(* Parking on a small instance: two runs of the program. *)
EXTENDS Parking
=============================================================================
