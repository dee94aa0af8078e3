--------------------------- MODULE MCTicketServer ---------------------------
(* TicketServer on a small instance. *)
EXTENDS TicketServer
=============================================================================
