---------------------------- MODULE MCInscricao ----------------------------
(* Two reservas of one key, two requests at a time, and its planner. *)
EXTENDS MCReserva, ReservaInscricao
=============================================================================
