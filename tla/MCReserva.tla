----------------------------- MODULE MCReserva -----------------------------
(* Small instances of ReservaPlanejamento for TLC. *)
EXTENDS ReservaPlanejamento, TLC

CONSTANTS v1, v2, m1, m2, r1, r2, p1, p2, d1

\* All the reservas go to one destino, which is in m1.
MCDestinoDe == [r \in Reserva |-> d1]
MCMunicipioInicial == [d \in {d1} |-> m1]
Simetria == Permutations(Reserva) \cup Permutations(Pedido)
=============================================================================
