----------------------------- MODULE MCPontual -----------------------------
(* ProcessadorPontual with the production constants, one minute per unit. *)
EXTENDS ProcessadorPontual

CONSTANTS k1, k2, c1

MCPartida == [k \in Chave |-> AntecedenciaFechamento + 1]
=============================================================================
